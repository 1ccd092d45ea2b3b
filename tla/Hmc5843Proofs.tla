--------------------------- MODULE Hmc5843Proofs ---------------------------
(***************************************************************************)
(* Proofs about Hmc5843 for any set of users, any number of tries and of   *)
(* failing transfers, any settings and every variant of the chip.          *)
(***************************************************************************)
EXTENDS Hmc5843, TLAPS

-----------------------------------------------------------------------------
(* The inductive invariant.                                                *)

Fields == {"conf", "rate", "gain", "mode"}

(* data->lock is held by the one thread that is inside: the mutual         *)
(* exclusion the other parts rest on.                                      *)
LockInv ==
  \A t \in Threads : pc[t] \in {"update", "poll", "bulk", "unlock"} <=> lock = t

(* A thread writes the setting it was called for, a value that the field   *)
(* has the bits for; only Core writes the mode.                            *)
CallInv ==
  /\ DOMAIN call = Threads
  /\ \A u \in Users :
       \/ call[u] = <<"raw", 0>>
       \/ /\ call[u][1] \in {"conf", "rate", "gain"}
          /\ \E i \in DOMAIN Table(call[u][1]) : call[u][2] = i - 1
  /\ call[Handler] = <<"raw", 0>>
  /\ IF stage \in DOMAIN CoreSetting
       THEN pc[Core] # "idle" /\ call[Core] = CoreSetting[stage]
       ELSE pc[Core] = "idle" /\ call[Core] = <<"raw", 0>>
  /\ \A t \in Threads : /\ pc[t] = "update" => call[t][1] # "raw"
                        /\ pc[t] \in {"poll", "bulk"} => call[t][1] = "raw"

(* The handler runs between a trigger and its notification. *)
HandlerInv == trigBusy <=> pc[Handler] # "idle"

(* A user is in a function while the device is registered; Core never      *)
(* polls; and who polls has a look left.                                   *)
PlaceInv ==
  /\ \A u \in Users : pc[u] # "idle" => stage \in {"bound", "unregister"}
  /\ ret[Core] # "notready"
  /\ \A t \in Threads : pc[t] = "poll" => tries[t] \in 1 .. MaxTries

(* Data get ready only in the continuous mode, and regmap never remembers  *)
(* that they are.                                                          *)
ReadyInv ==
  /\ chip["STATUS"] = 1 => chip["MODE"] = Continuous
  /\ cache["STATUS"] = NotCached

(* What mode the chip is in by Core's place, until a transfer fails. *)
ModeInv ==
  faults = 0 =>
    /\ \A t \in Threads : ret[t] # "error"
    /\ stage \in {"unbound", "id", "conf", "rate", "gain"} =>
         chip["MODE"] # Continuous
    /\ stage \in {"setup", "register", "bound", "unregister"} =>
         chip["MODE"] = Continuous
    /\ pc[Core] = "unlock" =>
         /\ stage \in {"mode", "resume"} => chip["MODE"] = Continuous
         /\ stage \in {"sleep", "suspend"} => chip["MODE"] = Sleep

IInv == /\ TypeOK /\ CacheCoherent /\ ReadsAwake
        /\ LockInv /\ CallInv /\ HandlerInv /\ PlaceInv /\ ReadyInv /\ ModeInv

(* The rate that the register of a device past probe holds is one of the   *)
(* table's: the field is wider than most tables are long, so this rests on *)
(* what is written, and on the reserved bits above it being clear.         *)
RateIsSet ==
  \/ stage \notin {"unbound", "id", "conf", "rate"}
  \/ stage = "rate" /\ pc[Core] = "unlock" /\ ret[Core] = "ok"

RateInv ==
  /\ chip["A"] < 32
  /\ RateIsSet => Get(chip, "rate") + 1 \in DOMAIN Table("rate")

-----------------------------------------------------------------------------
(* Registers and fields.                                                   *)

(* Where the fields are. *)
LEMMA FieldFacts ==
  ASSUME NEW f \in Fields
  PROVE  \/ f = "conf" /\ RegOf[f] = "A" /\ Low[f] = 1 /\ Size[f] = 4
         \/ f = "rate" /\ RegOf[f] = "A" /\ Low[f] = 4 /\ Size[f] = 8
         \/ f = "gain" /\ RegOf[f] = "B" /\ Low[f] = 32 /\ Size[f] = 8
         \/ f = "mode" /\ RegOf[f] = "MODE" /\ Low[f] = 1 /\ Size[f] = 4
BY DEF Fields, RegOf, Low, Size

(* What replacing a field's bits does to a byte, field by field. *)
LEMMA ConfBits ==
  ASSUME NEW x \in 0 .. 255, NEW v \in 0 .. 3
  PROVE  LET new == x + ((v % 4) - ((x \div 1) % 4)) * 1 IN
         /\ new \in 0 .. 255
         /\ (new \div 1) % 4 = v
         /\ (new \div 4) % 8 = (x \div 4) % 8
         /\ x < 32 => new < 32
OBVIOUS

(* The same of the rate, in the same register, ... *)
LEMMA RateBits ==
  ASSUME NEW x \in 0 .. 255, NEW v \in 0 .. 7
  PROVE  LET new == x + ((v % 8) - ((x \div 4) % 8)) * 4 IN
         /\ new \in 0 .. 255
         /\ (new \div 4) % 8 = v
         /\ (new \div 1) % 4 = (x \div 1) % 4
         /\ x < 32 => new < 32
OBVIOUS

(* ... of the gain, alone in the second register, ... *)
LEMMA GainBits ==
  ASSUME NEW x \in 0 .. 255, NEW v \in 0 .. 7
  PROVE  LET new == x + ((v % 8) - ((x \div 32) % 8)) * 32 IN
         /\ new \in 0 .. 255
         /\ (new \div 32) % 8 = v
OBVIOUS

(* ... and of the mode, whose register it fills. *)
LEMMA ModeBits ==
  ASSUME NEW x \in 0 .. 3, NEW v \in 0 .. 3
  PROVE  LET new == x + ((v % 4) - ((x \div 1) % 4)) * 1 IN
         /\ new \in 0 .. 255
         /\ (new \div 1) % 4 = v
         /\ new = v
OBVIOUS

(* regmap_update_bits() computes a byte that has the value in the field    *)
(* and the old bits in the other fields of the register.                   *)
LEMMA PutFacts ==
  ASSUME NEW r \in [Registers -> 0 .. 255], r["MODE"] \in 0 .. 3,
         NEW f \in Fields, NEW v \in 0 .. Size[f] - 1
  PROVE  LET new == Put(r, f, v) IN
         /\ new \in 0 .. 255
         /\ (new \div Low[f]) % Size[f] = v
         /\ f = "mode" => new = v
         /\ f = "conf" => (new \div Low["rate"]) % Size["rate"] = Get(r, "rate")
         /\ f = "rate" => (new \div Low["conf"]) % Size["conf"] = Get(r, "conf")
         /\ RegOf[f] = "A" /\ r["A"] < 32 => new < 32
<1>0. r["A"] \in 0 .. 255 /\ r["B"] \in 0 .. 255
  BY DEF Registers
<1>1. CASE f = "conf"
  <2>1. v \in 0 .. 3
    BY <1>1 DEF Size
  <2> QED
    BY <1>0, <1>1, <2>1, ConfBits, ZenonT(40) DEF Put, Get, RegOf, Low, Size
<1>2. CASE f = "rate"
  <2>1. v \in 0 .. 7
    BY <1>2 DEF Size
  <2> QED
    BY <1>0, <1>2, <2>1, RateBits, ZenonT(40) DEF Put, Get, RegOf, Low, Size
<1>3. CASE f = "gain"
  <2>1. v \in 0 .. 7
    BY <1>3 DEF Size
  <2> QED
    BY <1>0, <1>3, <2>1, GainBits, ZenonT(40) DEF Put, Get, RegOf, Low, Size
<1>4. CASE f = "mode"
  <2>1. v \in 0 .. 3
    BY <1>4 DEF Size
  <2> QED
    BY <1>4, <2>1, ModeBits, ZenonT(40) DEF Put, Get, RegOf, Low, Size
<1> QED
  BY <1>1, <1>2, <1>3, <1>4 DEF Fields

(* A coherent cache does not show in what regmap takes the registers for. *)
LEMMA RegmapIsChip ==
  ASSUME ChipTypes, CacheCoherent PROVE Regmap = chip
BY DEF ChipTypes, CacheCoherent, Regmap

(* regmap_update_bits() touches the register of its field alone, the cache *)
(* stays coherent, and without a failed transfer the new value is there.   *)
LEMMA UpdateFacts ==
  ASSUME ChipTypes, CacheCoherent, ReadyInv,
         NEW f \in Fields, NEW v \in 0 .. Size[f] - 1,
         \/ UpdateBits(f, v)
         \/ UpdateBitsReadFails(f)
         \/ UpdateBitsWriteFails(f, v)
  PROVE  /\ ChipTypes' /\ CacheCoherent' /\ ReadyInv'
         /\ \A q \in {"A", "B", "MODE"} \ {RegOf[f]} : chip'[q] = chip[q]
         /\ chip'[RegOf[f]] \in {chip[RegOf[f]], Put(chip, f, v)}
         /\ UpdateBits(f, v) =>
              chip'[RegOf[f]] = Put(chip, f, v) /\ faults' = faults
         /\ faults' = 0 => faults = 0 /\ UpdateBits(f, v)
<1> DEFINE r == RegOf[f]
           new == Put(chip, f, v)
<1>1. /\ Regmap = chip
      /\ r \in {"A", "B", "MODE"}
      /\ r = "MODE" <=> f = "mode"
  BY RegmapIsChip, FieldFacts
<1>2. /\ new \in 0 .. 255
      /\ f = "mode" => new = v /\ new \in 0 .. 3
  BY PutFacts, FieldFacts DEF ChipTypes
<1>w. /\ Written(r, new) \in [Registers -> 0 .. 255]
      /\ Written(r, new)[r] = new
      /\ \A q \in {"A", "B", "MODE"} \ {r} : Written(r, new)[q] = chip[q]
      /\ Written(r, new)["STATUS"] =
           IF r = "MODE" /\ new # Continuous THEN 0 ELSE chip["STATUS"]
  <2> HIDE DEF r, new
  <2> QED
    BY <1>1, <1>2 DEF ChipTypes, Written, Registers, Continuous
<1>f. faults \in 0 .. MaxFaults /\ (Fault => faults' \in 1 .. MaxFaults)
  BY HmcAssumption DEF ChipTypes, Fault
<1>3. \/ /\ chip' = IF new = chip[r] THEN chip ELSE Written(r, new)
         /\ cache' = [cache EXCEPT ![r] = new]
         /\ faults' = faults
      \/ chip' = chip /\ cache' = cache /\ Fault /\ ~UpdateBits(f, v)
      \/ /\ chip' \in {chip, Written(r, new)}
         /\ cache' = [cache EXCEPT ![r] = NotCached]
         /\ Fault /\ ~UpdateBits(f, v)
  <2>1. Fault => faults' # faults
    BY DEF ChipTypes, Fault
  <2>2. CASE UpdateBits(f, v)
    BY <1>1, <2>2, Zenon DEF UpdateBits
  <2>3. CASE UpdateBitsReadFails(f)
    BY <2>1, <2>3, Zenon DEF UpdateBitsReadFails, UpdateBits
  <2>4. CASE UpdateBitsWriteFails(f, v)
    BY <1>1, <2>1, <2>4, Zenon DEF UpdateBitsWriteFails, UpdateBits
  <2> QED
    BY <2>2, <2>3, <2>4
<1>4. /\ chip' \in [Registers -> 0 .. 255]
      /\ \A q \in {"A", "B", "MODE"} \ {r} : chip'[q] = chip[q]
      /\ chip'[r] \in {chip[r], new}
      /\ chip'["MODE"] \in 0 .. 3
      /\ chip'["STATUS"] \in 0 .. 1
      /\ chip'["STATUS"] = 1 => chip'["MODE"] = Continuous
  <2>1. CASE chip' = chip
    BY <2>1, <1>1 DEF ChipTypes, ReadyInv
  <2>2. CASE chip' = Written(r, new)
    <3>1. /\ chip' \in [Registers -> 0 .. 255]
          /\ chip'[r] = new
          /\ \A q \in {"A", "B", "MODE"} \ {r} : chip'[q] = chip[q]
          /\ chip'["STATUS"] = IF r = "MODE" /\ new # Continuous
                                 THEN 0 ELSE chip["STATUS"]
      BY <2>2, <1>w
    <3> QED
      BY <1>1, <1>2, <3>1 DEF ChipTypes, ReadyInv
  <2> QED
    BY <1>3, <2>1, <2>2
<1>5. /\ cache' \in [Registers -> {NotCached} \cup (0 .. 255)]
      /\ faults' \in 0 .. MaxFaults
      /\ cache'["STATUS"] = NotCached
      /\ CacheCoherent'
  <2>1. \A q \in Registers \ {r} : q = "STATUS" \/ chip'[q] = chip[q]
    BY <1>4 DEF Registers
  <2>2. r \in Registers /\ r # "STATUS"
    BY <1>1 DEF Registers
  <2>3. CASE /\ chip' = IF new = chip[r] THEN chip ELSE Written(r, new)
             /\ cache' = [cache EXCEPT ![r] = new]
             /\ faults' = faults
    <3>1. chip'[r] = new
      BY <2>3, <1>w
    <3> QED
      BY <1>2, <2>1, <2>2, <2>3, <3>1 DEF ChipTypes, ReadyInv, CacheCoherent
  <2>4. CASE chip' = chip /\ cache' = cache /\ Fault
    BY <1>f, <2>4 DEF ChipTypes, ReadyInv, CacheCoherent
  <2>5. CASE cache' = [cache EXCEPT ![r] = NotCached] /\ Fault
    BY <1>f, <2>1, <2>2, <2>5 DEF ChipTypes, ReadyInv, CacheCoherent
  <2> QED
    BY <1>3, <2>3, <2>4, <2>5
<1>6. /\ UpdateBits(f, v) => chip'[r] = new /\ faults' = faults
      /\ faults' = 0 => faults = 0 /\ UpdateBits(f, v)
  <2>1. UpdateBits(f, v) => chip'[r] = new /\ faults' = faults
    <3>1. UpdateBits(f, v) =>
            /\ chip' = IF new = chip[r] THEN chip ELSE Written(r, new)
            /\ faults' = faults
      BY <1>1, Zenon DEF UpdateBits
    <3> QED
      BY <3>1, <1>w
  <2>2. ~UpdateBits(f, v) => Fault
    BY DEF UpdateBitsReadFails, UpdateBitsWriteFails
  <2> QED
    BY <1>f, <2>1, <2>2
<1> QED
  BY <1>4, <1>5, <1>6 DEF ChipTypes, ReadyInv

(* The lengths of the tables, which fit the bits of their fields.          *)
LEMMA TableFacts ==
  /\ 1 \in DOMAIN Table("conf") /\ DOMAIN Table("conf") \subseteq 1 .. 4
  /\ 5 \in DOMAIN Table("rate") /\ DOMAIN Table("rate") \subseteq 1 .. 8
  /\ DOMAIN Table("gain") = 1 .. 8
<1>1. \/ Table("conf") = MeasConf5843
      \/ Table("conf") = MeasConf5983
  BY HmcAssumption DEF Table, ChipInfo
<1>2. Table("rate") \in {Rate5843, Rate5883, Rate5983}
  BY HmcAssumption DEF Table, ChipInfo
<1>3. Table("gain") \in {Scale5843, Scale5883, Scale5883L}
  BY HmcAssumption DEF Table, ChipInfo
<1>0. ASSUME NEW S, NEW s \in Seq(S), NEW e \in S
      PROVE  DOMAIN Append(s, e) = 1 .. Len(s) + 1
  <2>1. Append(s, e) \in Seq(S) /\ Len(Append(s, e)) = Len(s) + 1
    OBVIOUS
  <2> QED
    BY <2>1
<1>4. DOMAIN MeasConf5843 = 1 .. 3 /\ DOMAIN MeasConf5983 = 1 .. 4
  <2> DEFINE S == {"normal", "positivebias", "negativebias", "disabled"}
  <2>1. MeasConf5843 \in Seq(S) /\ Len(MeasConf5843) = 3
    BY DEF MeasConf5843
  <2>2. "disabled" \in S
    OBVIOUS
  <2>3. DOMAIN MeasConf5983 = 1 .. Len(MeasConf5843) + 1
    BY <1>0, <2>1, <2>2, Zenon DEF MeasConf5983
  <2> QED
    BY <2>1, <2>3
<1>5. /\ DOMAIN Rate5843 = 1 .. 7 /\ DOMAIN Rate5883 = 1 .. 7
      /\ DOMAIN Rate5983 = 1 .. 8
  <2>1. /\ Rate5843 \in Seq(Nat) /\ Len(Rate5843) = 7
        /\ Rate5883 \in Seq(Nat) /\ Len(Rate5883) = 7
    BY DEF Rate5843, Rate5883
  <2>2. \A e \in Nat : DOMAIN Append(Rate5883, e) = 1 .. Len(Rate5883) + 1
    BY <1>0, <2>1
  <2>3. DOMAIN Rate5983 = 1 .. Len(Rate5883) + 1
    BY <2>2 DEF Rate5983
  <2> QED
    BY <2>1, <2>3
<1>6. /\ DOMAIN Scale5843 = 1 .. 8
      /\ DOMAIN Scale5883 = 1 .. 8
      /\ DOMAIN Scale5883L = 1 .. 8
  BY DEF Scale5843, Scale5883, Scale5883L
<1> QED
  BY <1>1, <1>2, <1>3, <1>4, <1>5, <1>6

(* The fields that users and Core write, and the values they write there.  *)
LEMMA CallFacts ==
  ASSUME TypeOK, CallInv, NEW t \in Threads, pc[t] = "update"
  PROVE  /\ call[t][1] \in Fields
         /\ call[t][2] \in 0 .. Size[call[t][1]] - 1
         /\ t # Core => call[t][1] # "mode"
         /\ call[t][1] = "rate" => call[t][2] + 1 \in DOMAIN Table("rate")
<1>1. t # Handler
  BY DEF CallInv
<1>2. CASE t = Core
  <2>1. stage \in DOMAIN CoreSetting /\ call[t] = CoreSetting[stage]
    BY <1>2 DEF CallInv
  <2> QED
    BY <1>2, <2>1, TableFacts
       DEF CoreSetting, Fields, Size, Continuous, Sleep
<1>3. CASE t \in Users
  <2>1. /\ call[t][1] \in {"conf", "rate", "gain"}
        /\ \E i \in DOMAIN Table(call[t][1]) : call[t][2] = i - 1
    BY <1>3 DEF CallInv
  <2>3. Core \notin Users
    BY HmcAssumption
  <2> QED
    BY <1>3, <2>1, <2>3, TableFacts DEF Fields, Size
<1> QED
  BY <1>1, <1>2, <1>3 DEF Threads

-----------------------------------------------------------------------------
(* Every step keeps the invariant, part by part.                           *)

DeviceInv == ChipTypes /\ CacheCoherent /\ ReadyInv

(* The chip, the cache and the count of faults.                            *)
LEMMA DeviceStep ==
  ASSUME IInv, Next PROVE DeviceInv'
<1>0. DeviceInv
  BY DEF IInv, TypeOK, DeviceInv
<1> DEFINE Counted == faults' = faults \/ Fault
<1>1. Counted => faults' \in 0 .. MaxFaults
  BY <1>0, HmcAssumption DEF DeviceInv, ChipTypes, Fault
<1>2. ASSUME chip' = chip, cache' = cache, Counted
      PROVE  DeviceInv'
  BY <1>0, <1>1, <1>2
     DEF DeviceInv, ChipTypes, CacheCoherent, ReadyInv
<1>3. CASE ChipMeasures
  <2>1. chip["MODE"] \in 0 .. 3 => chip["MODE"] = Continuous
    BY <1>3 DEF ChipMeasures, Get, RegOf, Low, Size, Continuous
  <2> QED
    BY <1>0, <1>3, <2>1 DEF ChipMeasures, DeviceInv, ChipTypes, CacheCoherent,
                            ReadyInv, Registers, NotCached
<1>4. ASSUME NEW t \in Threads, Update(t) PROVE DeviceInv'
  <2>1. /\ call[t][1] \in Fields
        /\ call[t][2] \in 0 .. Size[call[t][1]] - 1
    BY <1>4, CallFacts DEF IInv, Update
  <2> QED
    BY <1>0, <1>4, <2>1, UpdateFacts DEF Update, DeviceInv
<1>5. ASSUME NEW t \in Threads, Poll(t) PROVE DeviceInv'
  <2>1. chip' = chip /\ cache' = cache /\ faults' = faults
    BY <1>5 DEF Poll, ReadThrough, Volatile
  <2> QED
    BY <1>2, <2>1
<1>6. ASSUME NEW u \in Users, ShowSetting(u) PROVE DeviceInv'
  <2>1. PICK r \in {"A", "B"} :
          \/ ReadThrough(r) /\ UNCHANGED faults
          \/ Fault /\ UNCHANGED cache
    BY <1>6 DEF ShowSetting
  <2>2. chip' = chip
    BY <1>6 DEF ShowSetting
  <2>3. CASE ReadThrough(r) /\ UNCHANGED faults
    <3>1. cache' = [cache EXCEPT ![r] = chip[r]]
      BY <1>0, <2>3, RegmapIsChip DEF ReadThrough, Volatile, DeviceInv
    <3> QED
      BY <1>0, <2>2, <2>3, <3>1
         DEF DeviceInv, ChipTypes, CacheCoherent, ReadyInv, Registers
  <2> QED
    BY <1>2, <2>1, <2>2, <2>3
<1>7. CASE CoreUnlock
  <2>1. /\ chip' = chip /\ faults' = faults
        /\ cache' = NoCache \/ cache' = cache
    BY <1>7, Zenon DEF CoreUnlock
  <2> QED
    BY <1>0, <2>1 DEF DeviceInv, ChipTypes, CacheCoherent, ReadyInv, NoCache,
                      Registers
<1>8. ASSUME NEW t \in Threads,
             GetLock(t) \/ PollFails(t) \/ BulkRead(t) \/ Unlock(t)
      PROVE  DeviceInv'
  BY <1>2, <1>8, Zenon DEF GetLock, PollFails, BulkRead, Unlock, device
<1>9. ASSUME NEW u \in Users, ReadRaw(u) \/ WriteRaw(u) PROVE DeviceInv'
  BY <1>2, <1>9, Zenon DEF ReadRaw, WriteRaw, device
<1>10. CASE \/ SwitchBuffer \/ Trigger \/ Push \/ NotifyDone
            \/ ProbeId \/ ProbeSetup \/ ProbeRegister \/ Unregistered
            \/ ProbeBegin \/ Unregister \/ Suspend \/ Resume
  BY <1>2, <1>10, Zenon
     DEF SwitchBuffer, Trigger, Push, NotifyDone, ProbeId, ProbeSetup,
         ProbeRegister, Unregistered, ProbeBegin, Unregister, Suspend, Resume,
         device
<1> QED
  BY <1>3, <1>4, <1>5, <1>6, <1>7, <1>8, <1>9, <1>10, Zenon
     DEF Next, Inside, CoreStep

(* What the threads are doing, with the types of where they are.           *)
PlaceTypes ==
  /\ pc \in [Threads -> Pcs]
  /\ \A t \in Threads \ {Handler} : pc[t] \notin {"push", "done"}
  /\ tries \in [Threads -> 0 .. MaxTries]
  /\ ret \in [Threads -> {"ok", "error", "notready"}]
  /\ lock \in Threads \cup {"none"}
  /\ stage \in Stages

ThreadInv == PlaceTypes /\ LockInv /\ CallInv /\ PlaceInv

LEMMA ThreadFacts ==
  ASSUME IInv
  PROVE  /\ ThreadInv
         /\ Core \in Threads /\ Handler \in Threads /\ "none" \notin Threads
         /\ Core \notin Users /\ Handler \notin Users /\ Core # Handler
         /\ Users \subseteq Threads
         /\ pc[Core] \notin {"poll", "bulk"}
<1>1. ThreadInv
  BY DEF IInv, TypeOK, ThreadTypes, StateTypes, ThreadInv, PlaceTypes
<1>2. /\ Core \in Threads /\ Handler \in Threads /\ "none" \notin Threads
      /\ Core \notin Users /\ Handler \notin Users /\ Core # Handler
      /\ Users \subseteq Threads
  BY HmcAssumption DEF Threads, Core, Handler
<1>3. pc[Core] \in {"poll", "bulk"} => call[Core][1] = "raw"
  BY <1>1, <1>2 DEF ThreadInv, CallInv
<1>4. \A s \in DOMAIN CoreSetting : CoreSetting[s][1] # "raw"
  BY DEF CoreSetting
<1>5. pc[Core] \notin {"poll", "bulk"}
  BY <1>1, <1>3, <1>4 DEF ThreadInv, CallInv
<1> QED
  BY <1>1, <1>2, <1>5

(* Where Core and its call are when it enters a stage.                     *)
LEMMA EnterFacts ==
  ASSUME NEW s \in Stages, EnterStage(s)
  PROVE  /\ stage' = s
         /\ tries' = tries
         /\ ret' = [ret EXCEPT ![Core] = "ok"]
         /\ IF s \in DOMAIN CoreSetting
              THEN /\ pc' = [pc EXCEPT ![Core] = "lock"]
                   /\ call' = [call EXCEPT ![Core] = CoreSetting[s]]
              ELSE /\ pc' = [pc EXCEPT ![Core] = "idle"]
                   /\ call' = [call EXCEPT ![Core] = <<"raw", 0>>]
BY Zenon DEF EnterStage, Begin, Result, Goto

(* Core may enter a stage when it is outside, or leaves, the lock, and     *)
(* when no user is inside, unless users may be there.                      *)
LEMMA CoreMoves ==
  ASSUME IInv, NEW s \in Stages, EnterStage(s),
         \/ pc[Core] = "unlock" /\ lock' = "none"
         \/ stage \notin DOMAIN CoreSetting /\ lock' = lock,
         \/ s \in {"bound", "unregister"}
         \/ \A u \in Users : pc[u] = "idle"
  PROVE  ThreadInv'
<1>0. /\ PlaceTypes /\ LockInv /\ CallInv /\ PlaceInv
      /\ Core \in Threads /\ Handler \in Threads /\ "none" \notin Threads
      /\ Core \notin Users /\ Handler \notin Users /\ Core # Handler
      /\ Users \subseteq Threads
  BY ThreadFacts DEF ThreadInv
<1>1. /\ stage' = s
      /\ tries' = tries
      /\ ret' = [ret EXCEPT ![Core] = "ok"]
      /\ \E p \in {"lock", "idle"} : pc' = [pc EXCEPT ![Core] = p]
  BY EnterFacts
<1>2. PlaceTypes'
  BY <1>0, <1>1 DEF PlaceTypes, Pcs
<1>3. LockInv'
  BY <1>0, <1>1 DEF PlaceTypes, LockInv, CallInv
<1>4. CallInv'
  <2>1. CASE s \in DOMAIN CoreSetting
    <3>1. /\ pc' = [pc EXCEPT ![Core] = "lock"]
          /\ call' = [call EXCEPT ![Core] = CoreSetting[s]]
      BY <2>1, EnterFacts
    <3> QED
      BY <1>0, <1>1, <2>1, <3>1 DEF PlaceTypes, CallInv
  <2>2. CASE s \notin DOMAIN CoreSetting
    <3>1. /\ pc' = [pc EXCEPT ![Core] = "idle"]
          /\ call' = [call EXCEPT ![Core] = <<"raw", 0>>]
      BY <2>2, EnterFacts
    <3> QED
      BY <1>0, <1>1, <2>2, <3>1 DEF PlaceTypes, CallInv
  <2> QED
    BY <2>1, <2>2
<1>5. PlaceInv'
  BY <1>0, <1>1 DEF PlaceTypes, PlaceInv
<1> QED
  BY <1>2, <1>3, <1>4, <1>5 DEF ThreadInv

(* The locked functions: t stays inside, with or without a result.         *)
LEMMA InsideMoves ==
  ASSUME IInv, NEW t \in Threads, lock = t, lock' = lock, stage' = stage,
         call' = call,
         NEW p \in {"poll", "bulk", "unlock"},
         p = "unlock" \/ pc[t] = "poll",
         NEW x \in {"ok", "error", "notready"},
         x = "notready" => pc[t] = "poll",
         pc' = [pc EXCEPT ![t] = p], ret' = [ret EXCEPT ![t] = x],
         NEW n \in 0 .. MaxTries, tries' = [tries EXCEPT ![t] = n],
         p = "poll" => n # 0
  PROVE  ThreadInv'
<1>0. /\ PlaceTypes /\ LockInv /\ CallInv /\ PlaceInv
      /\ Core \in Threads /\ Core \notin Users /\ Users \subseteq Threads
      /\ pc[Core] \notin {"poll", "bulk"} /\ "none" \notin Threads
  BY ThreadFacts DEF ThreadInv
<1>1. pc[t] \in {"update", "poll", "bulk", "unlock"}
  BY <1>0 DEF LockInv
<1>2. PlaceTypes'
  BY <1>0 DEF PlaceTypes, Pcs
<1>3. LockInv'
  BY <1>0, <1>1 DEF PlaceTypes, LockInv
<1>4. CallInv'
  BY <1>0, <1>1 DEF PlaceTypes, CallInv
<1>5. PlaceInv'
  BY <1>0, <1>1 DEF PlaceTypes, PlaceInv
<1> QED
  BY <1>2, <1>3, <1>4, <1>5 DEF ThreadInv

(* A user or the handler enters the driver with a call it may make.        *)
LEMMA BeginMoves ==
  ASSUME IInv, NEW t \in Users \cup {Handler}, NEW c, Begin(t, c),
         pc[t] = "idle", lock' = lock, stage' = stage,
         \/ c = <<"raw", 0>>
         \/ /\ t # Handler
            /\ c[1] \in {"conf", "rate", "gain"}
            /\ \E i \in DOMAIN Table(c[1]) : c[2] = i - 1,
         t \in Users => stage \in {"bound", "unregister"}
  PROVE  ThreadInv'
<1>0. /\ PlaceTypes /\ LockInv /\ CallInv /\ PlaceInv
      /\ Core \in Threads /\ Core \notin Users /\ Handler \in Threads
      /\ Core # Handler /\ Handler \notin Users /\ Users \subseteq Threads
      /\ "none" \notin Threads
  BY ThreadFacts DEF ThreadInv
<1>1. /\ pc' = [pc EXCEPT ![t] = "lock"] /\ call' = [call EXCEPT ![t] = c]
      /\ ret' = [ret EXCEPT ![t] = "ok"] /\ tries' = tries
  BY Zenon DEF Begin, Goto
<1>2. PlaceTypes'
  BY <1>0, <1>1 DEF PlaceTypes, Pcs
<1>3. LockInv'
  BY <1>0, <1>1 DEF PlaceTypes, LockInv
<1>4. CallInv'
  BY <1>0, <1>1 DEF PlaceTypes, CallInv
<1>5. PlaceInv'
  BY <1>0, <1>1 DEF PlaceTypes, PlaceInv
<1> QED
  BY <1>2, <1>3, <1>4, <1>5 DEF ThreadInv

(* The threads, their calls and the lock.                                  *)
LEMMA ThreadStep ==
  ASSUME IInv, Next PROVE ThreadInv'
<1>0. /\ PlaceTypes /\ LockInv /\ CallInv /\ PlaceInv
      /\ Core \in Threads /\ Handler \in Threads /\ "none" \notin Threads
      /\ Core \notin Users /\ Handler \notin Users /\ Core # Handler
      /\ Users \subseteq Threads
      /\ pc[Core] \notin {"poll", "bulk"}
  BY ThreadFacts DEF ThreadInv
<1>00. MaxTries \in Nat \ {0}
  BY HmcAssumption
<1>1. ASSUME pc' = pc, call' = call, tries' = tries, ret' = ret,
             lock' = lock, stage' = stage
      PROVE  ThreadInv'
  BY <1>0, <1>1 DEF ThreadInv, PlaceTypes, LockInv, CallInv, PlaceInv
<1>2. CASE ChipMeasures
  BY <1>1, <1>2, Zenon DEF ChipMeasures, thread
<1>3. CASE SwitchBuffer
  BY <1>1, <1>3, Zenon DEF SwitchBuffer, thread
<1>4. ASSUME NEW u \in Users, ShowSetting(u) PROVE ThreadInv'
  BY <1>1, <1>4, Zenon DEF ShowSetting, thread
<1>5. ASSUME NEW t \in Threads, GetLock(t) PROVE ThreadInv'
  <2>1. /\ pc[t] = "lock" /\ lock = "none" /\ lock' = t
        /\ call' = call /\ ret' = ret /\ stage' = stage
        /\ \/ /\ call[t][1] = "raw" /\ pc' = [pc EXCEPT ![t] = "poll"]
              /\ tries' = [tries EXCEPT ![t] = MaxTries]
           \/ /\ call[t][1] # "raw" /\ pc' = [pc EXCEPT ![t] = "update"]
              /\ tries' = tries
    BY <1>5, Zenon DEF GetLock, Locked, Goto
  <2>2. PlaceTypes'
    BY <1>0, <1>00, <2>1 DEF PlaceTypes, Pcs
  <2>3. LockInv'
    <3>1. \A x \in Threads : pc[x] \notin {"update", "poll", "bulk", "unlock"}
      BY <1>0, <2>1 DEF LockInv
    <3>2. \E p \in {"update", "poll"} : pc' = [pc EXCEPT ![t] = p]
      BY <2>1
    <3> QED
      BY <1>0, <2>1, <3>1, <3>2 DEF PlaceTypes, LockInv
  <2>4. CallInv'
    BY <1>0, <2>1 DEF PlaceTypes, CallInv
  <2>5. PlaceInv'
    BY <1>0, <1>00, <2>1 DEF PlaceTypes, PlaceInv
  <2> QED
    BY <2>2, <2>3, <2>4, <2>5 DEF ThreadInv
<1>6. ASSUME NEW t \in Threads, Update(t) PROVE ThreadInv'
  <2>1. /\ pc[t] = "update" /\ tries' = tries /\ lock' = lock /\ stage' = stage
        /\ \E x \in {"ok", "error"} : Result(t, x, "unlock")
    BY <1>6, Zenon DEF Update
  <2>2. PICK x \in {"ok", "error"} : Result(t, x, "unlock")
    BY <2>1
  <2>3. /\ pc' = [pc EXCEPT ![t] = "unlock"] /\ call' = call
        /\ ret' = [ret EXCEPT ![t] = x]
    BY <2>2 DEF Result, Goto
  <2>4. lock = t /\ tries' = [tries EXCEPT ![t] = tries[t]]
               /\ tries[t] \in 0 .. MaxTries
    BY <1>0, <2>1 DEF LockInv, PlaceTypes
  <2> QED
    BY <2>1, <2>3, <2>4, InsideMoves
<1>7. ASSUME NEW t \in Threads, Poll(t) PROVE ThreadInv'
  <2>1. /\ pc[t] = "poll" /\ lock' = lock /\ stage' = stage
    BY <1>7, Zenon DEF Poll
  <2>2. lock = t /\ tries[t] \in 1 .. MaxTries
    BY <1>0, <2>1 DEF LockInv, PlaceInv
  <2>3. CASE /\ tries' = [tries EXCEPT ![t] = tries[t] - 1] /\ tries[t] > 1
             /\ pc' = pc /\ call' = call /\ ret' = ret
    <3>1. /\ pc' = [pc EXCEPT ![t] = "poll"]
          /\ ret' = [ret EXCEPT ![t] = ret[t]]
          /\ ret[t] \in {"ok", "error", "notready"}
          /\ tries[t] - 1 \in 0 .. MaxTries /\ tries[t] - 1 # 0
      BY <1>0, <1>00, <2>1, <2>2, <2>3 DEF PlaceTypes
    <3> QED
      BY <2>1, <2>2, <2>3, <3>1, InsideMoves
  <2>4. CASE /\ tries' = [tries EXCEPT ![t] = 0]
             /\ \E x \in {"ok", "notready"}, p \in {"bulk", "unlock"} :
                  Result(t, x, p)
    <3>1. PICK x \in {"ok", "notready"}, p \in {"bulk", "unlock"} :
            Result(t, x, p)
      BY <2>4
    <3>2. /\ pc' = [pc EXCEPT ![t] = p] /\ call' = call
          /\ ret' = [ret EXCEPT ![t] = x] /\ 0 \in 0 .. MaxTries
      BY <1>00, <3>1 DEF Result, Goto
    <3> QED
      BY <2>1, <2>2, <2>4, <3>2, InsideMoves
  <2>5. \A n : WaitResult(n) \in {"ok", "notready"}
    BY DEF WaitResult
  <2> QED
    BY <1>7, <2>3, <2>4, <2>5 DEF Poll
<1>9. ASSUME NEW t \in Threads, PollFails(t) PROVE ThreadInv'
  <2>1. /\ pc[t] = "poll" /\ lock' = lock /\ stage' = stage
        /\ tries' = [tries EXCEPT ![t] = 0]
        /\ pc' = [pc EXCEPT ![t] = "unlock"] /\ call' = call
        /\ ret' = [ret EXCEPT ![t] = "error"]
    BY <1>9 DEF PollFails, Result, Goto
  <2>2. lock = t /\ 0 \in 0 .. MaxTries
    BY <1>0, <1>00, <2>1 DEF LockInv
  <2> QED
    BY <2>1, <2>2, InsideMoves
<1>8. ASSUME NEW t \in Threads, BulkRead(t) PROVE ThreadInv'
  <2>1. /\ pc[t] = "bulk" /\ tries' = tries /\ lock' = lock /\ stage' = stage
        /\ \E x \in {"ok", "error"} : Result(t, x, "unlock")
    BY <1>8, Zenon DEF BulkRead
  <2>2. PICK x \in {"ok", "error"} : Result(t, x, "unlock")
    BY <2>1
  <2>3. /\ pc' = [pc EXCEPT ![t] = "unlock"] /\ call' = call
        /\ ret' = [ret EXCEPT ![t] = x]
    BY <2>2 DEF Result, Goto
  <2>4. lock = t /\ tries' = [tries EXCEPT ![t] = tries[t]]
               /\ tries[t] \in 0 .. MaxTries
    BY <1>0, <2>1 DEF LockInv, PlaceTypes
  <2> QED
    BY <2>1, <2>3, <2>4, InsideMoves
<1>10. ASSUME NEW t \in Threads, Unlock(t) PROVE ThreadInv'
  <2>1. /\ t # Core /\ pc[t] = "unlock" /\ lock' = "none" /\ stage' = stage
        /\ tries' = tries /\ ret' = [ret EXCEPT ![t] = "ok"]
        /\ \/ t # Handler /\ Result(t, "ok", "idle")
           \/ t = Handler /\ \E p \in {"push", "done"} : Result(t, "ok", p)
    BY <1>10 DEF Unlock, Unlocked, Result
  <2>2. /\ \/ /\ t # Handler /\ pc' = [pc EXCEPT ![t] = "idle"]
              /\ call' = [call EXCEPT ![t] = <<"raw", 0>>]
           \/ /\ t = Handler /\ call' = call
              /\ \E p \in {"push", "done"} : pc' = [pc EXCEPT ![t] = p]
    BY <2>1 DEF Result, Goto
  <2>3. PlaceTypes'
    BY <1>0, <2>1, <2>2 DEF PlaceTypes, Pcs
  <2>4. LockInv'
    BY <1>0, <2>1, <2>2 DEF PlaceTypes, LockInv
  <2>5. CallInv'
    BY <1>0, <2>1, <2>2 DEF PlaceTypes, CallInv
  <2>6. PlaceInv'
    BY <1>0, <2>1, <2>2 DEF PlaceTypes, PlaceInv
  <2> QED
    BY <2>3, <2>4, <2>5, <2>6 DEF ThreadInv
<1>11. ASSUME NEW u \in Users, ReadRaw(u) \/ WriteRaw(u) PROVE ThreadInv'
  <2>1. /\ pc[u] = "idle" /\ stage = "bound" /\ lock' = lock /\ stage' = stage
        /\ \/ Begin(u, <<"raw", 0>>)
           \/ \E s \in Settings : \E i \in IndexOf(s[1], s[2]) :
                Begin(u, <<s[1], i>>)
    BY <1>11, Zenon DEF ReadRaw, WriteRaw, UserMayEnter
  <2>2. CASE Begin(u, <<"raw", 0>>)
    BY <2>1, <2>2, BeginMoves
  <2>3. ASSUME NEW s \in Settings, NEW i \in IndexOf(s[1], s[2]),
               Begin(u, <<s[1], i>>)
        PROVE  ThreadInv'
    <3> DEFINE c == <<s[1], i>>
    <3>1. c[1] \in {"conf", "rate", "gain"} /\ u # Handler
      BY <1>0, HmcAssumption
    <3>2. \E j \in DOMAIN Table(c[1]) : c[2] = j - 1
      BY DEF IndexOf
    <3>3. Begin(u, c)
      BY <2>3
    <3> HIDE DEF c
    <3> QED
      BY <2>1, <3>1, <3>2, <3>3, BeginMoves
  <2> QED
    BY <2>1, <2>2, <2>3
<1>12. CASE Trigger
  <2>1. /\ pc[Handler] = "idle" /\ Begin(Handler, <<"raw", 0>>)
        /\ lock' = lock /\ stage' = stage
    BY <1>12, Zenon DEF Trigger, IInv, HandlerInv
  <2> QED
    BY <1>0, <2>1, BeginMoves
<1>13. CASE Push \/ NotifyDone
  <2>1. /\ pc[Handler] \in {"push", "done"}
        /\ \E p \in {"done", "idle"} : pc' = [pc EXCEPT ![Handler] = p]
        /\ call' = call /\ tries' = tries /\ ret' = ret
        /\ lock' = lock /\ stage' = stage
    BY <1>13, Zenon DEF Push, NotifyDone, Goto
  <2>2. PlaceTypes'
    BY <1>0, <2>1 DEF PlaceTypes, Pcs
  <2>3. LockInv'
    BY <1>0, <2>1 DEF PlaceTypes, LockInv
  <2>4. CallInv'
    BY <1>0, <2>1 DEF PlaceTypes, CallInv
  <2>5. PlaceInv'
    BY <1>0, <2>1 DEF PlaceTypes, PlaceInv
  <2> QED
    BY <2>2, <2>3, <2>4, <2>5 DEF ThreadInv
<1>14. \A s \in {"id", "conf", "unbound", "register", "bound", "sleep",
                 "asleep", "suspend", "resume", "rate", "gain", "mode",
                 "unregister", "setup"} : s \in Stages
  BY DEF Stages, CoreSetting
<1>15. CASE CoreUnlock
  <2>1. \A s, x : AfterSetting(s, x) \in {"rate", "gain", "mode", "setup",
                                          "asleep", "bound", "unbound"}
    BY DEF AfterSetting
  <2>2. PICK s \in {"rate", "gain", "mode", "setup", "asleep", "bound",
                   "unbound"} :
          pc[Core] = "unlock" /\ lock' = "none" /\ EnterStage(s)
    BY <1>15, <2>1, Zenon DEF CoreUnlock
  <2>3. stage \notin {"bound", "unregister"}
    BY <1>0, <2>2 DEF CallInv, CoreSetting
  <2> QED
    BY <1>0, <1>14, <2>2, <2>3, CoreMoves DEF PlaceInv
<1>16. CASE ProbeBegin \/ ProbeId \/ ProbeSetup \/ ProbeRegister \/ Resume
  <2>1. PICK s \in {"id", "conf", "unbound", "register", "bound", "sleep",
                   "resume"} : EnterStage(s)
    BY <1>16, Zenon DEF ProbeBegin, ProbeId, ProbeSetup, ProbeRegister, Resume
  <2>2. /\ lock' = lock
        /\ stage \in {"unbound", "id", "setup", "register", "asleep"}
    BY <1>16, Zenon DEF ProbeBegin, ProbeId, ProbeSetup, ProbeRegister, Resume
  <2>3. stage \notin DOMAIN CoreSetting
    BY <2>2 DEF CoreSetting
  <2> QED
    BY <1>0, <1>14, <2>1, <2>2, <2>3, CoreMoves DEF PlaceInv
<1>17. CASE Unregister \/ Unregistered \/ Suspend
  <2>1. PICK s \in {"unregister", "sleep", "suspend"} :
          EnterStage(s) /\ (s = "unregister" \/ \A u \in Users : pc[u] = "idle")
    BY <1>17, Zenon DEF Unregister, Unregistered, Suspend
  <2>2. lock' = lock /\ stage \in {"bound", "unregister"}
    BY <1>17, Zenon DEF Unregister, Unregistered, Suspend
  <2>3. stage \notin DOMAIN CoreSetting
    BY <2>2 DEF CoreSetting
  <2> QED
    BY <1>14, <2>1, <2>2, <2>3, CoreMoves
<1> QED
  BY <1>2, <1>3, <1>4, <1>5, <1>6, <1>7, <1>8, <1>9, <1>10, <1>11, <1>12,
     <1>13, <1>15, <1>16, <1>17, Zenon DEF Next, Inside, CoreStep

(* The mode register holds the mode and nothing else.                      *)
LEMMA ModeIsRegister ==
  ASSUME ChipTypes PROVE Get(chip, "mode") = chip["MODE"]
BY DEF ChipTypes, Get, RegOf, Low, Size

(* Only Core's setters change the mode.                                    *)
LEMMA ModeKept ==
  ASSUME IInv, Next, chip'["MODE"] # chip["MODE"]
  PROVE  Update(Core) /\ call[Core][1] = "mode"
<1>1. chip' # chip
  OBVIOUS
<1>2. ~ChipMeasures
  <2>1. ChipTypes
    BY DEF IInv, TypeOK
  <2> QED
    BY <2>1 DEF ChipMeasures, ChipTypes, Registers
<1>3. PICK t \in Threads : Update(t)
  BY <1>1, <1>2, Zenon
     DEF Next, Inside, CoreStep, GetLock, Poll, PollFails, BulkRead, Unlock,
         ReadRaw, WriteRaw, ShowSetting, SwitchBuffer, Trigger, Push,
         NotifyDone, CoreUnlock, ProbeId, ProbeSetup, ProbeRegister,
         Unregistered, ProbeBegin, Unregister, Suspend, Resume, device
<1>4. /\ call[t][1] \in Fields
      /\ call[t][2] \in 0 .. Size[call[t][1]] - 1
      /\ t # Core => call[t][1] # "mode"
  BY <1>3, CallFacts DEF IInv, Update
<1>5. RegOf[call[t][1]] = "MODE"
  BY <1>3, <1>4, UpdateFacts DEF Update, IInv, TypeOK
<1>6. call[t][1] = "mode"
  BY <1>4, <1>5, FieldFacts
<1> QED
  BY <1>3, <1>4, <1>6

(* Where Poll finds the data ready, the chip measures; nobody else comes   *)
(* to the bulk read, and nobody else is inside to change the mode.         *)
LEMMA ReadsAwakeStep ==
  ASSUME IInv, Next PROVE ReadsAwake'
<1>0. /\ PlaceTypes /\ LockInv /\ CallInv
      /\ Core \in Threads /\ pc[Core] \notin {"poll", "bulk"}
  BY ThreadFacts DEF ThreadInv
<1>1. SUFFICES ASSUME NEW t \in Threads, pc'[t] = "bulk"
               PROVE  Get(chip, "mode")' = Continuous
  BY DEF ReadsAwake
<1>2. /\ Get(chip, "mode")' = chip'["MODE"]
      /\ Get(chip, "mode") = chip["MODE"]
  <2>1. ChipTypes /\ ChipTypes'
    BY DeviceStep DEF IInv, TypeOK, DeviceInv
  <2>2. Get(chip, "mode") = chip["MODE"]
    BY <2>1, ModeIsRegister
  <2>3. Get(chip, "mode")' = chip'["MODE"]
    BY <2>1 DEF ChipTypes, Get, RegOf, Low, Size
  <2> QED
    BY <2>2, <2>3
<1>3. CASE pc[t] = "bulk"
  <2>1. t # Core /\ lock = t
    BY <1>0, <1>3 DEF LockInv
  <2>2. ~Update(Core)
    BY <1>0, <2>1 DEF LockInv, Update
  <2>3. chip'["MODE"] = chip["MODE"]
    BY <2>2, ModeKept
  <2> QED
    BY <1>2, <1>3, <2>3 DEF IInv, ReadsAwake
<1>4. CASE pc[t] # "bulk"
  <2>1. pc' # pc /\ ~(\E x \in Threads, p \in Pcs \ {"bulk"} :
                         pc' = [pc EXCEPT ![x] = p])
    BY <1>0, <1>1, <1>4 DEF PlaceTypes
  <2>a. /\ {"lock", "update", "poll", "unlock", "idle", "push", "done"}
             \subseteq Pcs \ {"bulk"}
        /\ Handler \in Threads /\ Users \subseteq Threads
    BY ThreadFacts DEF Pcs
  <2>b. \A s : ~EnterStage(s)
    BY <1>0, <2>1, <2>a, Zenon DEF EnterStage, Begin, Result, Goto
  <2>c. PICK x \in Threads : Poll(x)
    <3>2. \A x \in Threads : ~GetLock(x) /\ ~Update(x) /\ ~PollFails(x)
                               /\ ~BulkRead(x) /\ ~Unlock(x)
      BY <2>1, <2>a, Zenon
         DEF GetLock, Update, PollFails, BulkRead, Unlock, Result, Goto
    <3>3. \A u \in Users : ~ReadRaw(u) /\ ~WriteRaw(u) /\ ~ShowSetting(u)
      BY <2>1, <2>a, Zenon
         DEF ReadRaw, WriteRaw, ShowSetting, Begin, Goto, thread
    <3>4. ~ChipMeasures /\ ~SwitchBuffer /\ ~Trigger /\ ~Push /\ ~NotifyDone
      BY <2>1, <2>a, Zenon
         DEF ChipMeasures, SwitchBuffer, Trigger, Push, NotifyDone, Begin,
             Goto, thread
    <3>5. /\ ~CoreStep /\ ~ProbeBegin /\ ~Unregister /\ ~Suspend /\ ~Resume
      BY <2>b, Zenon
         DEF CoreStep, CoreUnlock, ProbeId, ProbeSetup, ProbeRegister,
             Unregistered, ProbeBegin, Unregister, Suspend, Resume
    <3> QED
      BY <3>2, <3>3, <3>4, <3>5, Zenon DEF Next, Inside
  <2>2. Regmap["STATUS"] = 1 /\ chip' = chip
    BY <1>0, <1>1, <1>4, <2>c DEF Poll, Result, Goto, PlaceTypes
  <2>3. chip["STATUS"] = 1
    BY <2>2, RegmapIsChip DEF IInv, TypeOK
  <2> QED
    BY <1>2, <2>2, <2>3 DEF IInv, ReadyInv
<1> QED
  BY <1>3, <1>4

(* What the steps of Core do to its stage and place.                       *)
LEMMA CoreEnters ==
  ASSUME IInv, CoreStep \/ ProbeBegin \/ Unregister \/ Suspend \/ Resume
  PROVE  /\ chip' = chip
         /\ faults' = 0 => faults = 0
         /\ \E s \in Stages :
              /\ EnterStage(s)
              /\ \/ pc[Core] = "unlock" /\ s = AfterSetting(stage, ret[Core] = "ok")
                 \/ stage = "unbound" /\ s = "id"
                 \/ stage = "id" /\ s \in {"conf", "unbound"}
                 \/ stage = "setup" /\ s \in {"register", "sleep"}
                 \/ stage = "register" /\ s \in {"bound", "sleep"}
                 \/ stage = "bound" /\ s \in {"unregister", "suspend"}
                 \/ stage = "unregister" /\ s = "sleep"
                 \/ stage = "asleep" /\ s = "resume"
<1>1. chip' = chip
  BY Zenon DEF CoreStep, CoreUnlock, ProbeId, ProbeSetup, ProbeRegister,
               Unregistered, ProbeBegin, Unregister, Suspend, Resume, device
<1>2. faults' = faults \/ Fault
  BY Zenon DEF CoreStep, CoreUnlock, ProbeId, ProbeSetup, ProbeRegister,
               Unregistered, ProbeBegin, Unregister, Suspend, Resume, device
<1>3. faults' = 0 => faults = 0
  <2>1. ChipTypes
    BY DEF IInv, TypeOK
  <2> QED
    BY <1>2, <2>1 DEF Fault, ChipTypes
<1>4. {"id", "conf", "unbound", "register", "bound", "sleep", "asleep", "suspend",
       "resume", "rate", "gain", "mode", "unregister", "setup"} \subseteq Stages
  BY DEF Stages, CoreSetting
<1>5. AfterSetting(stage, ret[Core] = "ok")
        \in {"rate", "gain", "mode", "setup", "asleep", "bound", "unbound"}
  BY DEF AfterSetting
<1>6. CASE CoreUnlock
  <2>1. /\ pc[Core] = "unlock"
        /\ EnterStage(AfterSetting(stage, ret[Core] = "ok"))
    BY <1>6, Zenon DEF CoreUnlock
  <2>2. AfterSetting(stage, ret[Core] = "ok") \in Stages
    BY <1>4, <1>5
  <2> QED
    BY <1>1, <1>3, <2>1, <2>2, Zenon
<1>7. CASE \/ ProbeId \/ ProbeSetup \/ ProbeRegister \/ Unregistered
           \/ ProbeBegin \/ Unregister \/ Suspend \/ Resume
  <2>1. PICK s : /\ EnterStage(s)
                 /\ \/ stage = "unbound" /\ s = "id"
                    \/ stage = "id" /\ s \in {"conf", "unbound"}
                    \/ stage = "setup" /\ s \in {"register", "sleep"}
                    \/ stage = "register" /\ s \in {"bound", "sleep"}
                    \/ stage = "bound" /\ s \in {"unregister", "suspend"}
                    \/ stage = "unregister" /\ s = "sleep"
                    \/ stage = "asleep" /\ s = "resume"
    BY <1>7, Zenon DEF ProbeId, ProbeSetup, ProbeRegister, Unregistered,
                       ProbeBegin, Unregister, Suspend, Resume
  <2>2. s \in Stages
    BY <1>4, <2>1
  <2> QED
    BY <1>1, <1>3, <2>1, <2>2, Zenon
<1> QED
  BY <1>6, <1>7, Zenon DEF CoreStep

(* Every other step moves one thread; if it is Core, not to the end of its *)
(* call.                                                                   *)
LEMMA OtherSteps ==
  ASSUME IInv, Next,
         ~(CoreStep \/ ProbeBegin \/ Unregister \/ Suspend \/ Resume),
         \A t \in Threads : ~Update(t)
  PROVE  /\ stage' = stage /\ (chip' = chip \/ ChipMeasures)
         /\ faults' = faults \/ Fault
         /\ \/ pc' = pc /\ ret' = ret
            \/ \E t \in Threads, p \in Pcs :
                 /\ t = Core => p # "unlock"
                 /\ pc' = [pc EXCEPT ![t] = p]
                 /\ \/ ret' = ret
                    \/ \E x \in {"ok", "notready"} : ret' = [ret EXCEPT ![t] = x]
                    \/ Fault /\ ret' = [ret EXCEPT ![t] = "error"]
<1>0. /\ Core \in Threads /\ Handler \in Threads /\ Core # Handler
      /\ Core \notin Users /\ Users \subseteq Threads
      /\ pc[Core] \notin {"poll", "bulk"}
  BY ThreadFacts DEF ThreadInv
<1>1. chip' = chip \/ ChipMeasures
  BY Zenon
     DEF Next, Inside, CoreStep, GetLock, Poll, PollFails, BulkRead, Unlock,
         ReadRaw, WriteRaw, ShowSetting, SwitchBuffer, Trigger, Push,
         NotifyDone, device
<1> DEFINE Moves == \E t \in Threads, p \in Pcs :
                      /\ t = Core => p # "unlock"
                      /\ pc' = [pc EXCEPT ![t] = p]
                      /\ \/ ret' = ret
                         \/ \E x \in {"ok", "notready"} :
                              ret' = [ret EXCEPT ![t] = x]
                         \/ Fault /\ ret' = [ret EXCEPT ![t] = "error"]
<1>2. {"idle", "lock", "update", "poll", "bulk", "unlock", "push", "done"} = Pcs
  BY DEF Pcs
<1>3. ASSUME NEW t \in Threads, Poll(t)
      PROVE  stage' = stage /\ faults' = faults /\ (Moves \/ (pc' = pc /\ ret' = ret))
  <2>1. /\ t # Core /\ stage' = stage /\ faults' = faults
    BY <1>0, <1>3 DEF Poll
  <2>2. \A n : WaitResult(n) \in {"ok", "notready"}
    BY DEF WaitResult
  <2>3. \/ pc' = pc /\ ret' = ret
        \/ \E x \in {"ok", "notready"}, p \in {"bulk", "unlock"} :
             Result(t, x, p)
    BY <1>3, <2>2 DEF Poll
  <2>4. ASSUME NEW x \in {"ok", "notready"}, NEW p \in {"bulk", "unlock"},
               Result(t, x, p)
        PROVE  Moves
    <3>1. /\ pc' = [pc EXCEPT ![t] = p] /\ ret' = [ret EXCEPT ![t] = x]
          /\ p \in Pcs
      BY <1>2, <2>4, Zenon DEF Result, Goto
    <3> QED
      BY <2>1, <3>1, Zenon
  <2>5. CASE pc' = pc /\ ret' = ret
    BY <2>1, <2>5
  <2>6. CASE \E x \in {"ok", "notready"}, p \in {"bulk", "unlock"} :
               Result(t, x, p)
    <3>1. Moves
      <4> HIDE DEF Moves
      <4> QED
        BY <2>4, <2>6
    <3> QED
      BY <2>1, <3>1
  <2> QED
    BY <2>3, <2>5, <2>6
<1>4. ASSUME NEW t \in Threads,
             GetLock(t) \/ PollFails(t) \/ BulkRead(t) \/ Unlock(t)
      PROVE  stage' = stage /\ (faults' = faults \/ Fault) /\ Moves
  <2>1. CASE GetLock(t)
    BY <1>2, <2>1, Zenon DEF GetLock, Goto, device
  <2>2. CASE PollFails(t)
    BY <1>0, <1>2, <2>2, Zenon DEF PollFails, Result, Goto
  <2>3. CASE BulkRead(t)
    BY <1>0, <1>2, <2>3, Zenon DEF BulkRead, Result, Goto
  <2>4. CASE Unlock(t)
    <3>1. \E p \in {"idle", "push", "done"} : Result(t, "ok", p)
      BY <2>4 DEF Unlock
    <3> QED
      BY <1>2, <2>4, <3>1, Zenon DEF Unlock, Result, Goto, device
  <2> QED
    BY <1>4, <2>1, <2>2, <2>3, <2>4
<1>5. ASSUME NEW u \in Users, ReadRaw(u) \/ WriteRaw(u)
      PROVE  stage' = stage /\ faults' = faults /\ Moves
  BY <1>0, <1>2, <1>5, Zenon DEF ReadRaw, WriteRaw, Begin, Goto, device
<1>6. ASSUME Trigger \/ Push \/ NotifyDone
      PROVE  stage' = stage /\ faults' = faults /\ Moves
  BY <1>0, <1>2, <1>6, Zenon
     DEF Trigger, Push, NotifyDone, Begin, Goto, device
<1>7. ASSUME ChipMeasures \/ SwitchBuffer \/ (\E u \in Users : ShowSetting(u))
      PROVE  stage' = stage /\ (faults' = faults \/ Fault) /\ pc' = pc /\ ret' = ret
  BY <1>7, Zenon DEF ChipMeasures, SwitchBuffer, ShowSetting, thread, device
<1> QED
  BY <1>1, <1>3, <1>4, <1>5, <1>6, <1>7, Zenon DEF Next, Inside

(* As long as no transfer has failed, the mode follows Core's stages.      *)
LEMMA ModeStep ==
  ASSUME IInv, Next PROVE ModeInv'
<1> SUFFICES ASSUME faults' = 0
             PROVE  /\ \A t \in Threads : ret'[t] # "error"
                    /\ stage' \in {"unbound", "id", "conf", "rate", "gain"} =>
                         chip'["MODE"] # Continuous
                    /\ stage' \in {"setup", "register", "bound", "unregister"} =>
                         chip'["MODE"] = Continuous
                    /\ pc'[Core] = "unlock" =>
                         /\ stage' \in {"mode", "resume"} =>
                              chip'["MODE"] = Continuous
                         /\ stage' \in {"sleep", "suspend"} =>
                              chip'["MODE"] = Sleep
  BY DEF ModeInv
<1>0. /\ PlaceTypes /\ LockInv /\ CallInv /\ PlaceInv
      /\ Core \in Threads /\ Handler \in Threads /\ Core # Handler
      /\ Core \notin Users /\ Users \subseteq Threads
      /\ pc[Core] \notin {"poll", "bulk"}
  BY ThreadFacts DEF ThreadInv
<1>1. ASSUME faults = 0
      PROVE  /\ \A t \in Threads : ret[t] # "error"
             /\ stage \in {"unbound", "id", "conf", "rate", "gain"} =>
                  chip["MODE"] # Continuous
             /\ stage \in {"setup", "register", "bound", "unregister"} =>
                  chip["MODE"] = Continuous
             /\ pc[Core] = "unlock" =>
                  /\ stage \in {"mode", "resume"} => chip["MODE"] = Continuous
                  /\ stage \in {"sleep", "suspend"} => chip["MODE"] = Sleep
  BY <1>1 DEF IInv, ModeInv
<1>2. CASE CoreStep \/ ProbeBegin \/ Unregister \/ Suspend \/ Resume
  <2>1. faults = 0 /\ chip' = chip
    BY <1>2, CoreEnters
  <2>2. PICK s \in Stages :
          /\ EnterStage(s)
          /\ \/ pc[Core] = "unlock" /\ s = AfterSetting(stage, ret[Core] = "ok")
             \/ stage = "unbound" /\ s = "id"
             \/ stage = "id" /\ s \in {"conf", "unbound"}
             \/ stage = "setup" /\ s \in {"register", "sleep"}
             \/ stage = "register" /\ s \in {"bound", "sleep"}
             \/ stage = "bound" /\ s \in {"unregister", "suspend"}
             \/ stage = "unregister" /\ s = "sleep"
             \/ stage = "asleep" /\ s = "resume"
    BY <1>2, CoreEnters
  <2>3. /\ stage' = s /\ ret' = [ret EXCEPT ![Core] = "ok"]
        /\ \E p \in {"lock", "idle"} : pc' = [pc EXCEPT ![Core] = p]
    BY <2>2, EnterFacts
  <2>4. pc'[Core] # "unlock" /\ \A t \in Threads : ret'[t] # "error"
    BY <1>0, <1>1, <2>1, <2>3 DEF PlaceTypes
  <2>5. CASE pc[Core] = "unlock" /\ s = AfterSetting(stage, ret[Core] = "ok")
    <3>1. ret[Core] = "ok"
      BY <1>0, <1>1, <2>1 DEF PlaceTypes, PlaceInv
    <3>2. stage \in {"conf", "rate", "gain", "mode", "sleep", "suspend", "resume"}
      BY <1>0, <2>5 DEF CallInv, CoreSetting
    <3>3. \/ stage \in {"conf", "rate"} /\ s \in {"rate", "gain"}
          \/ stage = "gain" /\ s = "mode"
          \/ stage = "mode" /\ s = "setup"
          \/ stage = "sleep" /\ s = "unbound"
          \/ stage = "suspend" /\ s = "asleep"
          \/ stage = "resume" /\ s = "bound"
      <4>1. s = CASE stage = "conf" -> "rate"
                  [] stage = "rate" -> "gain"
                  [] stage = "gain" -> "mode"
                  [] stage = "mode" -> "setup"
                  [] stage = "suspend" -> "asleep"
                  [] stage = "resume" -> "bound"
                  [] OTHER -> "unbound"
        BY <2>5, <3>1 DEF AfterSetting
      <4> QED
        BY <3>2, <4>1
    <3> QED
      BY <1>1, <2>1, <2>3, <2>4, <2>5, <3>3 DEF Continuous, Sleep
  <2> QED
    BY <1>1, <2>1, <2>2, <2>3, <2>4, <2>5 DEF Continuous, Sleep
<1>3. ASSUME NEW t \in Threads, Update(t)
      PROVE  /\ \A x \in Threads : ret'[x] # "error"
             /\ stage' \in {"unbound", "id", "conf", "rate", "gain"} =>
                  chip'["MODE"] # Continuous
             /\ stage' \in {"setup", "register", "bound", "unregister"} =>
                  chip'["MODE"] = Continuous
             /\ pc'[Core] = "unlock" =>
                  /\ stage' \in {"mode", "resume"} => chip'["MODE"] = Continuous
                  /\ stage' \in {"sleep", "suspend"} => chip'["MODE"] = Sleep
  <2> DEFINE f == call[t][1]
             v == call[t][2]
  <2>1. /\ pc[t] = "update" /\ stage' = stage /\ t # Handler
        /\ f \in Fields /\ v \in 0 .. Size[f] - 1
        /\ t # Core => f # "mode"
    <3>1. pc[t] = "update" /\ stage' = stage
      BY <1>3, Zenon DEF Update
    <3> QED
      BY <1>0, <3>1, CallFacts DEF IInv, CallInv
  <2>2. faults = 0 /\ UpdateBits(f, v)
    BY <1>3, <2>1, UpdateFacts DEF IInv, TypeOK, Update
  <2>3. ~UpdateBitsReadFails(f) /\ ~UpdateBitsWriteFails(f, v)
    <3>1. ~Fault
      BY <2>2 DEF Fault
    <3> QED
      BY <3>1, Zenon DEF UpdateBitsReadFails, UpdateBitsWriteFails
  <2>4. /\ pc' = [pc EXCEPT ![t] = "unlock"]
        /\ ret' = [ret EXCEPT ![t] = "ok"]
    BY <1>3, <2>3 DEF Update, Result, Goto
  <2>5. /\ chip'[RegOf[f]] = Put(chip, f, v)
        /\ \A q \in {"A", "B", "MODE"} \ {RegOf[f]} : chip'[q] = chip[q]
    BY <2>1, <2>2, UpdateFacts DEF IInv, TypeOK
  <2>6. f # "mode" => chip'["MODE"] = chip["MODE"]
    BY <2>1, <2>5, FieldFacts
  <2>7. f = "mode" => chip'["MODE"] = v
    BY <2>1, <2>5, FieldFacts, PutFacts DEF IInv, TypeOK, ChipTypes
  <2>8. \A x \in Threads : ret'[x] # "error"
    BY <1>0, <1>1, <2>2, <2>4 DEF PlaceTypes
  <2>9. CASE t = Core
    <3>1. stage \in DOMAIN CoreSetting /\ call[Core] = CoreSetting[stage]
      BY <1>0, <2>1, <2>9 DEF CallInv
    <3>2. \/ stage \in {"conf", "rate", "gain"} /\ f # "mode"
          \/ stage \in {"mode", "resume"} /\ f = "mode" /\ v = Continuous
          \/ stage \in {"sleep", "suspend"} /\ f = "mode" /\ v = Sleep
      BY <2>9, <3>1 DEF CoreSetting
    <3> QED
      BY <1>1, <2>1, <2>2, <2>6, <2>7, <2>8, <3>2
  <2>10. CASE t # Core
    <3>1. pc'[Core] = pc[Core]
      BY <1>0, <2>4, <2>10 DEF PlaceTypes
    <3> QED
      BY <1>1, <2>1, <2>2, <2>6, <2>8, <2>10, <3>1
  <2> QED
    BY <2>9, <2>10
<1>4. ASSUME ~(CoreStep \/ ProbeBegin \/ Unregister \/ Suspend \/ Resume),
             \A t \in Threads : ~Update(t)
      PROVE  chip'["MODE"] = chip["MODE"]
  BY <1>0, <1>4, ModeKept
<1>5. CASE /\ ~(CoreStep \/ ProbeBegin \/ Unregister \/ Suspend \/ Resume)
           /\ \A t \in Threads : ~Update(t)
  <2>1. faults = 0 /\ ~Fault
    <3>1. ~Fault /\ (Fault \/ faults' = faults)
      BY <1>5, OtherSteps DEF Fault, IInv, TypeOK, ChipTypes
    <3> QED
      BY <3>1
  <2>2. /\ \A t \in Threads : ret'[t] # "error"
        /\ pc'[Core] = "unlock" => pc[Core] = "unlock"
    BY <1>0, <1>1, <1>5, <2>1, OtherSteps DEF PlaceTypes
  <2> QED
    BY <1>1, <1>4, <1>5, <2>1, <2>2, OtherSteps
<1> QED
  BY <1>2, <1>3, <1>5

(* The flags: the handler runs between a trigger and its notification.     *)
LEMMA HandlerStep ==
  ASSUME IInv, Next
  PROVE  buffered' \in BOOLEAN /\ trigBusy' \in BOOLEAN /\ HandlerInv'
<1>0. /\ buffered \in BOOLEAN /\ trigBusy \in BOOLEAN /\ HandlerInv
  BY Zenon DEF IInv, TypeOK, StateTypes
<1>1. /\ PlaceTypes /\ Handler \in Threads /\ Core \in Threads
      /\ Handler # Core /\ Handler \notin Users /\ Users \subseteq Threads
  BY ThreadFacts DEF ThreadInv
<1> DEFINE Same == pc'[Handler] = pc[Handler] \/ (pc'[Handler] # "idle" /\ pc[Handler] # "idle")
<1>2. ASSUME trigBusy' = trigBusy, Same, buffered' = buffered
      PROVE  buffered' \in BOOLEAN /\ trigBusy' \in BOOLEAN /\ HandlerInv'
  BY <1>0, <1>2, Zenon DEF HandlerInv
<1>3. ASSUME NEW t \in Threads, GetLock(t) \/ Inside(t)
      PROVE  trigBusy' = trigBusy /\ Same /\ buffered' = buffered
  <2>1. trigBusy' = trigBusy /\ buffered' = buffered
    BY <1>3, Zenon DEF GetLock, Inside, Update, Poll, PollFails, BulkRead, Unlock
  <2>2. pc[t] # "idle"
    BY <1>3, Zenon DEF GetLock, Inside, Update, Poll, PollFails, BulkRead, Unlock
  <2>3. \/ pc' = pc
        \/ \E p \in {"poll", "update", "unlock", "bulk", "push", "done"} :
             pc' = [pc EXCEPT ![t] = p]
        \/ t # Handler /\ pc' = [pc EXCEPT ![t] = "idle"]
    <3>1. CASE GetLock(t)
      BY <3>1, Zenon DEF GetLock, Goto
    <3>2. CASE Update(t)
      BY <3>2, Zenon DEF Update, Result, Goto
    <3>3. CASE Poll(t)
      <4>1. \A n : WaitResult(n) \in {"ok", "notready"}
        BY DEF WaitResult
      <4>2. \/ pc' = pc
            \/ \E x \in {"ok", "notready"}, p \in {"bulk", "unlock"} :
                 Result(t, x, p)
        BY <3>3, <4>1 DEF Poll
      <4> QED
        BY <4>2, Zenon DEF Result, Goto
    <3>4. CASE PollFails(t) \/ BulkRead(t)
      BY <3>4, Zenon DEF PollFails, BulkRead, Result, Goto
    <3>5. CASE Unlock(t)
      <4>1. \/ \E p \in {"push", "done"} : Result(t, "ok", p)
            \/ t # Handler /\ Result(t, "ok", "idle")
        BY <3>5 DEF Unlock
      <4> QED
        BY <4>1, Zenon DEF Result, Goto
    <3> QED
      BY <1>3, <3>1, <3>2, <3>3, <3>4, <3>5 DEF Inside
  <2>4. Same
    BY <1>1, <2>2, <2>3 DEF PlaceTypes
  <2> QED
    BY <2>1, <2>4
<1>4. ASSUME NEW u \in Users, ReadRaw(u) \/ WriteRaw(u) \/ ShowSetting(u)
      PROVE  trigBusy' = trigBusy /\ Same /\ buffered' = buffered
  <2>1. trigBusy' = trigBusy /\ buffered' = buffered
    BY <1>4, Zenon DEF ReadRaw, WriteRaw, ShowSetting
  <2>2. pc' = pc \/ pc' = [pc EXCEPT ![u] = "lock"]
    BY <1>4, Zenon DEF ReadRaw, WriteRaw, ShowSetting, Begin, Goto, thread
  <2>3. Same
    BY <1>1, <2>2 DEF PlaceTypes
  <2> QED
    BY <2>1, <2>3
<1>5. ASSUME CoreStep \/ ProbeBegin \/ Unregister \/ Suspend \/ Resume
      PROVE  trigBusy' = trigBusy /\ Same /\ (buffered' = buffered \/ buffered' = FALSE)
  <2>1. trigBusy' = trigBusy /\ (buffered' = buffered \/ buffered' = FALSE)
    BY <1>5, Zenon
       DEF CoreStep, CoreUnlock, ProbeId, ProbeSetup, ProbeRegister,
           Unregistered, ProbeBegin, Unregister, Suspend, Resume
  <2>2. PICK s \in Stages : EnterStage(s)
    BY <1>5, CoreEnters
  <2>3. \E p \in {"lock", "idle"} : pc' = [pc EXCEPT ![Core] = p]
    BY <2>2, EnterFacts
  <2>4. Same
    BY <1>1, <2>3 DEF PlaceTypes
  <2> QED
    BY <2>1, <2>4
<1>6. CASE ChipMeasures
  BY <1>2, <1>6, Zenon DEF ChipMeasures, thread
<1>7. CASE SwitchBuffer
  BY <1>0, <1>7, Zenon DEF SwitchBuffer, thread, HandlerInv
<1>8. CASE Trigger
  <2>1. pc'[Handler] # "idle"
    <3>1. pc' = [pc EXCEPT ![Handler] = "lock"]
      BY <1>8, Zenon DEF Trigger, Begin, Goto
    <3> QED
      BY <1>1, <3>1 DEF PlaceTypes
  <2> QED
    BY <1>0, <1>8, <2>1, Zenon DEF Trigger, HandlerInv
<1>9. CASE Push
  <2>1. pc' = [pc EXCEPT ![Handler] = "done"] /\ pc[Handler] = "push"
    BY <1>9, Zenon DEF Push, Goto
  <2>2. Same
    BY <1>1, <2>1 DEF PlaceTypes
  <2> QED
    BY <1>2, <1>9, <2>2, Zenon DEF Push
<1>10. CASE NotifyDone
  <2>1. pc'[Handler] = "idle"
    <3>1. pc' = [pc EXCEPT ![Handler] = "idle"]
      BY <1>10, Zenon DEF NotifyDone, Goto
    <3> QED
      BY <1>1, <3>1 DEF PlaceTypes
  <2> QED
    BY <1>0, <1>10, <2>1, Zenon DEF NotifyDone, HandlerInv
<1>11. CASE CoreStep \/ ProbeBegin \/ Unregister \/ Suspend \/ Resume
  <2>1. trigBusy' = trigBusy /\ Same
    BY <1>5, <1>11
  <2>2. buffered' \in BOOLEAN
    BY <1>0, <1>5, <1>11
  <2> QED
    BY <1>0, <2>1, <2>2, Zenon DEF HandlerInv
<1> QED
  BY <1>2, <1>3, <1>4, <1>6, <1>7, <1>8, <1>9, <1>10, <1>11, Zenon DEF Next

-----------------------------------------------------------------------------
(* The invariant of the specification.                                     *)

(* What the threads are doing implies the types of their variables.        *)
LEMMA ThreadInvTypes ==
  ASSUME ThreadInv PROVE ThreadTypes
<1>1. PlaceTypes /\ CallInv
  BY DEF ThreadInv
<1>2. ASSUME NEW t \in Threads
      PROVE  \/ call[t] \in {<<"raw", 0>>} \cup Range(CoreSetting)
             \/ /\ call[t][1] \in DOMAIN ChipInfo[Chip]
                /\ call[t][2] + 1 \in DOMAIN Table(call[t][1])
  <2>1. CASE t = Handler
    BY <1>1, <2>1 DEF CallInv
  <2>2. CASE t = Core
    BY <1>1, <2>2 DEF CallInv, Range
  <2>3. CASE t \in Users /\ call[t] # <<"raw", 0>>
    <3>1. PICK i \in DOMAIN Table(call[t][1]) :
            call[t][2] = i - 1 /\ call[t][1] \in {"conf", "rate", "gain"}
      BY <1>1, <2>3 DEF CallInv
    <3>2. i \in Int
      BY <3>1, TableFacts
    <3>3. call[t][2] + 1 = i
      BY <3>1, <3>2
    <3>4. DOMAIN ChipInfo[Chip] = {"conf", "rate", "gain"}
      BY HmcAssumption DEF ChipInfo
    <3> QED
      BY <3>1, <3>3, <3>4
  <2> QED
    BY <2>1, <2>2, <2>3 DEF Threads
<1> QED
  BY <1>1, <1>2 DEF PlaceTypes, ThreadTypes

(* Before the first probe nobody is inside and the chip does not measure.  *)
LEMMA InitInv == Init => IInv
<1> SUFFICES ASSUME Init PROVE IInv
  OBVIOUS
<1>0. /\ Core \in Threads /\ Handler \in Threads /\ "none" \notin Threads
      /\ Core # Handler /\ MaxTries \in Nat \ {0} /\ MaxFaults \in Nat
      /\ PowerOnA \subseteq 0 .. 255 /\ Users \subseteq Threads
  BY HmcAssumption DEF Threads, Core, Handler
<1>1. PICK a \in PowerOnA, m \in {Idle, Sleep} :
        chip = [A |-> a, B |-> 32, MODE |-> m, STATUS |-> 0]
  BY DEF Init
<1>2. /\ chip \in [Registers -> 0 .. 255]
      /\ chip["MODE"] \in {2, 3} /\ chip["STATUS"] = 0
  BY <1>0, <1>1 DEF Registers, Idle, Sleep
<1>3. cache = NoCache /\ faults = 0 /\ stage = "unbound" /\ lock = "none"
  BY Zenon DEF Init
<1>4. /\ pc = [t \in Threads |-> "idle"]
      /\ call = [t \in Threads |-> <<"raw", 0>>]
      /\ tries = [t \in Threads |-> 0]
      /\ ret = [t \in Threads |-> "ok"]
  BY Zenon DEF Init
<1>5. DeviceInv
  BY <1>0, <1>2, <1>3
     DEF DeviceInv, ChipTypes, CacheCoherent, ReadyInv, NoCache, Registers,
         NotCached
<1>6. ThreadInv
  <2>1. PlaceTypes
    BY <1>0, <1>3, <1>4 DEF PlaceTypes, Pcs, Stages
  <2>2. LockInv
    BY <1>0, <1>3, <1>4 DEF LockInv
  <2>3. CallInv
    BY <1>0, <1>3, <1>4 DEF CallInv, CoreSetting
  <2>4. PlaceInv
    BY <1>0, <1>3, <1>4 DEF PlaceInv
  <2> QED
    BY <2>1, <2>2, <2>3, <2>4 DEF ThreadInv
<1>7. ReadsAwake
  BY <1>4 DEF ReadsAwake
<1>8. ModeInv
  BY <1>0, <1>2, <1>3, <1>4 DEF ModeInv, Continuous
<1>9. HandlerInv /\ buffered \in BOOLEAN /\ trigBusy \in BOOLEAN
  <2>1. pc[Handler] = "idle"
    BY <1>0, <1>4
  <2> QED
    BY <2>1, Zenon DEF Init, HandlerInv
<1>10. StateTypes
  BY <1>6, <1>9, Zenon DEF StateTypes, ThreadInv, PlaceTypes
<1> QED
  BY <1>5, <1>6, <1>7, <1>8, <1>9, <1>10, ThreadInvTypes, Zenon
     DEF IInv, TypeOK, DeviceInv, ThreadInv

(* Every step keeps the invariant.                                         *)
LEMMA StepInv == IInv /\ [Next]_vars => IInv'
<1> SUFFICES ASSUME IInv, [Next]_vars PROVE IInv'
  OBVIOUS
<1>1. CASE Next
  <2>1. DeviceInv'
    BY <1>1, DeviceStep
  <2>2. ThreadInv'
    BY <1>1, ThreadStep
  <2>3. ReadsAwake' /\ ModeInv'
    BY <1>1, ReadsAwakeStep, ModeStep
  <2>4. buffered' \in BOOLEAN /\ trigBusy' \in BOOLEAN /\ HandlerInv'
    BY <1>1, HandlerStep
  <2>5. StateTypes'
    BY <2>2, <2>4, Zenon DEF StateTypes, ThreadInv, PlaceTypes
  <2>6. ThreadTypes'
    BY <2>2, ThreadInvTypes, PTL
  <2> QED
    BY <2>1, <2>2, <2>3, <2>4, <2>5, <2>6, Zenon
       DEF IInv, TypeOK, DeviceInv, ThreadInv
<1>2. CASE UNCHANGED vars
  <2> USE <1>2 DEF vars, device, thread
  <2>1. ChipTypes' /\ CacheCoherent' /\ ReadyInv' /\ ReadsAwake'
    BY Zenon DEF IInv, TypeOK, ChipTypes, CacheCoherent, ReadyInv, ReadsAwake
  <2>2. ThreadTypes' /\ StateTypes'
    BY Zenon DEF IInv, TypeOK, ThreadTypes, StateTypes
  <2>3. LockInv' /\ CallInv' /\ HandlerInv' /\ PlaceInv' /\ ModeInv'
    BY Zenon DEF IInv, LockInv, CallInv, HandlerInv, PlaceInv, ModeInv
  <2> QED
    BY <2>1, <2>2, <2>3, Zenon DEF IInv, TypeOK
<1> QED
  BY <1>1, <1>2

(* The invariant holds in every behaviour.                                 *)
LEMMA Invariant == Spec => []IInv
BY InitInv, StepInv, PTL DEF Spec

-----------------------------------------------------------------------------
(* The theorems.                                                           *)

(* Every variable keeps its type; the registers stay bytes whatever fields *)
(* are written into them (hmc5843_set_*(), regmap_update_bits()).          *)
THEOREM TypeCorrect == Spec => []TypeOK
<1>1. IInv => TypeOK
  BY DEF IInv
<1> QED
  BY <1>1, Invariant, PTL

(* The cache of regmap never disagrees with the chip, whichever transfers  *)
(* fail and whoever reads settings while others write them.                *)
THEOREM CacheAgreesWithChip == Spec => []CacheCoherent
<1>1. IInv => CacheCoherent
  BY DEF IInv
<1> QED
  BY <1>1, Invariant, PTL

(* Data are read from a chip that measures: data->lock keeps the mode      *)
(* between the look at the ready bit and the bulk read.                    *)
THEOREM DataReadWhileMeasuring == Spec => []ReadsAwake
<1>1. IInv => ReadsAwake
  BY DEF IInv
<1> QED
  BY <1>1, Invariant, PTL

(* A user polls only a chip that is switched on, unless a transfer failed: *)
(* remove and suspend wait for the users before they put it to sleep.      *)
THEOREM UsersPollARunningChip == Spec => []UserWaitsAwake
<1>1. IInv => UserWaitsAwake
  <2>1. SUFFICES ASSUME IInv, NEW u \in Users, pc[u] = "poll", faults = 0
                 PROVE  Get(chip, "mode") = Continuous
    BY DEF UserWaitsAwake
  <2>2. stage \in {"bound", "unregister"}
    BY <2>1 DEF IInv, PlaceInv
  <2>3. chip["MODE"] = Continuous
    BY <2>1, <2>2 DEF IInv, ModeInv
  <2> QED
    BY <2>1, <2>3, ModeIsRegister DEF IInv, TypeOK
<1> QED
  BY <1>1, Invariant, PTL

(* A chip that no driver is bound to does not measure, unless a transfer   *)
(* failed: after remove and after every failure of probe.                  *)
THEOREM SleepsWhenUnbound == Spec => []UnusedChipSleeps
<1>1. IInv => UnusedChipSleeps
  <2>1. SUFFICES ASSUME IInv, stage = "unbound", faults = 0
                 PROVE  Get(chip, "mode") # Continuous
    BY DEF UnusedChipSleeps
  <2>2. chip["MODE"] # Continuous
    BY <2>1 DEF IInv, ModeInv
  <2> QED
    BY <2>1, <2>2, ModeIsRegister DEF IInv, TypeOK
<1> QED
  BY <1>1, Invariant, PTL

(* Who gives up in hmc5843_wait_measurement() has looked for the last time *)
(* and has found the data not ready.                                       *)
THEOREM NotReadyIsTrue == Spec => GivesUpHonestly
<1>1. ASSUME IInv, Next, NEW t \in Threads,
             ret[t] # "notready", ret'[t] = "notready"
      PROVE  tries[t] = 1 /\ chip["STATUS"] = 0
  <2>0. /\ PlaceTypes /\ PlaceInv /\ Core \in Threads /\ Handler \in Threads
        /\ Users \subseteq Threads
    BY <1>1, ThreadFacts DEF ThreadInv
  <2>1. ~(ret' = ret) /\ ~(\E x \in Threads, y \in {"ok", "error"} :
                             ret' = [ret EXCEPT ![x] = y])
    BY <1>1, <2>0 DEF PlaceTypes
  <2>2. \A s : ~EnterStage(s)
    BY <2>0, <2>1, Zenon DEF EnterStage, Begin, Result
  <2>3. PICK x \in Threads : Poll(x)
    <3>1. \A x \in Threads : /\ ~GetLock(x) /\ ~Update(x) /\ ~PollFails(x)
                             /\ ~BulkRead(x) /\ ~Unlock(x)
      BY <2>1, Zenon DEF GetLock, Update, PollFails, BulkRead, Unlock, Result
    <3>2. \A u \in Users : ~ReadRaw(u) /\ ~WriteRaw(u) /\ ~ShowSetting(u)
      BY <2>0, <2>1, Zenon DEF ReadRaw, WriteRaw, ShowSetting, Begin, thread
    <3>3. ~ChipMeasures /\ ~SwitchBuffer /\ ~Trigger /\ ~Push /\ ~NotifyDone
      BY <2>0, <2>1, Zenon
         DEF ChipMeasures, SwitchBuffer, Trigger, Push, NotifyDone, Begin, thread
    <3>4. /\ ~CoreStep /\ ~ProbeBegin /\ ~Unregister /\ ~Suspend /\ ~Resume
      BY <2>2, Zenon
         DEF CoreStep, CoreUnlock, ProbeId, ProbeSetup, ProbeRegister,
             Unregistered, ProbeBegin, Unregister, Suspend, Resume
    <3> QED
      BY <1>1, <3>1, <3>2, <3>3, <3>4, Zenon DEF Next, Inside
  <2>4. pc[x] = "poll" /\ tries[x] \in 1 .. MaxTries
    BY <2>0, <2>3 DEF Poll, PlaceInv
  <2>5. Regmap = chip
    BY <1>1, RegmapIsChip DEF IInv, TypeOK
  <2>6. \A y, p : Result(x, y, p) => y = "notready" /\ x = t
    BY <1>1, <2>0, <2>1 DEF Result, PlaceTypes
  <2>7. chip["STATUS"] # 1
    <3>1. WaitResult(tries[x] - 1) = "ok"
      BY <2>4, HmcAssumption DEF WaitResult
    <3>2. Regmap["STATUS"] = 1 => \E p : Result(x, "ok", p)
      BY <2>3, <3>1 DEF Poll
    <3> QED
      BY <2>5, <2>6, <3>2
  <2>8. ~(tries[x] > 1) /\ x = t
    <3>1. Regmap["STATUS"] # 1
      BY <2>5, <2>7
    <3>2. \/ tries[x] > 1 /\ ret' = ret
          \/ ~(tries[x] > 1) /\ Result(x, WaitResult(-1), "unlock")
      BY <2>3, <3>1 DEF Poll
    <3> QED
      BY <2>1, <2>6, <3>2
  <2> QED
    BY <1>1, <2>4, <2>7, <2>8, HmcAssumption DEF IInv, TypeOK, ChipTypes
<1>2. IInv /\ [Next]_vars =>
        [\A t \in Threads : ret[t] # "notready" /\ ret'[t] = "notready"
           => tries[t] = 1 /\ chip["STATUS"] = 0]_vars
  BY <1>1
<1> QED
  BY <1>2, Invariant, PTL DEF Spec, GivesUpHonestly

(* A setter leaves the other fields of the chip alone, and the chip has    *)
(* the value when it returns success (hmc5843_set_meas_conf(),             *)
(* _set_samp_freq(), _set_range_gain() and _set_mode()).                   *)
THEOREM SetterChangesOneField == Spec => SetsItsFieldOnly
<1>1. ASSUME IInv, Next, NEW t \in Threads, NEW f \in DOMAIN RegOf,
             pc[t] = "update", pc'[t] = "unlock"
      PROVE  IF f = call[t][1] THEN ret'[t] = "ok" => Get(chip', f) = call[t][2]
             ELSE Get(chip', f) = Get(chip, f)
  <2>0. /\ PlaceTypes /\ Core \in Threads /\ Handler \in Threads
        /\ Users \subseteq Threads
        /\ ChipTypes /\ CacheCoherent /\ ReadyInv /\ CallInv /\ TypeOK
    BY <1>1, ThreadFacts DEF ThreadInv, IInv, TypeOK
  <2>1. /\ ~(pc' = pc)
        /\ ~(\E x \in Threads, p \in {"idle", "lock", "poll", "update", "push",
                                     "done"} : pc' = [pc EXCEPT ![x] = p])
        /\ \A x \in Threads : \A p : pc' = [pc EXCEPT ![x] = p] => x = t
    BY <1>1, <2>0 DEF PlaceTypes
  <2>2. \A s : ~EnterStage(s)
    BY <2>0, <2>1, Zenon DEF EnterStage, Begin, Result, Goto
  <2>3. Update(t)
    <3>1. \A x \in Threads : ~GetLock(x)
      BY <2>1, Zenon DEF GetLock, Goto
    <3>2. \A x \in Threads : /\ ~PollFails(x) /\ ~BulkRead(x) /\ ~Unlock(x)
                             /\ (Update(x) => x = t)
      BY <1>1, <2>1 DEF PollFails, BulkRead, Unlock, Update, Result, Goto
    <3>3. \A x \in Threads : ~Poll(x)
      BY <1>1, <2>1 DEF Poll, Result, Goto
    <3>4. \A u \in Users : ~ReadRaw(u) /\ ~WriteRaw(u) /\ ~ShowSetting(u)
      BY <2>0, <2>1, Zenon
         DEF ReadRaw, WriteRaw, ShowSetting, Begin, Goto, thread
    <3>5. ~ChipMeasures /\ ~SwitchBuffer /\ ~Trigger /\ ~Push /\ ~NotifyDone
      BY <2>0, <2>1, Zenon
         DEF ChipMeasures, SwitchBuffer, Trigger, Push, NotifyDone, Begin, Goto,
             thread
    <3>6. /\ ~CoreStep /\ ~ProbeBegin /\ ~Unregister /\ ~Suspend /\ ~Resume
      BY <2>2, Zenon
         DEF CoreStep, CoreUnlock, ProbeId, ProbeSetup, ProbeRegister,
             Unregistered, ProbeBegin, Unregister, Suspend, Resume
    <3> QED
      BY <1>1, <3>1, <3>2, <3>3, <3>4, <3>5, <3>6, Zenon DEF Next, Inside
  <2> DEFINE g == call[t][1]
             v == call[t][2]
  <2>4. g \in Fields /\ v \in 0 .. Size[g] - 1
    BY <1>1, <2>0, CallFacts
  <2>5. \/ UpdateBits(g, v)
        \/ UpdateBitsReadFails(g)
        \/ UpdateBitsWriteFails(g, v)
    BY <2>3, Zenon DEF Update
  <2>6. /\ \A q \in {"A", "B", "MODE"} \ {RegOf[g]} : chip'[q] = chip[q]
        /\ chip'[RegOf[g]] \in {chip[RegOf[g]], Put(chip, g, v)}
        /\ UpdateBits(g, v) => chip'[RegOf[g]] = Put(chip, g, v)
    BY <2>0, <2>4, <2>5, UpdateFacts
  <2>7. ret'[t] = "ok" => UpdateBits(g, v)
    <3>1. UpdateBits(g, v) \/ Result(t, "error", "unlock")
      BY <2>3, Zenon DEF Update
    <3>2. Result(t, "error", "unlock") => ret'[t] = "error"
      BY <2>0 DEF Result, PlaceTypes
    <3> QED
      BY <3>1, <3>2
  <2>8. /\ (Put(chip, g, v) \div Low[g]) % Size[g] = v
        /\ g = "conf" =>
             (Put(chip, g, v) \div Low["rate"]) % Size["rate"] = Get(chip, "rate")
        /\ g = "rate" =>
             (Put(chip, g, v) \div Low["conf"]) % Size["conf"] = Get(chip, "conf")
    BY <2>0, <2>4, PutFacts DEF ChipTypes
  <2>9. f \in Fields
    BY <1>1 DEF RegOf, Fields
  <2>10. CASE f = g
    BY <2>6, <2>7, <2>8, <2>10 DEF Get
  <2>11. CASE f # g /\ RegOf[f] # RegOf[g]
    <3>1. chip'[RegOf[f]] = chip[RegOf[f]]
      BY <2>6, <2>9, <2>11, FieldFacts
    <3> QED
      BY <2>11, <3>1 DEF Get
  <2>12. CASE f # g /\ RegOf[f] = RegOf[g]
    <3>1. \/ g = "conf" /\ f = "rate"
          \/ g = "rate" /\ f = "conf"
      BY <2>4, <2>9, <2>12, FieldFacts
    <3> QED
      BY <2>6, <2>8, <2>12, <3>1 DEF Get
  <2> QED
    BY <2>10, <2>11, <2>12
<1>2. IInv /\ [Next]_vars =>
        [\A t \in Threads, f \in DOMAIN RegOf :
           pc[t] = "update" /\ pc'[t] = "unlock" =>
             IF f = call[t][1] THEN ret'[t] = "ok" => Get(chip', f) = call[t][2]
             ELSE Get(chip', f) = Get(chip, f)]_vars
  BY <1>1
<1> QED
  BY <1>2, Invariant, PTL DEF Spec, SetsItsFieldOnly

(* What Core and the users write keeps the rate within the table, and the  *)
(* reserved bits above it clear.                                           *)
LEMMA RateStep ==
  ASSUME IInv, RateInv, Next PROVE RateInv'
<1>0. /\ PlaceTypes /\ LockInv /\ CallInv /\ PlaceInv
      /\ Core \in Threads /\ Handler \in Threads /\ Core # Handler
      /\ Core \notin Users /\ Users \subseteq Threads
      /\ ChipTypes /\ CacheCoherent /\ ReadyInv /\ TypeOK
  BY ThreadFacts DEF ThreadInv, IInv, TypeOK
<1>1. ASSUME chip'["A"] = chip["A"], RateIsSet' => RateIsSet
      PROVE  RateInv'
  BY <1>1 DEF RateInv, Get, RegOf
<1>2. CASE CoreStep \/ ProbeBegin \/ Unregister \/ Suspend \/ Resume
  <2>1. chip' = chip
    BY <1>2, CoreEnters
  <2>2. PICK s \in Stages :
          /\ EnterStage(s)
          /\ \/ pc[Core] = "unlock" /\ s = AfterSetting(stage, ret[Core] = "ok")
             \/ stage = "unbound" /\ s = "id"
             \/ stage = "id" /\ s \in {"conf", "unbound"}
             \/ stage = "setup" /\ s \in {"register", "sleep"}
             \/ stage = "register" /\ s \in {"bound", "sleep"}
             \/ stage = "bound" /\ s \in {"unregister", "suspend"}
             \/ stage = "unregister" /\ s = "sleep"
             \/ stage = "asleep" /\ s = "resume"
    BY <1>2, CoreEnters
  <2>3. /\ stage' = s
        /\ \E p \in {"lock", "idle"} : pc' = [pc EXCEPT ![Core] = p]
    BY <2>2, EnterFacts
  <2>4. pc'[Core] # "unlock"
    BY <1>0, <2>3 DEF PlaceTypes
  <2>5. CASE pc[Core] = "unlock" /\ s = AfterSetting(stage, ret[Core] = "ok")
    <3>0. \A ok \in BOOLEAN : /\ AfterSetting("conf", ok) \in {"rate", "unbound"}
                             /\ AfterSetting("rate", FALSE) = "unbound"
      BY DEF AfterSetting
    <3>1. CASE stage = "conf"
      <4>1. s \in {"rate", "unbound"}
        BY <2>5, <3>0, <3>1
      <4> QED
        BY <1>1, <2>1, <2>3, <2>4, <4>1 DEF RateIsSet
    <3>2. CASE stage = "rate" /\ ret[Core] # "ok"
      <4>1. (ret[Core] = "ok") = FALSE
        BY <3>2
      <4>2. s = "unbound"
        BY <2>5, <3>0, <3>2, <4>1, Zenon
      <4> QED
        BY <1>1, <2>1, <2>3, <2>4, <4>2 DEF RateIsSet
    <3>3. CASE stage \notin {"conf", "rate"} \/ (stage # "conf" /\ ret[Core] = "ok")
      <4>1. stage \notin {"unbound", "id"}
        BY <1>0, <2>5 DEF CallInv, CoreSetting
      <4>2. RateIsSet
        BY <2>5, <3>3, <4>1 DEF RateIsSet
      <4> QED
        BY <1>1, <2>1, <4>2
    <3> QED
      BY <3>1, <3>2, <3>3
  <2> QED
    BY <1>1, <2>1, <2>2, <2>3, <2>4, <2>5 DEF RateIsSet
<1>3. ASSUME NEW t \in Threads, Update(t) PROVE RateInv'
  <2> DEFINE f == call[t][1]
             v == call[t][2]
  <2>1. /\ pc[t] = "update" /\ stage' = stage /\ t # Handler
        /\ f \in Fields /\ v \in 0 .. Size[f] - 1
        /\ f = "rate" => v + 1 \in DOMAIN Table("rate")
    <3>1. pc[t] = "update" /\ stage' = stage
      BY <1>3, Zenon DEF Update
    <3> QED
      BY <1>0, <3>1, CallFacts DEF CallInv
  <2>2. /\ \/ UpdateBits(f, v)
           \/ UpdateBitsReadFails(f)
           \/ UpdateBitsWriteFails(f, v)
        /\ UpdateBits(f, v) \/ Result(t, "error", "unlock")
        /\ \E x : Result(t, x, "unlock")
    BY <1>3, Zenon DEF Update
  <2>3. /\ \A q \in {"A", "B", "MODE"} \ {RegOf[f]} : chip'[q] = chip[q]
        /\ chip'[RegOf[f]] \in {chip[RegOf[f]], Put(chip, f, v)}
        /\ UpdateBits(f, v) => chip'[RegOf[f]] = Put(chip, f, v)
    BY <1>0, <2>1, <2>2, UpdateFacts
  <2>4. /\ (Put(chip, f, v) \div Low[f]) % Size[f] = v
        /\ f = "conf" =>
             (Put(chip, f, v) \div Low["rate"]) % Size["rate"] = Get(chip, "rate")
        /\ RegOf[f] = "A" => Put(chip, f, v) < 32
    BY <1>0, <2>1, PutFacts DEF ChipTypes, RateInv
  <2>5. stage # "rate" => (RateIsSet' => RateIsSet)
    BY <2>1 DEF RateIsSet
  <2>6. stage = "rate" => t = Core /\ f = "rate" /\ (RateIsSet' => UpdateBits(f, v))
    <3>1. stage = "rate" => t = Core
      BY <1>0, <2>1 DEF PlaceInv, Threads
    <3>2. stage = "rate" => f = "rate"
      BY <1>0, <3>1 DEF CallInv, CoreSetting
    <3>3. Result(Core, "error", "unlock") => ret'[Core] = "error"
      BY <1>0 DEF Result, PlaceTypes
    <3> QED
      BY <2>1, <2>2, <3>1, <3>2, <3>3 DEF RateIsSet
  <2>7. CASE f = "conf"
    BY <1>3, <2>3, <2>4, <2>5, <2>6, <2>7 DEF RateInv, Get, RegOf
  <2>8. CASE f = "rate"
    BY <2>1, <2>3, <2>4, <2>5, <2>6, <2>8 DEF RateInv, Get, RegOf
  <2>9. CASE f \notin {"conf", "rate"}
    <3>1. chip'["A"] = chip["A"]
      BY <2>1, <2>3, <2>9, FieldFacts
    <3> QED
      BY <1>1, <2>5, <2>6, <2>9, <3>1
  <2> QED
    BY <2>7, <2>8, <2>9
<1>4. CASE /\ ~(CoreStep \/ ProbeBegin \/ Unregister \/ Suspend \/ Resume)
           /\ \A t \in Threads : ~Update(t)
  <2>1. stage' = stage /\ chip'["A"] = chip["A"]
    BY <1>0, <1>4, OtherSteps DEF ChipMeasures, ChipTypes, Registers
  <2>2. pc'[Core] = "unlock" => pc[Core] = "unlock" /\ ret'[Core] = ret[Core]
    BY <1>0, <1>4, OtherSteps DEF PlaceTypes
  <2> QED
    BY <1>1, <2>1, <2>2 DEF RateIsSet
<1> QED
  BY <1>2, <1>3, <1>4

(* Whatever read_raw() takes from the registers as an index lies within    *)
(* the table of the variant - if the chip never comes up with the reserved *)
(* bits of CONFIG_REG_A set, as its data sheet has it: read_raw() does not *)
(* mask the rate.                                                          *)
THEOREM IndicesInTables ==
  ASSUME PowerOnA \subseteq 0 .. 31
  PROVE  Spec => []ShownIndexInTable
<1>1. Init => RateInv
  <2> SUFFICES ASSUME Init PROVE RateInv
    OBVIOUS
  <2>1. chip["A"] \in PowerOnA /\ stage = "unbound"
    BY DEF Init
  <2> QED
    <3>1. chip["A"] \in 0 .. 31
      BY <2>1, Zenon
    <3>2. ~RateIsSet
      BY <2>1 DEF RateIsSet
    <3> QED
      BY <3>1, <3>2 DEF RateInv
<1>2. IInv /\ RateInv /\ [Next]_vars => RateInv'
  <2>1. IInv /\ RateInv /\ Next => RateInv'
    BY RateStep
  <2>2. RateInv /\ UNCHANGED vars => RateInv'
    BY Zenon DEF RateInv, RateIsSet, vars, device, thread
  <2> QED
    BY <2>1, <2>2
<1>3. IInv /\ RateInv => ShownIndexInTable
  <2>1. SUFFICES ASSUME IInv, RateInv,
                        stage \in {"bound", "suspend", "asleep", "resume",
                                  "unregister"}
                 PROVE  /\ RateIndex + 1 \in DOMAIN Table("rate")
                        /\ ScaleIndex + 1 \in DOMAIN Table("gain")
    BY DEF ShownIndexInTable
  <2>2. Regmap = chip /\ chip["A"] \in 0 .. 31 /\ chip["B"] \in 0 .. 255
    <3>1. ChipTypes /\ CacheCoherent
      BY <2>1 DEF IInv, TypeOK
    <3> QED
      BY <2>1, <3>1, RegmapIsChip DEF ChipTypes, RateInv, Registers
  <2>3. Get(chip, "rate") + 1 \in DOMAIN Table("rate")
    BY <2>1 DEF RateInv, RateIsSet
  <2>4. RateIndex = Get(chip, "rate")
    BY <2>2 DEF RateIndex, Get, RegOf, Low, Size
  <2>5. ScaleIndex \in 0 .. 7
    BY <2>2 DEF ScaleIndex, Low
  <2> QED
    BY <2>3, <2>4, <2>5, TableFacts
<1> QED
  BY <1>1, <1>2, <1>3, Invariant, PTL DEF Spec
=============================================================================
