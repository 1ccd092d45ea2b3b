------------------------------ MODULE IioDummy ------------------------------
(***************************************************************************)
(* iio_dummy_read_raw() and iio_dummy_write_raw() of                       *)
(* iio/iio_simple_dummy.c, the callbacks behind the files of the IIO       *)
(* dummy, and the structure they work on.  Reads are under its mutex, and  *)
(* so are most writes; a scale is read in two loads.  How the device comes *)
(* and goes is in ModuleLoad.                                              *)
(***************************************************************************)
EXTENDS SysfsCalls

CONSTANTS
  DummyFiles,  \* the files in use
  DummyArgs    \* per file: what users write to it

VARIABLES
  st,   \* per file: the words behind it
  lock  \* st->lock: "free", or who holds it

dummyVars == <<st, lock>>

\* The table of legal calibration scales.
Scales == {<<0, 100>>, <<0, 133>>, <<733, 13>>}

\* The files that a channel declares.
Channels ==
  [voltage0           |-> {"single_ended", "offset", "single_ended_scale", "sampling_frequency"},
   voltage1_voltage2  |-> {"differential0", "differential_scale"},
   voltage3_voltage4  |-> {"differential1", "differential_scale", "sampling_frequency"},
   accel              |-> {"accel", "accel_calibscale", "accel_calibbias", "sampling_frequency"},
   voltage0_output    |-> {"dac"},
   steps              |-> {"steps", "steps_enabled", "height"},
   activity_running   |-> {"activity_running"},
   activity_walking   |-> {"activity_walking"}]

\* What init_device() and kzalloc() leave in the structure.
Fields ==
  [dac |-> <<0>>, single_ended |-> <<73>>, differential0 |-> <<33>>,
   differential1 |-> <<-34>>, accel |-> <<34>>, accel_calibbias |-> <<-7>>,
   accel_calibscale |-> <<0, 100>>, steps |-> <<47>>, steps_enabled |-> <<0>>,
   height |-> <<0>>, activity_running |-> <<98>>, activity_walking |-> <<4>>]

\* What is written in the code of read_raw() itself.
Literals ==
  [offset |-> <<7>>, single_ended_scale |-> <<0, 1333>>,
   differential_scale |-> <<0, 1344>>, sampling_frequency |-> <<3, 33>>]

\* What a file shows at first.
FirstWords(f) == IF f \in DOMAIN Fields THEN Fields[f] ELSE Literals[f]

Activities  == {"activity_running", "activity_walking"}
WriteLocked == {"dac", "steps", "steps_enabled", "accel_calibbias", "accel_calibscale"}
WriteAlone  == Activities \union {"height"}

\* The IIO core parses what users write: two words for a scale, else one.
ASSUME DummyAssumption ==
  /\ DummyFiles \subseteq UNION {Channels[c] : c \in DOMAIN Channels}
  /\ \A f \in DummyFiles : \A x \in DummyArgs[f] :
       x \in IF f = "accel_calibscale" THEN [1..2 -> Int] ELSE [1..1 -> Int]
  /\ "free" \notin Users

InitDummy ==
  /\ st = [f \in DummyFiles |-> FirstWords(f)]
  /\ lock = "free"

\* Wrong variant: as if a read, which stores nothing, needed no lock.
UnderLockWrites(op, f) == op = "write" /\ f \in WriteLocked

\* Which callbacks take st->lock.
UnderLock(op, f) == op = "read" \/ f \in WriteLocked

First(op) == IF op = "read" THEN "load" ELSE "store"
Enter(op, f) == IF UnderLock(op, f) THEN "lock" ELSE First(op)

DummyRead(u) ==
  /\ \E f \in DummyFiles : Call(u, f, "read", << >>, Enter("read", f))
  /\ UNCHANGED dummyVars

DummyWrite(u) ==
  /\ \E f \in DummyFiles : \E x \in DummyArgs[f] :
       Call(u, f, "write", x, Enter("write", f))
  /\ UNCHANGED dummyVars

DummyLock(u) ==
  /\ At(u, DummyFiles, "lock") /\ lock = "free"
  /\ lock' = u
  /\ Goto(u, First(req[u].op))
  /\ UNCHANGED st

\* Wrong variant: a refused scale returns without the unlock.
AfterSkips(u) ==
  IF UnderLock(req[u].op, req[u].file)
     /\ (req[u].file = "accel_calibscale" /\ req[u].op = "write" => req[u].arg \in Scales)
  THEN "unlock" ELSE "return"

\* Where a callback goes on after its work.
After(u) == IF UnderLock(req[u].op, req[u].file) THEN "unlock" ELSE "return"

\* The next word of what is read; *val and *val2 of a scale are two loads.
DummyLoad(u) ==
  LET word == st[req[u].file]
      read == Append(ret[u].words, word[Len(ret[u].words) + 1])
  IN  /\ At(u, DummyFiles, "load")
      /\ IF Len(read) < Len(word)
         THEN Answer(u, [err |-> "pending", words |-> read], "load")
         ELSE Answer(u, Value(read), After(u))
      /\ UNCHANGED dummyVars

\* Wrong variant: only the upper bound.
ClampedAbove(n) == IF n > 100 THEN 100 ELSE n

\* An activity is in percent.
Clamped(n) == IF n < 0 THEN 0 ELSE IF n > 100 THEN 100 ELSE n

Refused(f, x) ==
  \/ f \notin WriteLocked \union WriteAlone
  \/ f = "accel_calibscale" /\ x \notin Scales

DummyStore(u) ==
  LET f == req[u].file
      x == req[u].arg
  IN  /\ At(u, DummyFiles, "store")
      /\ IF Refused(f, x)
         THEN Answer(u, Error("EINVAL"), After(u)) /\ UNCHANGED st
         ELSE /\ Answer(u, Stored, After(u))
              /\ st' = [st EXCEPT ![f] = IF f \in Activities THEN <<Clamped(x[1])>> ELSE x]
      /\ UNCHANGED lock

\* mutex_unlock() and the return behind it.
DummyUnlock(u) ==
  /\ At(u, DummyFiles, "unlock")
  /\ lock' = "free"
  /\ Back(u)
  /\ UNCHANGED st

DummyStep(u) == DummyLock(u) \/ DummyLoad(u) \/ DummyStore(u) \/ DummyUnlock(u)
=============================================================================
