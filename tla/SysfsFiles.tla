----------------------------- MODULE SysfsFiles -----------------------------
(***************************************************************************)
(* User processes that read and write the files of three drivers at once:  *)
(* the IIO dummy, the VL53L0X and the kobject demo.  A call takes several  *)
(* steps in the driver, with steps of other calls in between; yet each     *)
(* should look as if it took effect at one moment (AtomicFiles).           *)
(***************************************************************************)
EXTENDS IioDummy, Kdemo, Vl53l0x

vars == <<callVars, dummyVars, ints, vlVars>>

Init == InitCalls /\ InitDummy /\ InitKdemo /\ InitVl

\* A callback that holds no lock returns.
Return(u) ==
  /\ pc[u] = "return"
  /\ Back(u)
  /\ UNCHANGED <<dummyVars, ints, vlVars>>

Enters(u) ==
  \/ (DummyRead(u) \/ DummyWrite(u)) /\ UNCHANGED <<ints, vlVars>>
  \/ (KdemoRead(u) \/ KdemoWrite(u)) /\ UNCHANGED <<dummyVars, vlVars>>
  \/ DistanceRead(u) /\ UNCHANGED <<dummyVars, ints>>

Inside(u) ==
  \/ DummyStep(u) /\ UNCHANGED <<ints, vlVars>>
  \/ KdemoStep(u) /\ UNCHANGED <<dummyVars, vlVars>>
  \/ DistanceStep(u) /\ UNCHANGED <<dummyVars, ints>>
  \/ Return(u)

Sensor == (Probe \/ Remove \/ Removed \/ ChipCompletes) /\ UNCHANGED <<callVars, dummyVars, ints>>

Next == (\E u \in Users : Enters(u) \/ Inside(u)) \/ Sensor

\* A process inside the kernel goes on.  A mutex that is free again and again
\* is got in the end: the kernel's mutexes hand themselves over to a waiter.
\* Whoever removes the sensor notices that its file is drained.
Fairness ==
  /\ \A u \in Users : /\ WF_vars(Inside(u))
                      /\ SF_vars(DummyLock(u) /\ UNCHANGED <<ints, vlVars>>)
  /\ WF_vars(Removed /\ UNCHANGED <<callVars, dummyVars, ints>>)

Spec == Init /\ [][Next]_vars /\ Fairness

(***************************************************************************)
(* Properties.                                                             *)
(***************************************************************************)

Files == DummyFiles \union KdemoFiles \union {"distance"}

\* Those that take any number.
Counters == (WriteLocked \ {"accel_calibscale"}) \union {"height"}

\* The values a file may have.
Legal ==
  [f \in Files |->
     CASE f = "accel_calibscale" -> Scales
       [] f \in Activities -> {<<n>> : n \in 0..100}
       [] f = "distance" -> {<<s>> : s \in Samples}
       [] f \in KdemoFiles \union Counters -> [1..1 -> Int]
       [] OTHER -> {FirstWords(f)}]

\* The value of each file.
Values ==
  [f \in Files |-> CASE f \in DummyFiles -> st[f]
                     [] f \in KdemoFiles -> ints[f]
                     [] f = "distance" -> <<chip.result>>]

\* Every file has a legal value, whatever users write to it (the clamp of
\* the activities, the table of the scales, kstrtoint()), the lock has its
\* holder inside a callback, and every call is at a place its file has.
TypeOK ==
  /\ \A u \in Users :
       /\ req[u] = NoReq <=> pc[u] = "idle"
       /\ req[u].file \in DummyFiles =>
            pc[u] \in {"lock", "load", "store", "unlock", "return"}
       /\ req[u].file \in KdemoFiles => pc[u] \in {"show", "kstrtoint", "return"}
       /\ req[u].file = "distance" => pc[u] \in {"start", "look", "fetch", "return"}
  /\ \A f \in DummyFiles : st[f] \in Legal[f]
  /\ \A f \in KdemoFiles : ints[f] \in Legal[f]
  /\ lock = "free" \/ req[lock].file \in DummyFiles
  /\ stage \in {"unbound", "bound", "removing"}
  /\ chip \in [busy : BOOLEAN, complete : BOOLEAN, result : Samples]
  /\ tries \in [Users -> 1..MaxTries]
  /\ fresh \subseteq Users

\* What u's call will return, once that is settled.
Settled(u) == IF ret[u].err = "pending" THEN Pending ELSE ret[u]

Atomic ==
  INSTANCE AtomicFiles WITH
    Writable <- KdemoFiles \union (DummyFiles \intersect (WriteLocked \union WriteAlone)),
    Sensors  <- {"distance"},
    val      <- Values,
    ret      <- [u \in Users |-> Settled(u)]

\* Every call looks as if it took effect at one moment between its begin
\* and its end: a reader of the scale, which is read word by word while
\* others write it, gets a pair that was the scale, and an accepted write
\* stores what was given, or the nearest legal value.
ImplementsAtomicFiles == Atomic!Spec

\* A reader of the VL53L0X that gets a distance gets the last result of a
\* measurement that ended after the reader's start, whatever other readers
\* started and fetched in between and however long an abandoned measurement
\* takes; and it is told of a timeout only if the last look found no result.
DistanceHonest ==
  [][\A u \in Users :
       req[u].file = "distance" /\ ret[u] = Pending /\ ret'[u] # Pending =>
         /\ ret'[u].err = "none" => u \in fresh /\ ret'[u].words = <<chip.result>>
         /\ ret'[u].err = "ETIMEDOUT" => ~chip.complete]_vars

\* Every call ends, also if the chip never measures anything, and so does
\* the removal of the sensor, which waits for the calls under way.
CallsEnd ==
  /\ \A u \in Users : pc[u] # "idle" ~> pc[u] = "idle"
  /\ stage = "removing" ~> stage = "unbound"
=============================================================================
