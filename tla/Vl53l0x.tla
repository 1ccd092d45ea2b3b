------------------------------ MODULE Vl53l0x ------------------------------
(***************************************************************************)
(* The raw file of the VL53L0X, iio/vl53l0x/vl53l0x-i2c.c: a read starts a *)
(* measurement, looks for its end a bounded number of times and fetches    *)
(* the result, in as many bus transfers and without a lock.  Any transfer  *)
(* can fail.                                                               *)
(*                                                                         *)
(* The chip, of which no file of the repository says more than the         *)
(* driver's use of it: a start clears the complete bit, a measurement ends *)
(* at some time or never, and the result registers keep the last result.   *)
(* Whether a start under way begins anew or changes nothing cannot be told *)
(* from here.                                                              *)
(***************************************************************************)
EXTENDS SysfsCalls

CONSTANTS
  MaxTries,  \* looks for the complete bit; 20 in the code
  Samples    \* results of a measurement

ASSUME TriesAssumption == MaxTries \in Nat \ {0}

VARIABLES
  stage,  \* the driver: "unbound", "bound" or "removing"
  chip,   \* busy measuring, complete bit, result
  tries,  \* per user: looks left
  fresh   \* the users since whose start a measurement has ended (for properties)

vlVars == <<stage, chip, tries, fresh>>

InitVl ==
  /\ stage = "unbound"
  /\ \E s \in Samples : chip = [busy |-> FALSE, complete |-> FALSE, result |-> s]
  /\ tries = [u \in Users |-> MaxTries]
  /\ fresh = {}

Probe ==
  /\ stage = "unbound" /\ stage' = "bound"
  /\ UNCHANGED <<chip, tries, fresh>>

\* The file goes first; its removal waits for the callbacks under way.
Remove ==
  /\ stage = "bound" /\ stage' = "removing"
  /\ UNCHANGED <<chip, tries, fresh>>

Removed ==
  /\ stage = "removing" /\ \A u \in Users : req[u].file # "distance"
  /\ stage' = "unbound"
  /\ UNCHANGED <<chip, tries, fresh>>

DistanceRead(u) ==
  /\ stage = "bound"
  /\ Call(u, "distance", "read", << >>, "start")
  /\ UNCHANGED vlVars

Reading(u, p) == At(u, {"distance"}, p)

ChipStarts == chip' = [chip EXCEPT !.busy = TRUE, !.complete = FALSE]

\* The counter is a local variable: it ends with the loop.
Forget(u) == tries' = [tries EXCEPT ![u] = MaxTries]

Start(u) ==
  /\ Reading(u, "start")
  /\ ChipStarts
  /\ fresh' = fresh \ {u}
  /\ Goto(u, "look")
  /\ UNCHANGED <<stage, tries>>

\* A transfer fails; the start may have reached the chip all the same.
TransferFails(u) ==
  /\ Reading(u, "start") \/ Reading(u, "look") \/ Reading(u, "fetch")
  /\ Answer(u, Error("EIO"), "return")
  /\ UNCHANGED chip \/ (Reading(u, "start") /\ ChipStarts)
  /\ Forget(u)
  /\ fresh' = fresh \ {u}
  /\ UNCHANGED stage

LookComplete(u) ==
  /\ Reading(u, "look") /\ chip.complete
  /\ Goto(u, "fetch")
  /\ Forget(u)
  /\ UNCHANGED <<stage, chip, fresh>>

\* Wrong variant: after the last look the result is fetched anyway.
LookAgainAnyway(u) ==
  /\ Reading(u, "look") /\ ~chip.complete
  /\ IF tries[u] = 1 THEN Forget(u) /\ Goto(u, "fetch")
     ELSE tries' = [tries EXCEPT ![u] = @ - 1] /\ UNCHANGED callVars
  /\ UNCHANGED <<stage, chip, fresh>>

\* Sleep and look again, or give up.
LookAgain(u) ==
  /\ Reading(u, "look") /\ ~chip.complete
  /\ IF tries[u] = 1 THEN Forget(u) /\ Answer(u, Error("ETIMEDOUT"), "return")
     ELSE tries' = [tries EXCEPT ![u] = @ - 1] /\ UNCHANGED callVars
  /\ UNCHANGED <<stage, chip, fresh>>

Fetch(u) ==
  /\ Reading(u, "fetch")
  /\ \/ Answer(u, Value(<<chip.result>>), "return")
     \/ Answer(u, Error("EREMOTEIO"), "return")  \* a short transfer
  /\ fresh' = fresh \ {u}
  /\ UNCHANGED <<stage, chip, tries>>

ChipCompletes ==
  /\ chip.busy
  /\ \E s \in Samples : chip' = [busy |-> FALSE, complete |-> TRUE, result |-> s]
  /\ fresh' = {u \in Users : Reading(u, "look") \/ Reading(u, "fetch")}
  /\ UNCHANGED <<stage, tries>>

DistanceStep(u) ==
  Start(u) \/ TransferFails(u) \/ LookComplete(u) \/ LookAgain(u) \/ Fetch(u)
=============================================================================
