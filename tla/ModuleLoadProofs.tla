--------------------------- MODULE ModuleLoadProofs ---------------------------
(***************************************************************************)
(* Proofs about ModuleLoad for any of its modules on one machine and any   *)
(* number of processes: wherever an init function fails and whenever a     *)
(* module is removed, nothing is left behind, nothing is held without what *)
(* it rests on, and whoever is inside a module finds it there.             *)
(***************************************************************************)
EXTENDS ModuleLoad, TLAPS

-----------------------------------------------------------------------------
(* The inductive invariant.                                                *)

(* All that a module acquires, and what it has apart from what leaks.      *)
All(m)   == Range(InitSteps[m])
Solid(m) == held[m] \ Leaks(m)

(* What may be left to do: the ends of the tables of the model.            *)
Loading(m) ==
  {<< >>} \cup
  CASE m = "chardev" ->
         {<<"region", "class", "node", "cdev">>, <<"class", "node", "cdev">>,
          <<"node", "cdev">>, <<"cdev">>}
    [] m = "kdemo" -> {<<"kobject", "files">>, <<"files">>}
    [] m = "dummy" ->
         {<<"swd", "iio_dev", "name", "events", "buffer", "registered">>,
          <<"iio_dev", "name", "events", "buffer", "registered">>,
          <<"name", "events", "buffer", "registered">>,
          <<"events", "buffer", "registered">>,
          <<"buffer", "registered">>, <<"registered">>}
    [] OTHER -> {}

Unwinding(m) ==
  {<< >>} \cup
  CASE m = "chardev" ->
         {<<"node", "class", "region">>, <<"class", "region">>, <<"region">>}
    [] m = "kdemo" -> {<<"kobject">>}
    [] m = "dummy" ->
         {<<"buffer", "events", "iio_dev", "swd">>, <<"events", "iio_dev", "swd">>,
          <<"iio_dev", "swd">>, <<"swd">>}
    [] OTHER -> {}

Unloading(m) ==
  {<< >>} \cup
  CASE m = "chardev" ->
         {<<"cdev", "node", "class", "region">>, <<"node", "class", "region">>,
          <<"class", "region">>, <<"region">>}
    [] m = "kdemo" -> {<<"kobject">>}
    [] m = "dummy" ->
         {<<"registered", "buffer", "events", "name", "iio_dev">>,
          <<"buffer", "events", "name", "iio_dev">>, <<"events", "name", "iio_dev">>,
          <<"name", "iio_dev">>, <<"iio_dev">>}
    [] OTHER -> {}

(* What the releases of t take away.                                       *)
Covers(t) == UNION {GoesWith(r) : r \in Range(t)}

(* What a module has is what its function is through with, or what it has  *)
(* still to give back.                                                     *)
PlaceInv(m) ==
  /\ held[m] \subseteq All(m)
  /\ \/ mod[m] = "absent" /\ todo[m] = << >> /\ Solid(m) = {}
     \/ /\ mod[m] = "coming" /\ todo[m] \in Loading(m)
        /\ Solid(m) = (All(m) \ Range(todo[m])) \ Leaks(m)
     \/ mod[m] = "live" /\ todo[m] = << >> /\ Solid(m) = All(m) \ Leaks(m)
     \/ /\ mod[m] = "unwinding" /\ todo[m] \in Unwinding(m)
        /\ Solid(m) = Range(todo[m]) \ Leaks(m)
     \/ /\ mod[m] = "going" /\ todo[m] \in Unloading(m)
        /\ Solid(m) = Covers(todo[m]) \ Leaks(m)
  /\ m = "md3" => mod[m] \in {"absent", "coming"}

(* The variables are functions, and a process is somewhere.                *)
ShapeInv ==
  /\ mod = [m \in Mods |-> mod[m]]
  /\ todo = [m \in Mods |-> todo[m]]
  /\ held = [m \in Mods |-> held[m]]
  /\ at \in [Users -> {<<"away", "none">>} \cup ({"found", "inside"} \X Mods)]

(* Who is inside finds what is behind the door, and a module with an owner *)
(* does not go under him.                                                  *)
UserInv ==
  \A u \in Users, m \in Mods :
    at[u] = <<"inside", m>> =>
      /\ Behind(m) \in held[m]
      /\ Holds(m) => mod[m] \in {"coming", "live"}

(* A module whose symbols are used is there.                               *)
LinkInv ==
  \A m \in Mods : mod[m] # "absent" =>
    \A n \in Uses(m) : n \in Mods /\ mod[n] = "live"

IInv == ShapeInv /\ (\A m \in Mods : PlaceInv(m)) /\ Layered /\ UserInv /\ LinkInv

-----------------------------------------------------------------------------
(* The tables.                                                             *)

(* What comes next when a module is loaded rests on what is there already, *)
(* and if it fails the unwinding goes through all that was acquired.       *)
LEMMA LoadingFacts ==
  ASSUME NEW m \in DOMAIN InitSteps, NEW t \in Loading(m), t # << >>
  PROVE  /\ Tail(t) \in Loading(m)
         /\ Head(t) \in All(m) /\ Head(t) \notin Range(Tail(t))
         /\ Range(t) = Range(Tail(t)) \cup {Head(t)}
         /\ Range(t) \subseteq All(m)
         /\ Needs(Head(t)) \subseteq (All(m) \ Range(t)) \ Leaks(m)
         /\ Behind(m) \in Range(t) \ Leaks(m)
         /\ MayLack(Head(t)) => Head(t) \in Leaks(m)
         /\ ~MayLack(Head(t)) =>
              /\ Unwind(Head(t)) \in Unwinding(m)
              /\ Range(Unwind(Head(t))) \ Leaks(m) = (All(m) \ Range(t)) \ Leaks(m)
<1>1. CASE m = "chardev" /\ t = <<"region", "class", "node", "cdev">>
  BY <1>1 DEF Loading, Unwinding, All, InitSteps, Range, Needs, Unwind,
               MayLack, Leaks, Behind, Door
<1>2. CASE m = "chardev" /\ t = <<"class", "node", "cdev">>
  BY <1>2 DEF Loading, Unwinding, All, InitSteps, Range, Needs, Unwind,
               MayLack, Leaks, Behind, Door
<1>3. CASE m = "chardev" /\ t = <<"node", "cdev">>
  BY <1>3 DEF Loading, Unwinding, All, InitSteps, Range, Needs, Unwind,
               MayLack, Leaks, Behind, Door
<1>4. CASE m = "chardev" /\ t = <<"cdev">>
  BY <1>4 DEF Loading, Unwinding, All, InitSteps, Range, Needs, Unwind,
               MayLack, Leaks, Behind, Door
<1>5. CASE m = "kdemo" /\ t = <<"kobject", "files">>
  BY <1>5 DEF Loading, Unwinding, All, InitSteps, Range, Needs, Unwind,
               MayLack, Leaks, Behind, Door
<1>6. CASE m = "kdemo" /\ t = <<"files">>
  BY <1>6 DEF Loading, Unwinding, All, InitSteps, Range, Needs, Unwind,
               MayLack, Leaks, Behind, Door
<1>7. CASE m = "dummy" /\ t = <<"swd", "iio_dev", "name", "events", "buffer", "registered">>
  BY <1>7 DEF Loading, Unwinding, All, InitSteps, Range, Needs, Unwind,
               MayLack, Leaks, Behind, Door
<1>8. CASE m = "dummy" /\ t = <<"iio_dev", "name", "events", "buffer", "registered">>
  BY <1>8 DEF Loading, Unwinding, All, InitSteps, Range, Needs, Unwind,
               MayLack, Leaks, Behind, Door
<1>9. CASE m = "dummy" /\ t = <<"name", "events", "buffer", "registered">>
  BY <1>9 DEF Loading, Unwinding, All, InitSteps, Range, Needs, Unwind,
               MayLack, Leaks, Behind, Door
<1>10. CASE m = "dummy" /\ t = <<"events", "buffer", "registered">>
  BY <1>10 DEF Loading, Unwinding, All, InitSteps, Range, Needs, Unwind,
               MayLack, Leaks, Behind, Door
<1>11. CASE m = "dummy" /\ t = <<"buffer", "registered">>
  BY <1>11 DEF Loading, Unwinding, All, InitSteps, Range, Needs, Unwind,
               MayLack, Leaks, Behind, Door
<1>12. CASE m = "dummy" /\ t = <<"registered">>
  BY <1>12 DEF Loading, Unwinding, All, InitSteps, Range, Needs, Unwind,
               MayLack, Leaks, Behind, Door
<1> QED
  BY
     <1>1, <1>2, <1>3, <1>4, <1>5, <1>6, <1>7, <1>8, <1>9, <1>10, <1>11, <1>12
     DEF Loading, InitSteps

(* What is given back after a failure is no longer needed by the rest.     *)
LEMMA UnwindingFacts ==
  ASSUME NEW m \in DOMAIN InitSteps, NEW t \in Unwinding(m), t # << >>
  PROVE  /\ Tail(t) \in Unwinding(m)
         /\ Range(Tail(t)) = Range(t) \ GoesWith(Head(t))
         /\ Range(t) \subseteq All(m) /\ Behind(m) \notin Range(t) \cup Leaks(m)
         /\ \A r \in Range(Tail(t)) \cup Leaks(m) : Needs(r) \cap GoesWith(Head(t)) = {}
<1>1. CASE m = "chardev" /\ t = <<"node", "class", "region">>
  BY <1>1 DEF Unwinding, All, InitSteps, Range, Needs, Leaks, Behind, Door,
               GoesWith
<1>2. CASE m = "chardev" /\ t = <<"class", "region">>
  BY <1>2 DEF Unwinding, All, InitSteps, Range, Needs, Leaks, Behind, Door,
               GoesWith
<1>3. CASE m = "chardev" /\ t = <<"region">>
  BY <1>3 DEF Unwinding, All, InitSteps, Range, Needs, Leaks, Behind, Door,
               GoesWith
<1>4. CASE m = "kdemo" /\ t = <<"kobject">>
  BY <1>4 DEF Unwinding, All, InitSteps, Range, Needs, Leaks, Behind, Door,
               GoesWith
<1>5. CASE m = "dummy" /\ t = <<"buffer", "events", "iio_dev", "swd">>
  BY <1>5 DEF Unwinding, All, InitSteps, Range, Needs, Leaks, Behind, Door,
               GoesWith
<1>6. CASE m = "dummy" /\ t = <<"events", "iio_dev", "swd">>
  BY <1>6 DEF Unwinding, All, InitSteps, Range, Needs, Leaks, Behind, Door,
               GoesWith
<1>7. CASE m = "dummy" /\ t = <<"iio_dev", "swd">>
  BY <1>7 DEF Unwinding, All, InitSteps, Range, Needs, Leaks, Behind, Door,
               GoesWith
<1>8. CASE m = "dummy" /\ t = <<"swd">>
  BY <1>8 DEF Unwinding, All, InitSteps, Range, Needs, Leaks, Behind, Door,
               GoesWith
<1> QED
  BY
     <1>1, <1>2, <1>3, <1>4, <1>5, <1>6, <1>7, <1>8
     DEF Unwinding, InitSteps

(* What is given back at the end is no longer needed by the rest; and who  *)
(* is inside is waited for when what is behind the door goes.              *)
LEMMA UnloadingFacts ==
  ASSUME NEW m \in DOMAIN InitSteps, NEW t \in Unloading(m), t # << >>
  PROVE  /\ Tail(t) \in Unloading(m)
         /\ Covers(Tail(t)) \ Leaks(m) = (Covers(t) \ GoesWith(Head(t))) \ Leaks(m)
         /\ Range(t) \subseteq All(m)
         /\ \A r \in Covers(Tail(t)) \cup Leaks(m) : Needs(r) \cap GoesWith(Head(t)) = {}
         /\ Behind(m) \in GoesWith(Head(t)) /\ ~Holds(m) =>
              Door(m) = Behind(m) /\ Door(m) \in GoesWith(Head(t))
<1>1. CASE m = "chardev" /\ t = <<"cdev", "node", "class", "region">>
  BY <1>1 DEF Unloading, Covers, All, InitSteps, Range, Needs, Leaks, Behind,
               Door, Holds, GoesWith
<1>2. CASE m = "chardev" /\ t = <<"node", "class", "region">>
  BY <1>2 DEF Unloading, Covers, All, InitSteps, Range, Needs, Leaks, Behind,
               Door, Holds, GoesWith
<1>3. CASE m = "chardev" /\ t = <<"class", "region">>
  BY <1>3 DEF Unloading, Covers, All, InitSteps, Range, Needs, Leaks, Behind,
               Door, Holds, GoesWith
<1>4. CASE m = "chardev" /\ t = <<"region">>
  BY <1>4 DEF Unloading, Covers, All, InitSteps, Range, Needs, Leaks, Behind,
               Door, Holds, GoesWith
<1>5. CASE m = "kdemo" /\ t = <<"kobject">>
  BY <1>5 DEF Unloading, Covers, All, InitSteps, Range, Needs, Leaks, Behind,
               Door, Holds, GoesWith
<1>6. CASE m = "dummy" /\ t = <<"registered", "buffer", "events", "name", "iio_dev">>
  BY <1>6 DEF Unloading, Covers, All, InitSteps, Range, Needs, Leaks, Behind,
               Door, Holds, GoesWith
<1>7. CASE m = "dummy" /\ t = <<"buffer", "events", "name", "iio_dev">>
  BY <1>7 DEF Unloading, Covers, All, InitSteps, Range, Needs, Leaks, Behind,
               Door, Holds, GoesWith
<1>8. CASE m = "dummy" /\ t = <<"events", "name", "iio_dev">>
  BY <1>8 DEF Unloading, Covers, All, InitSteps, Range, Needs, Leaks, Behind,
               Door, Holds, GoesWith
<1>9. CASE m = "dummy" /\ t = <<"name", "iio_dev">>
  BY <1>9 DEF Unloading, Covers, All, InitSteps, Range, Needs, Leaks, Behind,
               Door, Holds, GoesWith
<1>10. CASE m = "dummy" /\ t = <<"iio_dev">>
  BY <1>10 DEF Unloading, Covers, All, InitSteps, Range, Needs, Leaks, Behind,
               Door, Holds, GoesWith
<1> QED
  BY
     <1>1, <1>2, <1>3, <1>4, <1>5, <1>6, <1>7, <1>8, <1>9, <1>10
     DEF Unloading, InitSteps

(* The tables themselves are such ends, and so is nothing.                 *)
LEMMA TableEnds ==
  ASSUME NEW m \in DOMAIN InitSteps
  PROVE  /\ InitSteps[m] \in Loading(m) /\ << >> \in Loading(m)
         /\ ExitSteps[m] \in Unloading(m)
         /\ Covers(ExitSteps[m]) \ Leaks(m) = All(m) \ Leaks(m)
         /\ Range(<< >>) = {} /\ Covers(<< >>) = {}
<1>1. CASE m = "chardev"
  BY <1>1 DEF Loading, Unloading, All, InitSteps, ExitSteps, Range, Covers,
               GoesWith, Leaks
<1>2. CASE m = "kdemo"
  BY <1>2 DEF Loading, Unloading, All, InitSteps, ExitSteps, Range, Covers,
               GoesWith, Leaks
<1>3. CASE m = "dummy"
  BY <1>3 DEF Loading, Unloading, All, InitSteps, ExitSteps, Range, Covers,
               GoesWith, Leaks
<1>4. CASE m \in {"md1", "md2", "md3"}
  BY <1>4 DEF Loading, Unloading, All, InitSteps, ExitSteps, Range, Covers,
               GoesWith, Leaks
<1> QED
  BY <1>1, <1>2, <1>3, <1>4 DEF InitSteps

-----------------------------------------------------------------------------
(* The invariant holds initially and every step keeps it.                  *)

(* No module is loaded.                                                    *)
LEMMA InitInv == Init => IInv
<1> SUFFICES ASSUME Init PROVE IInv
  OBVIOUS
<1>1. ShapeInv
  BY DEF Init, ShapeInv
<1>2. ASSUME NEW m \in Mods PROVE PlaceInv(m)
  BY DEF Init, PlaceInv, Solid
<1>3. Layered /\ UserInv /\ LinkInv
  BY DEF Init, Layered, UserInv, LinkInv
<1> QED
  BY <1>1, <1>2, <1>3 DEF IInv

(* The other modules and the processes stay where they are.                *)
LEMMA OneModuleMoves ==
  ASSUME ShapeInv, NEW m \in Mods, Insmod(m) \/ Rmmod(m) \/ Step(m)
  PROVE  /\ ShapeInv' /\ at' = at
         /\ \A n \in Mods \ {m} :
              mod'[n] = mod[n] /\ todo'[n] = todo[n] /\ held'[n] = held[n]
<1>1. at' = at
  BY Zenon DEF Insmod, Rmmod, Step, Acquire, AcquireFails, InitReturns, Release,
               ExitReturns
<1>2. mod' = [mod EXCEPT ![m] = mod'[m]]
  BY DEF ShapeInv, Insmod, Rmmod, Step, Acquire, AcquireFails, InitReturns,
         Release, ExitReturns, Enter
<1>3. todo' = [todo EXCEPT ![m] = todo'[m]]
  BY DEF ShapeInv, Insmod, Rmmod, Step, Acquire, AcquireFails, InitReturns,
         Release, ExitReturns, Enter
<1>4. held' = [held EXCEPT ![m] = held'[m]]
  BY DEF ShapeInv, Insmod, Rmmod, Step, Acquire, AcquireFails, InitReturns,
         Release, ExitReturns
<1> QED
  BY <1>1, <1>2, <1>3, <1>4 DEF ShapeInv

(* A step of the init or exit function keeps what it has in line with what *)
(* it has still to do.                                                     *)
LEMMA PlaceStep ==
  ASSUME IInv, NEW m \in Mods, Insmod(m) \/ Rmmod(m) \/ Step(m)
  PROVE  PlaceInv(m)'
<1>0. m \in DOMAIN InitSteps /\ PlaceInv(m) /\ ShapeInv
  BY ModsAssumption DEF IInv
<1>1. /\ InitSteps[m] \in Loading(m) /\ ExitSteps[m] \in Unloading(m)
      /\ Covers(ExitSteps[m]) \ Leaks(m) = All(m) \ Leaks(m)
      /\ Range(InitSteps[m]) = All(m)
      /\ Range(<< >>) = {} /\ Covers(<< >>) = {}
  BY <1>0, TableEnds DEF All
<1>2. CASE Insmod(m)
  <2>1. /\ mod'[m] = "coming" /\ todo'[m] = InitSteps[m] /\ held' = held
        /\ mod[m] = "absent"
    BY <1>0, <1>2 DEF Insmod, Enter, ShapeInv
  <2> QED
    BY <1>0, <1>1, <2>1 DEF PlaceInv, Solid
<1>3. CASE Rmmod(m)
  <2>1. /\ mod'[m] = "going" /\ todo'[m] = ExitSteps[m] /\ held' = held
        /\ mod[m] = "live"
    BY <1>0, <1>3 DEF Rmmod, Enter, ShapeInv
  <2> QED
    BY <1>0, <1>1, <2>1 DEF PlaceInv, Solid
<1>4. CASE Acquire(m)
  <2>1. /\ mod[m] = "coming" /\ mod'[m] = "coming" /\ todo[m] # << >>
        /\ todo'[m] = Tail(todo[m]) /\ held'[m] = held[m] \cup {Head(todo[m])}
    BY <1>0, <1>4 DEF Acquire, ShapeInv
  <2>2. todo[m] \in Loading(m) /\ Solid(m) = (All(m) \ Range(todo[m])) \ Leaks(m)
    BY <1>0, <2>1 DEF PlaceInv
  <2>3. /\ todo'[m] \in Loading(m) /\ Head(todo[m]) \in All(m)
        /\ Head(todo[m]) \notin Range(todo'[m])
        /\ Range(todo[m]) = Range(todo'[m]) \cup {Head(todo[m])}
    BY <1>0, <2>1, <2>2, LoadingFacts
  <2>4. Solid(m)' = (All(m) \ Range(todo'[m])) \ Leaks(m)
    BY <2>1, <2>2, <2>3 DEF Solid
  <2> QED
    BY <1>0, <2>1, <2>3, <2>4 DEF PlaceInv
<1>5. CASE AcquireFails(m)
  <2>1. mod[m] = "coming" /\ todo[m] # << >> /\ held' = held
    BY <1>5 DEF AcquireFails
  <2>2. todo[m] \in Loading(m) /\ Solid(m) = (All(m) \ Range(todo[m])) \ Leaks(m)
    BY <1>0, <2>1 DEF PlaceInv
  <2>3. CASE MayLack(Head(todo[m]))
    <3>1. mod'[m] = "coming" /\ todo'[m] = Tail(todo[m])
      BY <1>0, <1>5, <2>3 DEF AcquireFails, Enter, ShapeInv
    <3>2. /\ todo'[m] \in Loading(m) /\ Head(todo[m]) \in Leaks(m)
          /\ Range(todo[m]) = Range(todo'[m]) \cup {Head(todo[m])}
      BY <1>0, <2>1, <2>2, <2>3, <3>1, LoadingFacts
    <3>3. Solid(m)' = (All(m) \ Range(todo'[m])) \ Leaks(m)
      BY <2>1, <2>2, <3>2 DEF Solid
    <3> QED
      BY <1>0, <2>1, <3>1, <3>2, <3>3 DEF PlaceInv
  <2>4. CASE ~MayLack(Head(todo[m]))
    <3>1. mod'[m] = "unwinding" /\ todo'[m] = Unwind(Head(todo[m]))
      BY <1>0, <1>5, <2>4 DEF AcquireFails, Enter, ShapeInv
    <3>2. /\ todo'[m] \in Unwinding(m)
          /\ Range(todo'[m]) \ Leaks(m) = (All(m) \ Range(todo[m])) \ Leaks(m)
      BY <1>0, <2>1, <2>2, <2>4, <3>1, LoadingFacts
    <3>3. Solid(m)' = Range(todo'[m]) \ Leaks(m)
      BY <2>1, <2>2, <3>2 DEF Solid
    <3>4. m # "md3"
      BY <2>1, <2>2 DEF Loading
    <3> QED
      BY <1>0, <2>1, <3>1, <3>2, <3>3, <3>4 DEF PlaceInv
  <2> QED
    BY <2>3, <2>4
<1>6. CASE InitReturns(m)
  <2>1. /\ mod[m] = "coming" /\ todo[m] = << >> /\ held' = held /\ todo'[m] = << >>
        /\ mod'[m] = IF m = "md3" THEN "absent" ELSE "live"
    BY <1>0, <1>6 DEF InitReturns, Enter, ShapeInv, InitFails
  <2>2. Solid(m) = All(m) \ Leaks(m)
    BY <1>0, <1>1, <2>1 DEF PlaceInv
  <2>3. m = "md3" => All(m) = {}
    BY <1>1 DEF All, InitSteps
  <2> QED
    BY <1>0, <2>1, <2>2, <2>3 DEF PlaceInv, Solid
<1>7. CASE Release(m)
  <2>1. /\ mod[m] \in {"unwinding", "going"} /\ todo[m] # << >>
        /\ mod'[m] = mod[m] /\ todo'[m] = Tail(todo[m])
        /\ held'[m] = held[m] \ GoesWith(Head(todo[m]))
    BY <1>0, <1>7 DEF Release, ShapeInv
  <2>2. CASE mod[m] = "unwinding"
    <3>1. todo[m] \in Unwinding(m) /\ Solid(m) = Range(todo[m]) \ Leaks(m)
      BY <1>0, <2>2 DEF PlaceInv
    <3>2. /\ todo'[m] \in Unwinding(m)
          /\ Range(todo'[m]) = Range(todo[m]) \ GoesWith(Head(todo[m]))
      BY <1>0, <2>1, <3>1, UnwindingFacts
    <3>3. Solid(m)' = Range(todo'[m]) \ Leaks(m)
      BY <2>1, <3>1, <3>2 DEF Solid
    <3> QED
      BY <1>0, <2>1, <2>2, <3>2, <3>3 DEF PlaceInv
  <2>3. CASE mod[m] = "going"
    <3>1. todo[m] \in Unloading(m) /\ Solid(m) = Covers(todo[m]) \ Leaks(m)
      BY <1>0, <2>3 DEF PlaceInv
    <3>2. /\ todo'[m] \in Unloading(m)
          /\ Covers(todo'[m]) \ Leaks(m)
               = (Covers(todo[m]) \ GoesWith(Head(todo[m]))) \ Leaks(m)
      BY <1>0, <2>1, <3>1, UnloadingFacts
    <3>3. Solid(m)' = Covers(todo'[m]) \ Leaks(m)
      BY <2>1, <3>1, <3>2 DEF Solid
    <3> QED
      BY <1>0, <2>1, <2>3, <3>2, <3>3 DEF PlaceInv
  <2> QED
    BY <2>1, <2>2, <2>3
<1>8. CASE ExitReturns(m)
  <2>1. /\ mod[m] \in {"unwinding", "going"} /\ todo[m] = << >>
        /\ mod'[m] = "absent" /\ todo'[m] = << >> /\ held' = held
    BY <1>0, <1>8 DEF ExitReturns, Enter, ShapeInv
  <2> QED
    BY <1>0, <1>1, <2>1 DEF PlaceInv, Solid
<1> QED
  BY <1>2, <1>3, <1>4, <1>5, <1>6, <1>7, <1>8 DEF Step

(* Nothing is acquired before what it rests on, nor released before what   *)
(* rests on it.                                                            *)
LEMMA LayeredStep ==
  ASSUME IInv, NEW m \in Mods, Insmod(m) \/ Rmmod(m) \/ Step(m)
  PROVE  \A r \in held'[m] : Needs(r) \subseteq held'[m]
<1>0. m \in DOMAIN InitSteps /\ PlaceInv(m) /\ ShapeInv
  BY ModsAssumption DEF IInv
<1>1. \A r \in held[m] : Needs(r) \subseteq held[m]
  BY DEF IInv, Layered
<1>2. CASE \/ Insmod(m) \/ Rmmod(m) \/ AcquireFails(m) \/ InitReturns(m)
           \/ ExitReturns(m)
  <2>1. held' = held
    BY <1>2 DEF Insmod, Rmmod, AcquireFails, InitReturns, ExitReturns
  <2> QED
    BY <1>1, <2>1
<1>3. CASE Acquire(m)
  <2>1. /\ mod[m] = "coming" /\ todo[m] # << >>
        /\ held'[m] = held[m] \cup {Head(todo[m])}
    BY <1>0, <1>3 DEF Acquire, ShapeInv
  <2>2. todo[m] \in Loading(m) /\ Solid(m) = (All(m) \ Range(todo[m])) \ Leaks(m)
    BY <1>0, <2>1 DEF PlaceInv
  <2>3. Needs(Head(todo[m])) \subseteq Solid(m)
    BY <1>0, <2>1, <2>2, LoadingFacts
  <2> QED
    BY <1>1, <2>1, <2>3 DEF Solid
<1>4. CASE Release(m)
  <2>1. /\ mod[m] \in {"unwinding", "going"} /\ todo[m] # << >>
        /\ mod'[m] = mod[m] /\ todo'[m] = Tail(todo[m])
        /\ held'[m] = held[m] \ GoesWith(Head(todo[m]))
    BY <1>0, <1>4 DEF Release, ShapeInv
  <2>2. PlaceInv(m)'
    BY <1>4, PlaceStep DEF Step
  <2>3. ASSUME NEW r \in held'[m] PROVE Needs(r) \cap GoesWith(Head(todo[m])) = {}
    <3>1. CASE mod[m] = "unwinding"
      <4>1. r \in Range(todo'[m]) \cup Leaks(m)
        BY <2>1, <2>2, <2>3, <3>1 DEF PlaceInv, Solid
      <4>2. todo[m] \in Unwinding(m)
        BY <1>0, <3>1 DEF PlaceInv
      <4> QED
        BY <1>0, <2>1, <4>1, <4>2, UnwindingFacts
    <3>2. CASE mod[m] = "going"
      <4>1. r \in Covers(todo'[m]) \cup Leaks(m)
        BY <2>1, <2>2, <2>3, <3>2 DEF PlaceInv, Solid
      <4>2. todo[m] \in Unloading(m)
        BY <1>0, <3>2 DEF PlaceInv
      <4> QED
        BY <1>0, <2>1, <4>1, <4>2, UnloadingFacts
    <3> QED
      BY <2>1, <3>1, <3>2
  <2> QED
    BY <1>1, <2>1, <2>3
<1> QED
  BY <1>2, <1>3, <1>4 DEF Step

(* Nothing that somebody is inside of goes: the owner of an open file      *)
(* keeps rmmod out, and the removal of a file of sysfs waits.              *)
LEMMA UserStep ==
  ASSUME IInv, NEW m \in Mods, Insmod(m) \/ Rmmod(m) \/ Step(m),
         NEW u \in Users, at[u] = <<"inside", m>>
  PROVE  Behind(m) \in held'[m] /\ (Holds(m) => mod'[m] \in {"coming", "live"})
<1>0. /\ m \in DOMAIN InitSteps /\ PlaceInv(m) /\ ShapeInv
      /\ Behind(m) \in held[m] /\ (Holds(m) => mod[m] \in {"coming", "live"})
      /\ Inside(m) # {}
  BY ModsAssumption DEF IInv, UserInv, Inside
<1>1. Behind(m) \notin Leaks(m)
  BY <1>0 DEF Behind, Door, Leaks, PlaceInv, All, InitSteps, Range
<1>2. Behind(m) \in Solid(m)
  BY <1>0, <1>1 DEF Solid
<1>3. CASE Insmod(m)
  BY <1>0, <1>2, <1>3 DEF Insmod, PlaceInv
<1>4. CASE Rmmod(m)
  BY <1>0, <1>4 DEF Rmmod
<1>5. CASE Acquire(m)
  BY <1>0, <1>5 DEF Acquire, ShapeInv
<1>6. CASE AcquireFails(m)
  <2>1. /\ mod[m] = "coming" /\ todo[m] # << >> /\ todo[m] \in Loading(m)
        /\ Solid(m) = (All(m) \ Range(todo[m])) \ Leaks(m)
    BY <1>0, <1>6 DEF AcquireFails, PlaceInv
  <2> QED
    BY <1>0, <1>2, <2>1, LoadingFacts
<1>7. CASE InitReturns(m)
  <2>1. mod[m] = "coming" /\ held' = held
        /\ mod'[m] = IF InitFails(m) THEN "absent" ELSE "live"
    BY <1>0, <1>7 DEF InitReturns, Enter, ShapeInv
  <2>2. Holds(m) => ~InitFails(m)
    BY DEF Holds, InitFails
  <2> QED
    BY <1>0, <2>1, <2>2
<1>8. CASE Release(m)
  <2>1. /\ mod[m] \in {"unwinding", "going"} /\ todo[m] # << >>
        /\ mod'[m] = mod[m] /\ held'[m] = held[m] \ GoesWith(Head(todo[m]))
        /\ Draining(m) => Inside(m) = {}
    BY <1>0, <1>8 DEF Release, ShapeInv
  <2>2. mod[m] # "unwinding"
    <3>1. SUFFICES ASSUME mod[m] = "unwinding" PROVE FALSE
      OBVIOUS
    <3>2. todo[m] \in Unwinding(m) /\ Solid(m) = Range(todo[m]) \ Leaks(m)
      BY <1>0, <3>1 DEF PlaceInv
    <3> QED
      BY <1>0, <1>2, <2>1, <3>2, UnwindingFacts
  <2>3. mod[m] = "going" /\ todo[m] \in Unloading(m) /\ ~Holds(m)
    BY <1>0, <2>1, <2>2 DEF PlaceInv
  <2>4. Behind(m) \notin GoesWith(Head(todo[m]))
    BY <1>0, <2>1, <2>3, UnloadingFacts DEF Draining
  <2> QED
    BY <1>0, <2>1, <2>3, <2>4
<1>9. CASE ExitReturns(m)
  <2>1. mod[m] \in {"unwinding", "going"} /\ todo[m] = << >>
    BY <1>9 DEF ExitReturns
  <2>2. Solid(m) = {}
    BY <1>0, <2>1, TableEnds DEF PlaceInv
  <2> QED
    BY <1>2, <2>2
<1> QED
  BY <1>3, <1>4, <1>5, <1>6, <1>7, <1>8, <1>9 DEF Step

(* md1 stays while md2 or md3 is there.                                    *)
LEMMA LinkStep ==
  ASSUME IInv, NEW m \in Mods, Insmod(m) \/ Rmmod(m) \/ Step(m)
  PROVE  LinkInv'
<1>0. ShapeInv /\ LinkInv
  BY DEF IInv
<1>1. SUFFICES ASSUME NEW k \in Mods, mod'[k] # "absent", NEW n \in Uses(k)
               PROVE  n \in Mods /\ mod'[n] = "live"
  BY DEF LinkInv
<1>2. n \in Mods /\ mod[n] = "live"
  <2>1. CASE mod[k] # "absent"
    BY <1>0, <2>1 DEF LinkInv
  <2>2. CASE mod[k] = "absent"
    <3>1. k = m /\ Insmod(m)
      BY <1>0, <1>1, <2>2, OneModuleMoves
         DEF Rmmod, Step, Acquire, AcquireFails, InitReturns, Release, ExitReturns
    <3> QED
      BY <3>1 DEF Insmod
  <2> QED
    BY <2>1, <2>2
<1>3. CASE n # m
  BY <1>0, <1>2, <1>3, OneModuleMoves
<1>4. CASE n = m
  <2>1. ~Rmmod(m)
    <3>1. SUFFICES ASSUME Rmmod(m) PROVE FALSE
      OBVIOUS
    <3>2. mod[k] = "absent"
      BY <1>4, <3>1 DEF Rmmod
    <3>3. k # m
      BY <1>2, <1>4, <3>2
    <3> QED
      BY <1>0, <1>1, <3>2, <3>3, OneModuleMoves
  <2> QED
    BY <1>2, <1>4, <2>1
       DEF Insmod, Step, Acquire, AcquireFails, InitReturns, Release, ExitReturns
<1> QED
  BY <1>3, <1>4

(* A process comes and goes without touching the modules.                  *)
LEMMA ProcessStep ==
  ASSUME IInv, NEW u \in Users,
         GetIn(u) \/ Leave(u) \/ \E m \in Mods : Find(u, m)
  PROVE  IInv'
<1>0. /\ mod = [m \in Mods |-> mod[m]] /\ todo = [m \in Mods |-> todo[m]]
      /\ held = [m \in Mods |-> held[m]]
      /\ at \in [Users -> {<<"away", "none">>} \cup ({"found", "inside"} \X Mods)]
      /\ UserInv
  BY DEF IInv, ShapeInv
<1>1. mod' = mod /\ todo' = todo /\ held' = held
  BY DEF GetIn, Leave, Find
<1>2. \/ at' = [at EXCEPT ![u] = <<"away", "none">>]
      \/ \E m \in Mods : at' = [at EXCEPT ![u] = <<"found", m>>]
      \/ \E m \in Mods : /\ at' = [at EXCEPT ![u] = <<"inside", m>>]
                         /\ Behind(m) \in held[m]
                         /\ Holds(m) => mod[m] # "going"
  <2>1. CASE GetIn(u)
    <3>1. at[u] \in {"found", "inside"} \X Mods
      BY <1>0, <2>1 DEF GetIn
    <3>2. at[u][2] \in Mods
      BY <3>1
    <3> QED
      BY <2>1, <3>2, Zenon DEF GetIn
  <2>2. CASE Leave(u)
    BY <2>2 DEF Leave
  <2>3. CASE \E m \in Mods : Find(u, m)
    BY <2>3 DEF Find
  <2> QED
    BY <2>1, <2>2, <2>3
<1>3. ShapeInv'
  BY <1>0, <1>1, <1>2 DEF ShapeInv
<1>4. \A m \in Mods : PlaceInv(m)'
  BY <1>1 DEF IInv, PlaceInv, Solid
<1>5. Layered' /\ LinkInv'
  BY <1>1 DEF IInv, Layered, LinkInv
<1>6. UserInv'
  <2>1. ASSUME NEW m \in Mods, Behind(m) \in held[m], Holds(m), mod[m] # "going"
        PROVE  mod[m] \in {"coming", "live"}
    <3>1. m \in DOMAIN InitSteps /\ PlaceInv(m) /\ m = "chardev"
      BY <2>1, ModsAssumption DEF IInv, Holds
    <3>2. Behind(m) \in Solid(m)
      BY <2>1, <3>1 DEF Solid, Leaks
    <3>3. \A t \in Unwinding(m) : Behind(m) \notin Range(t)
      BY <3>1, UnwindingFacts, TableEnds
    <3> QED
      BY <2>1, <3>1, <3>2, <3>3 DEF PlaceInv
  <2>2. SUFFICES ASSUME NEW v \in Users, NEW m \in Mods, at'[v] = <<"inside", m>>
                 PROVE  /\ Behind(m) \in held[m]
                        /\ Holds(m) => mod[m] \in {"coming", "live"}
    BY <1>1 DEF UserInv
  <2>3. CASE at'[v] = at[v]
    BY <1>0, <2>2, <2>3 DEF UserInv
  <2>4. CASE at'[v] # at[v]
    <3>1. Behind(m) \in held[m] /\ (Holds(m) => mod[m] # "going")
      BY <1>0, <1>2, <2>2, <2>4
    <3> QED
      BY <2>1, <3>1
  <2> QED
    BY <2>3, <2>4
<1> QED
  BY <1>3, <1>4, <1>5, <1>6 DEF IInv

(* Every step keeps the invariant.                                         *)
LEMMA StepInv == IInv /\ [Next]_vars => IInv'
<1> SUFFICES ASSUME IInv, [Next]_vars PROVE IInv'
  OBVIOUS
<1>1. ASSUME NEW m \in Mods, Insmod(m) \/ Rmmod(m) \/ Step(m) PROVE IInv'
  <2>1. /\ ShapeInv' /\ at' = at
        /\ \A n \in Mods \ {m} :
             mod'[n] = mod[n] /\ todo'[n] = todo[n] /\ held'[n] = held[n]
    BY <1>1, OneModuleMoves DEF IInv
  <2>2. \A n \in Mods : PlaceInv(n)'
    <3>1. ASSUME NEW n \in Mods \ {m} PROVE PlaceInv(n)'
      BY <2>1 DEF IInv, PlaceInv, Solid
    <3> QED
      BY <1>1, <3>1, PlaceStep
  <2>3. Layered'
    <3>1. \A r \in held'[m] : Needs(r) \subseteq held'[m]
      BY <1>1, LayeredStep
    <3> QED
      BY <2>1, <3>1 DEF IInv, Layered
  <2>4. UserInv'
    <3>1. ASSUME NEW u \in Users, NEW n \in Mods, at[u] = <<"inside", n>>
          PROVE  Behind(n) \in held'[n] /\ (Holds(n) => mod'[n] \in {"coming", "live"})
      <4>1. CASE n = m
        BY <1>1, <3>1, <4>1, UserStep
      <4>2. CASE n # m
        BY <2>1, <3>1, <4>2 DEF IInv, UserInv
      <4> QED
        BY <4>1, <4>2
    <3> QED
      BY <2>1, <3>1 DEF UserInv
  <2>5. LinkInv'
    BY <1>1, LinkStep
  <2> QED
    BY <2>1, <2>2, <2>3, <2>4, <2>5 DEF IInv
<1>2. ASSUME NEW u \in Users, GetIn(u) \/ Leave(u) \/ \E m \in Mods : Find(u, m)
      PROVE  IInv'
  BY <1>2, ProcessStep
<1>3. CASE UNCHANGED vars
  <2>1. mod' = mod /\ todo' = todo /\ held' = held /\ at' = at
    BY <1>3 DEF vars
  <2> QED
    BY <2>1 DEF IInv, ShapeInv, PlaceInv, Solid, Layered, UserInv, LinkInv
<1> QED
  BY <1>1, <1>2, <1>3 DEF Next

(* The invariant holds throughout.                                         *)
LEMMA Invariant == Spec => []IInv
BY InitInv, StepInv, PTL DEF Spec

-----------------------------------------------------------------------------
(* What the invariant says about the modules.                              *)

(* The variables keep to their types, and md3, which has no exit function, *)
(* is never left loaded.                                                   *)
THEOREM TypeCorrect == Spec => []TypeOK
<1>1. IInv => TypeOK
  <2> SUFFICES ASSUME IInv PROVE TypeOK
    OBVIOUS
  <2>1. ASSUME NEW m \in Mods
        PROVE  /\ mod[m] \in {"absent", "coming", "unwinding", "live", "going"}
               /\ held[m] \subseteq Range(InitSteps[m])
               /\ Range(todo[m]) \subseteq Range(InitSteps[m])
               /\ mod[m] \in {"absent", "live"} => todo[m] = << >>
               /\ m = "md3" => mod[m] \in {"absent", "coming"}
    <3>1. m \in DOMAIN InitSteps /\ PlaceInv(m)
      BY ModsAssumption DEF IInv
    <3>2. \A t \in Loading(m) \cup Unwinding(m) \cup Unloading(m) :
            Range(t) \subseteq All(m)
      BY <3>1, LoadingFacts, UnwindingFacts, UnloadingFacts, TableEnds
    <3>3. Range(<< >>) \subseteq All(m)
      BY <3>1, TableEnds
    <3> QED
      BY <3>1, <3>2, <3>3 DEF PlaceInv, All
  <2>2. mod \in [Mods -> {"absent", "coming", "unwinding", "live", "going"}]
    BY <2>1 DEF IInv, ShapeInv
  <2>3. \A u \in Users : at[u] \in {<<"away", "none">>}
                                     \cup ({"found", "inside"} \X Mods)
    BY DEF IInv, ShapeInv
  <2> QED
    BY <2>1, <2>2, <2>3 DEF TypeOK
<1> QED
  BY <1>1, Invariant, PTL

(* Whichever step of init fails, and after every exit, nothing is left but *)
(* the two leaks of the IIO dummy.                                         *)
THEOREM FailedLoadLeavesNothing == Spec => []NothingLeft
<1>1. IInv => NothingLeft
  BY DEF IInv, PlaceInv, Solid, NothingLeft
<1> QED
  BY <1>1, Invariant, PTL

(* At no moment of loading, unwinding or unloading is anything held        *)
(* without what it rests on.                                               *)
THEOREM OrderKeepsLayers == Spec => []Layered
BY Invariant, PTL DEF IInv

(* Who is inside a module finds what is behind its door, and the user of a *)
(* module's symbols finds that module.                                     *)
THEOREM NobodyIsLeftInside == Spec => []InsideIsServed
<1>1. IInv => InsideIsServed
  <2> SUFFICES ASSUME IInv PROVE InsideIsServed
    OBVIOUS
  <2>1. ASSUME NEW u \in Users, NEW m \in Mods, at[u] = <<"inside", m>>
        PROVE  mod[m] # "absent" /\ Behind(m) \in held[m]
    <3>1. m \in DOMAIN InitSteps /\ PlaceInv(m) /\ Behind(m) \in held[m]
      BY <2>1, ModsAssumption DEF IInv, UserInv
    <3>2. Behind(m) \notin Leaks(m)
      BY <3>1 DEF Behind, Door, Leaks, PlaceInv, All, InitSteps, Range
    <3> QED
      BY <3>1, <3>2 DEF PlaceInv, Solid
  <2> QED
    BY <2>1 DEF InsideIsServed, IInv, LinkInv
<1> QED
  BY <1>1, Invariant, PTL
=============================================================================
