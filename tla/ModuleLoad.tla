----------------------------- MODULE ModuleLoad -----------------------------
(***************************************************************************)
(* How the small modules of the repository come and go: the character      *)
(* device skeleton gpio/chardev.c, the kobject demo kobject/kdemo.c, the   *)
(* three modules of demo/ of which two use symbols of the first, and the   *)
(* instances of iio/iio_simple_dummy.c (its probe() and remove() run when  *)
(* a directory in configfs is made and removed).                           *)
(*                                                                         *)
(* Each init function acquires resources in an order and gives some back   *)
(* when a step fails; each exit function gives them back in an order.      *)
(* These orders are the tables below.  Processes use the devices and files *)
(* while this happens.                                                     *)
(*                                                                         *)
(* External to src/: the module loader (it resolves symbols, refuses to    *)
(* unload what is in use, and opens of a device hold its module), and      *)
(* sysfs (removing a file waits for the reads and writes under way).       *)
(***************************************************************************)
EXTENDS Sequences, Functions

CONSTANTS Mods,    (* the modules of this machine, out of the table      *)
          Users    (* processes that open the device and use the files   *)

VARIABLES
  mod,    (* absent, coming, unwinding, live or going                    *)
  todo,   (* the resources its function has still to acquire or release  *)
  held,   (* the resources it has                                        *)
  at      (* per process: <<where it is, the module it uses>>            *)

vars == <<mod, todo, held, at>>

-----------------------------------------------------------------------------
(* The init and exit functions.                                            *)

\* What init acquires, in its order.
InitSteps ==
  [chardev |-> <<"region", "class", "node", "cdev">>,
   kdemo   |-> <<"kobject", "files">>,
   md1 |-> << >>, md2 |-> << >>, md3 |-> << >>,
   dummy   |-> <<"swd", "iio_dev", "name", "events", "buffer", "registered">>]

ASSUME ModsAssumption == Mods \subseteq DOMAIN InitSteps

\* What it gives back when it could not acquire r.
\* Wrong variant: chardev_init() forgets the class when cdev_add() has failed.
UnwindNoClass(r) ==
  CASE r = "class" -> <<"region">>
    [] r = "node" -> <<"class", "region">>
    [] r = "cdev" -> <<"node", "region">>
    [] r = "files" -> <<"kobject">>
    [] r = "iio_dev" -> <<"swd">>
    [] r = "events" -> <<"iio_dev", "swd">>
    [] r = "buffer" -> <<"events", "iio_dev", "swd">>
    [] r = "registered" -> <<"buffer", "events", "iio_dev", "swd">>
    [] OTHER -> << >>
Unwind(r) ==
  CASE r = "class" -> <<"region">>
    [] r = "node" -> <<"class", "region">>
    [] r = "cdev" -> <<"node", "class", "region">>
    [] r = "files" -> <<"kobject">>
    [] r = "iio_dev" -> <<"swd">>
    [] r = "events" -> <<"iio_dev", "swd">>
    [] r = "buffer" -> <<"events", "iio_dev", "swd">>
    [] r = "registered" -> <<"buffer", "events", "iio_dev", "swd">>
    [] OTHER -> << >>

\* What exit gives back, in its order.
\* Wrong variant: the class before its device.
ExitStepsClassFirst ==
  [chardev |-> <<"cdev", "class", "node", "region">>,
   kdemo   |-> <<"kobject">>,
   md1 |-> << >>, md2 |-> << >>, md3 |-> << >>,
   dummy   |-> <<"registered", "buffer", "events", "name", "iio_dev">>]
ExitSteps ==
  [chardev |-> <<"cdev", "node", "class", "region">>,
   kdemo   |-> <<"kobject">>,
   md1 |-> << >>, md2 |-> << >>, md3 |-> << >>,
   dummy   |-> <<"registered", "buffer", "events", "name", "iio_dev">>]

\* Resources that go when r does: the last kobject_put() removes the directory
\* with the files in it.
GoesWith(r) == IF r = "kobject" THEN {"kobject", "files"} ELSE {r}

\* kstrdup() of the device's name is the one step whose failure is ignored.
MayLack(r) == r = "name"

\* The init function of md3 returns -1.
\* Wrong variant: it returns 0.
InitNeverFails(m) == FALSE
InitFails(m) == m = "md3"

\* The modules whose exported symbols m uses.
Uses(m) == IF m \in {"md2", "md3"} THEN {"md1"} ELSE {}

\* What a resource is a part of, or refers to by name.
Needs(r) ==
  CASE r = "node" -> {"region", "class"}
    [] r = "cdev" -> {"region"}
    [] r = "files" -> {"kobject"}
    [] r \in {"events", "buffer"} -> {"iio_dev"}
    [] r = "registered" -> {"iio_dev", "events", "buffer"}
    [] OTHER -> {}

\* The resource by which a process gets hold of m, and the one it then uses.
Door(m) == CASE m = "chardev" -> "node"
             [] m = "kdemo"   -> "files"
             [] m = "dummy"   -> "registered"
             [] OTHER -> "none"
Behind(m) == IF m = "chardev" THEN "cdev" ELSE Door(m)

\* chardev_fops.owner: an open file holds the module.
\* Wrong variant: the owner is not set.
HoldsNone(m) == FALSE
Holds(m) == m = "chardev"

\* The files of sysfs are being removed: nobody new gets in.
Draining(m) ==
  /\ Door(m) = Behind(m)
  /\ mod[m] = "going" /\ todo[m] # << >>
  /\ Door(m) \in GoesWith(Head(todo[m]))

Inside(m) == {u \in Users : at[u] = <<"inside", m>>}

-----------------------------------------------------------------------------
Init ==
  /\ mod = [m \in Mods |-> "absent"]
  /\ todo = [m \in Mods |-> << >>]
  /\ held = [m \in Mods |-> {}]
  /\ at = [u \in Users |-> <<"away", "none">>]

Enter(m, s, steps) ==
  /\ mod' = [mod EXCEPT ![m] = s]
  /\ todo' = [todo EXCEPT ![m] = steps]

\* insmod, or mkdir in configfs: symbols have to be there.
Insmod(m) ==
  /\ mod[m] = "absent"
  /\ \A n \in Uses(m) : n \in Mods /\ mod[n] = "live"
  /\ Enter(m, "coming", InitSteps[m])
  /\ UNCHANGED <<held, at>>

Acquire(m) ==
  /\ mod[m] = "coming" /\ todo[m] # << >>
  /\ held' = [held EXCEPT ![m] = @ \cup {Head(todo[m])}]
  /\ todo' = [todo EXCEPT ![m] = Tail(@)]
  /\ UNCHANGED <<mod, at>>

AcquireFails(m) ==
  /\ mod[m] = "coming" /\ todo[m] # << >>
  /\ LET r == Head(todo[m])
     IN  IF MayLack(r) THEN Enter(m, "coming", Tail(todo[m]))
         ELSE Enter(m, "unwinding", Unwind(r))
  /\ UNCHANGED <<held, at>>

InitReturns(m) ==
  /\ mod[m] = "coming" /\ todo[m] = << >>
  /\ Enter(m, IF InitFails(m) THEN "absent" ELSE "live", << >>)
  /\ UNCHANGED <<held, at>>

\* rmmod, or rmdir in configfs: not while somebody holds the module.
Rmmod(m) ==
  /\ mod[m] = "live"
  /\ \A n \in Mods : m \in Uses(n) => mod[n] = "absent"
  /\ Holds(m) => Inside(m) = {}
  /\ Enter(m, "going", ExitSteps[m])
  /\ UNCHANGED <<held, at>>

\* Files of sysfs go when nobody is inside them any more; nothing else waits.
Release(m) ==
  /\ mod[m] \in {"unwinding", "going"} /\ todo[m] # << >>
  /\ Draining(m) => Inside(m) = {}
  /\ held' = [held EXCEPT ![m] = @ \ GoesWith(Head(todo[m]))]
  /\ todo' = [todo EXCEPT ![m] = Tail(@)]
  /\ UNCHANGED <<mod, at>>

ExitReturns(m) ==
  /\ mod[m] \in {"unwinding", "going"} /\ todo[m] = << >>
  /\ Enter(m, "absent", << >>)
  /\ UNCHANGED <<held, at>>

\* A process finds the node or the file ...
Find(u, m) ==
  /\ at[u][1] = "away"
  /\ Door(m) \in held[m]
  /\ at' = [at EXCEPT ![u] = <<"found", m>>]
  /\ UNCHANGED <<mod, todo, held>>

\* ... and gets in, unless what is behind is not there yet or any more, or the
\* module is about to go (ENXIO, ENODEV).
GetIn(u) ==
  LET m == at[u][2]
  IN  /\ at[u][1] = "found"
      /\ at' = [at EXCEPT ![u] =
                  IF /\ Behind(m) \in held[m]
                     /\ ~Draining(m)
                     /\ Holds(m) => mod[m] # "going"
                  THEN <<"inside", m>> ELSE <<"away", "none">>]
      /\ UNCHANGED <<mod, todo, held>>

Leave(u) ==
  /\ at[u][1] = "inside"
  /\ at' = [at EXCEPT ![u] = <<"away", "none">>]
  /\ UNCHANGED <<mod, todo, held>>

Step(m) == Acquire(m) \/ AcquireFails(m) \/ InitReturns(m) \/ Release(m) \/ ExitReturns(m)

Next ==
  \/ \E m \in Mods : Insmod(m) \/ Rmmod(m) \/ Step(m)
  \/ \E u \in Users : GetIn(u) \/ Leave(u) \/ \E m \in Mods : Find(u, m)

Spec == Init /\ [][Next]_vars

-----------------------------------------------------------------------------
(* Properties.                                                             *)

\* The variables keep to their types; and md3, which has no exit function, is
\* never left loaded.
TypeOK ==
  /\ mod \in [Mods -> {"absent", "coming", "unwinding", "live", "going"}]
  /\ \A m \in Mods :
       /\ held[m] \subseteq Range(InitSteps[m])
       /\ Range(todo[m]) \subseteq Range(InitSteps[m])
       /\ mod[m] \in {"absent", "live"} => todo[m] = << >>
       /\ m = "md3" => mod[m] \in {"absent", "coming"}
  /\ \A u \in Users : at[u] \in {<<"away", "none">>}
                                \cup ({"found", "inside"} \X Mods)

\* The two structures of the IIO dummy that its code never frees on some path:
\* swd in iio_dummy_remove(), the name when iio_dummy_probe() fails after it.
Leaks(m) == IF m = "dummy" THEN {"swd", "name"} ELSE {}

\* A module that is not loaded, because its init has failed at any step or its
\* exit is over, has left nothing behind, the known leaks apart.
NothingLeft == \A m \in Mods : mod[m] = "absent" => held[m] \subseteq Leaks(m)

\* At every moment of loading, unwinding and unloading, nothing is held without
\* what it refers to: no node without its class, no group without its kobject,
\* no registered device without its events.
Layered == \A m \in Mods : \A r \in held[m] : Needs(r) \subseteq held[m]

\* Who is inside a module finds it there: an open file its cdev, a reader or
\* writer of a file of sysfs that file, and a user of md1's symbols md1.
InsideIsServed ==
  /\ \A u \in Users, m \in Mods :
       at[u] = <<"inside", m>> => mod[m] # "absent" /\ Behind(m) \in held[m]
  /\ \A m \in Mods : mod[m] # "absent" => \A n \in Uses(m) : mod[n] = "live"
=============================================================================
