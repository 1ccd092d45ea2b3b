------------------------------ MODULE StmLeds ------------------------------
(***************************************************************************)
(* Life cycle of the per-device structure of the STM32 LEDs USB driver,    *)
(* usb/stm32leds_driver.c.                                                 *)
(*                                                                         *)
(* Threads: one thread of the USB core runs probe() and disconnect() of    *)
(* the interface one after the other (the device lock serializes them);    *)
(* one thread per struct file runs open(), read()/write() and release().   *)
(* They meet in the intfdata pointer of the interface, in the minor        *)
(* number's entry in the USB core and in the kref of the structure.        *)
(*                                                                         *)
(* External to src/: usb_open() and usb_(de)register_dev() of the USB      *)
(* core.  usb_open() runs the driver's open() holding minor_rwsem for      *)
(* reading; usb_register_dev() and usb_deregister_dev() change the minor's *)
(* entry holding it for writing, and a queued writer keeps new readers     *)
(* out.  The driver never touches that semaphore, but its safety rests on  *)
(* it.                                                                     *)
(***************************************************************************)
EXTENDS Naturals, FiniteSets

CONSTANTS Devs,    (* blocks kzalloc() may return for a struct stm32leds *)
          Files,   (* struct file instances of /dev/stm32ledsN           *)
          NoDev,   (* the NULL pointer                                   *)
          Bus      (* the USB core as a holder of references             *)

ASSUME StmAssumption ==
  /\ IsFiniteSet(Files)
  /\ NoDev \notin Devs
  /\ Bus \notin Files

VARIABLES
  driver,    (* the module: "out", "in", or "going" while rmmod runs      *)
  bus,       (* where the USB core's thread stands                        *)
  busdev,    (* the structure whose kref_init() reference it still has    *)
  intfdata,  (* usb_get_intfdata(interface)                               *)
  unplugged, (* TRUE while usb_find_interface() misses the interface: the *)
             (* USB core takes it off its bus list before disconnect()    *)
  minor,     (* TRUE while the USB core maps the minor to stm32leds_fops  *)
  mem,       (* per block: "free" or "live"                               *)
  kref,      (* per block: the counter in it                              *)
  fpc,       (* per file: where its thread stands                         *)
  fdev       (* per file: dev of open(), afterwards file->private_data    *)

vars == <<driver, bus, busdev, intfdata, unplugged, minor, mem, kref, fpc,
          fdev>>
busVars  == <<bus, busdev, intfdata, unplugged, minor>>
memVars  == <<mem, kref>>
fileVars == <<fpc, fdev>>

(* "probing": dev is allocated; "register": usb_register_dev() is called;  *)
(* "devcreate": the minor is visible, the device node is being made;       *)
(* "unmap": making the node failed, minor_rwsem is wanted for writing;     *)
(* "failed": usb_register_dev() returned an error; "bound": probe() is     *)
(* through; "cleared": disconnect() has cleared intfdata; "deregister":    *)
(* minor_rwsem is wanted for writing; "put": the last kref_put() is due.   *)
BusStates == {"idle", "probing", "register", "devcreate", "unmap", "failed",
              "bound", "cleared", "deregister", "put"}

(* "find": in open(), the interface not yet looked up; "ref": dev was read *)
(* from the interface, kref_get() is due; "open": between system calls;    *)
(* "io": inside read() or write().                                         *)
FileStates == {"closed", "find", "ref", "open", "io"}

TypeOK ==
  /\ driver \in {"out", "in", "going"}
  /\ bus \in BusStates
  /\ busdev \in Devs \cup {NoDev}
  /\ intfdata \in Devs \cup {NoDev}
  /\ unplugged \in BOOLEAN
  /\ minor \in BOOLEAN
  /\ mem \in [Devs -> {"free", "live"}]
  /\ kref \in [Devs -> Nat]
  /\ fpc \in [Files -> FileStates]
  /\ fdev \in [Files -> Devs \cup {NoDev}]

Init ==
  /\ driver = "out"
  /\ bus = "idle"
  /\ busdev = NoDev
  /\ intfdata = NoDev
  /\ unplugged = FALSE
  /\ minor = FALSE
  /\ mem = [d \in Devs |-> "free"]
  /\ kref = [d \in Devs |-> 0]
  /\ fpc = [f \in Files |-> "closed"]
  /\ fdev = [f \in Files |-> NoDev]

(***************************************************************************)
(* kref                                                                    *)
(***************************************************************************)

KrefGet(d) ==
  /\ kref' = [kref EXCEPT ![d] = @ + 1]
  /\ UNCHANGED mem

(* kref_put(&dev->kref, stm32leds_delete) *)
KrefPut(d) ==
  /\ kref' = [kref EXCEPT ![d] = @ - 1]
  /\ mem' = IF kref[d] = 1 THEN [mem EXCEPT ![d] = "free"] ELSE mem

(***************************************************************************)
(* The module                                                              *)
(***************************************************************************)

DriverInit ==
  /\ driver = "out"
  /\ driver' = "in"
  /\ UNCHANGED <<busVars, memVars, fileVars>>

(* rmmod succeeds only while no file holds stm32leds_fops.owner; from then *)
(* on usb_open() fails and usb_deregister() unbinds what is bound.         *)
DriverExit ==
  /\ driver = "in"
  /\ \A f \in Files : fpc[f] = "closed"
  /\ driver' = "going"
  /\ UNCHANGED <<busVars, memVars, fileVars>>

DriverGone ==
  /\ driver = "going"
  /\ bus = "idle"
  /\ driver' = "out"
  /\ UNCHANGED <<busVars, memVars, fileVars>>

(***************************************************************************)
(* stm32leds_probe                                                         *)
(***************************************************************************)

(* Wrong variant: kref_init() is forgotten, kzalloc() left a 0 there. *)
ProbeAllocNoKrefInit(d) ==
  /\ driver = "in"
  /\ bus = "idle"
  /\ mem[d] = "free"
  /\ bus' = "probing"
  /\ busdev' = d
  /\ mem' = [mem EXCEPT ![d] = "live"]
  /\ UNCHANGED <<driver, intfdata, unplugged, minor, kref, fileVars>>

(* An allocation that fails returns -ENOMEM and changes nothing. *)
ProbeAlloc(d) ==
  /\ driver = "in"
  /\ bus = "idle"
  /\ mem[d] = "free"
  /\ bus' = "probing"
  /\ busdev' = d
  /\ mem' = [mem EXCEPT ![d] = "live"]
  /\ kref' = [kref EXCEPT ![d] = 1]
  /\ UNCHANGED <<driver, intfdata, unplugged, minor, fileVars>>

(* Wrong variant: intfdata is left to be set after usb_register_dev(). *)
ProbeEndpointsLateIntfdata ==
  /\ bus = "probing"
  /\ bus' = "register"
  /\ UNCHANGED <<driver, busdev, intfdata, unplugged, minor, memVars,
                 fileVars>>

(* Both interrupt endpoints are there and int_in_buffer was allocated. *)
ProbeEndpoints ==
  /\ bus = "probing"
  /\ intfdata' = busdev
  /\ bus' = "register"
  /\ UNCHANGED <<driver, busdev, unplugged, minor, memVars, fileVars>>

(* An endpoint or int_in_buffer is missing: the error label. *)
ProbeNoEndpoints ==
  /\ bus = "probing"
  /\ KrefPut(busdev)
  /\ bus' = "idle"
  /\ busdev' = NoDev
  /\ UNCHANGED <<driver, intfdata, unplugged, minor, fileVars>>

(* The first half of usb_register_dev(): the minor becomes visible. *)
RegisterMinor ==
  /\ bus = "register"
  /\ minor' = TRUE
  /\ bus' = "devcreate"
  /\ UNCHANGED <<driver, busdev, intfdata, unplugged, memVars, fileVars>>

RegisterDone ==
  /\ bus = "devcreate"
  /\ bus' = "bound"
  /\ UNCHANGED <<driver, busdev, intfdata, unplugged, minor, memVars,
                 fileVars>>

(* No minor is free ("register"), or the device node cannot be made and    *)
(* the minor that was visible for a while has to go again.                 *)
RegisterFails ==
  /\ bus \in {"register", "devcreate"}
  /\ bus' = IF bus = "register" THEN "failed" ELSE "unmap"
  /\ UNCHANGED <<driver, busdev, intfdata, unplugged, minor, memVars,
                 fileVars>>

NobodyOpening == \A f \in Files : fpc[f] \notin {"find", "ref"}

UnmapMinor ==
  /\ bus = "unmap"
  /\ NobodyOpening
  /\ minor' = FALSE
  /\ bus' = "failed"
  /\ UNCHANGED <<driver, busdev, intfdata, unplugged, memVars, fileVars>>

(* Wrong variant: "return retval" in place of "goto error". *)
ProbeRegisterFailedLeak ==
  /\ bus = "failed"
  /\ intfdata' = NoDev
  /\ busdev' = NoDev
  /\ bus' = "idle"
  /\ UNCHANGED <<driver, unplugged, minor, memVars, fileVars>>

ProbeRegisterFailed ==
  /\ bus = "failed"
  /\ intfdata' = NoDev
  /\ KrefPut(busdev)
  /\ busdev' = NoDev
  /\ bus' = "idle"
  /\ UNCHANGED <<driver, unplugged, minor, fileVars>>

(***************************************************************************)
(* stm32leds_disconnect: on unplugging, a write to the driver's "unbind"   *)
(* file, or rmmod                                                          *)
(***************************************************************************)

(* The board is pulled out: the USB core takes the interface off the list  *)
(* usb_find_interface() searches, then calls disconnect().  The device     *)
(* lock keeps this out of probe() and disconnect().                        *)
Unplug ==
  /\ bus = "bound"
  /\ ~unplugged
  /\ unplugged' = TRUE
  /\ UNCHANGED <<driver, bus, busdev, intfdata, minor, memVars, fileVars>>

(* Wrong variant: the reference is put before the minor is given back. *)
DisconnectPutFirst ==
  /\ bus = "bound"
  /\ KrefPut(busdev)
  /\ busdev' = NoDev
  /\ intfdata' = NoDev
  /\ bus' = "cleared"
  /\ UNCHANGED <<driver, unplugged, minor, fileVars>>

DisconnectClear ==
  /\ bus = "bound"
  /\ busdev' = intfdata
  /\ intfdata' = NoDev
  /\ bus' = "cleared"
  /\ UNCHANGED <<driver, unplugged, minor, memVars, fileVars>>

(* Wrong variant: disconnect() first waits for the open files to go. *)
DisconnectWaitForFiles ==
  /\ bus = "cleared"
  /\ \A f \in Files : fpc[f] \notin {"open", "io"}
  /\ bus' = "deregister"
  /\ UNCHANGED <<driver, busdev, intfdata, unplugged, minor, memVars,
                 fileVars>>

(* usb_deregister_dev() queues for minor_rwsem ... *)
DisconnectQueue ==
  /\ bus = "cleared"
  /\ bus' = "deregister"
  /\ UNCHANGED <<driver, busdev, intfdata, unplugged, minor, memVars,
                 fileVars>>

(* ... and gets it when every open() under way has returned. *)
DisconnectDeregister ==
  /\ bus = "deregister"
  /\ NobodyOpening
  /\ minor' = FALSE
  /\ bus' = "put"
  /\ UNCHANGED <<driver, busdev, intfdata, unplugged, memVars, fileVars>>

(* Wrong variant: disconnect() leaves the freeing to the last release(). *)
DisconnectNoPut ==
  /\ bus = "put"
  /\ busdev' = NoDev
  /\ unplugged' = FALSE
  /\ bus' = "idle"
  /\ UNCHANGED <<driver, intfdata, minor, memVars, fileVars>>

DisconnectPut ==
  /\ bus = "put"
  /\ KrefPut(busdev)
  /\ busdev' = NoDev
  /\ unplugged' = FALSE
  /\ bus' = "idle"
  /\ UNCHANGED <<driver, intfdata, minor, fileVars>>

(***************************************************************************)
(* File operations                                                         *)
(***************************************************************************)

(* usb_open(): minor_rwsem is taken for reading, the minor is mapped. *)
OpenEnter(f) ==
  /\ driver = "in"
  /\ fpc[f] = "closed"
  /\ minor
  /\ bus \notin {"unmap", "deregister"}
  /\ fpc' = [fpc EXCEPT ![f] = "find"]
  /\ UNCHANGED <<driver, busVars, memVars, fdev>>

(* -ENODEV: usb_find_interface() finds no interface, or usb_get_intfdata() *)
(* of the one it finds is NULL.                                            *)
OpenNoDevice(f) ==
  /\ fpc[f] = "find"
  /\ unplugged \/ intfdata = NoDev
  /\ fpc' = [fpc EXCEPT ![f] = "closed"]
  /\ UNCHANGED <<driver, busVars, memVars, fdev>>

OpenLookup(f) ==
  /\ fpc[f] = "find"
  /\ ~unplugged /\ intfdata # NoDev
  /\ fdev' = [fdev EXCEPT ![f] = intfdata]
  /\ fpc' = [fpc EXCEPT ![f] = "ref"]
  /\ UNCHANGED <<driver, busVars, memVars>>

(* Wrong variant: private_data is set and no reference is taken. *)
OpenNoRef(f) ==
  /\ fpc[f] = "ref"
  /\ fpc' = [fpc EXCEPT ![f] = "open"]
  /\ UNCHANGED <<driver, busVars, memVars, fdev>>

(* kref_get(), private_data is set, usb_open() drops minor_rwsem. *)
OpenRef(f) ==
  /\ fpc[f] = "ref"
  /\ KrefGet(fdev[f])
  /\ fpc' = [fpc EXCEPT ![f] = "open"]
  /\ UNCHANGED <<driver, busVars, fdev>>

(* Wrong variant: after an unplug the first release() frees the device. *)
ReleaseFreesUnplugged(f) ==
  /\ fpc[f] = "open"
  /\ kref' = [kref EXCEPT ![fdev[f]] = @ - 1]
  /\ mem' = IF busdev # fdev[f] THEN [mem EXCEPT ![fdev[f]] = "free"] ELSE mem
  /\ fpc' = [fpc EXCEPT ![f] = "closed"]
  /\ fdev' = [fdev EXCEPT ![f] = NoDev]
  /\ UNCHANGED <<driver, busVars>>

Release(f) ==
  /\ fpc[f] = "open"
  /\ KrefPut(fdev[f])
  /\ fpc' = [fpc EXCEPT ![f] = "closed"]
  /\ fdev' = [fdev EXCEPT ![f] = NoDev]
  /\ UNCHANGED <<driver, busVars>>

(* read() and write() as far as the life cycle goes: between these two     *)
(* steps they use file->private_data.  StmLedsIo models what they do.      *)
IoBegin(f) ==
  /\ fpc[f] = "open"
  /\ fpc' = [fpc EXCEPT ![f] = "io"]
  /\ UNCHANGED <<driver, busVars, memVars, fdev>>

IoEnd(f) ==
  /\ fpc[f] = "io"
  /\ fpc' = [fpc EXCEPT ![f] = "open"]
  /\ UNCHANGED <<driver, busVars, memVars, fdev>>

(***************************************************************************)
(* Specification                                                           *)
(***************************************************************************)

BusStep ==
  \/ ProbeEndpoints \/ ProbeNoEndpoints
  \/ RegisterMinor \/ RegisterDone \/ RegisterFails
  \/ UnmapMinor \/ ProbeRegisterFailed
  \/ DisconnectClear \/ DisconnectQueue \/ DisconnectDeregister
  \/ DisconnectPut

OpenStep(f) == OpenNoDevice(f) \/ OpenLookup(f) \/ OpenRef(f)

Next ==
  \/ DriverInit \/ DriverExit \/ DriverGone
  \/ \E d \in Devs : ProbeAlloc(d)
  \/ Unplug \/ BusStep
  \/ \E f \in Files : OpenEnter(f) \/ OpenStep(f) \/ Release(f)
                      \/ IoBegin(f) \/ IoEnd(f)

(* The kernel's threads run on: what has entered probe(), disconnect(),    *)
(* open() or rmmod gets out again, unless it waits for minor_rwsem.  Users *)
(* owe nothing: nobody has to open, close, plug in, unplug or unload, and  *)
(* a read() or write() is not said to end here.  Who has unplugged the     *)
(* board or begun rmmod has the USB core call disconnect().                *)
Fairness ==
  /\ WF_vars(BusStep /\ bus # "bound")
  /\ WF_vars(DisconnectClear /\ (driver = "going" \/ unplugged))
  /\ WF_vars(DriverGone)
  /\ \A f \in Files : WF_vars(OpenStep(f))

Spec == Init /\ [][Next]_vars
FairSpec == Spec /\ Fairness

-----------------------------------------------------------------------------
(* Who holds a reference to d: the interface d is bound to (or being bound *)
(* to or unbound from), and each file that open() returned it to.          *)
Holders(d) ==
  {f \in Files : fpc[f] \in {"open", "io"} /\ fdev[f] = d}
    \cup (IF busdev = d THEN {Bus} ELSE {})

(* The counter in the structure is the number of references given out:     *)
(* one too many leaks the device, one too few frees it under a user.       *)
KrefExact ==
  \A d \in Devs : mem[d] = "live" => kref[d] = Cardinality(Holders(d))

(* A structure exists exactly as long as somebody holds it, across any     *)
(* number of unplug/replug rounds with files left open: neither a leak     *)
(* after the last release() nor a holder of freed memory.                  *)
LiveIffHeld == \A d \in Devs : mem[d] = "live" <=> Holders(d) # {}

(* Between reading intfdata and kref_get() open() holds nothing, so only   *)
(* the order in disconnect() (deregister first, put last) together with    *)
(* minor_rwsem keeps the structure from going away in that window.         *)
OpenRaceSafe ==
  \A f \in Files : fpc[f] = "ref" => mem[fdev[f]] = "live" /\ busdev = fdev[f]

(* open() on a mapped minor says -ENODEV only when the board is gone or    *)
(* disconnect() has begun: probe() sets intfdata before it registers, so   *)
(* an early opener never mistakes a new device for an absent one.          *)
EnodevOnlyWhenGoing ==
  [][\A f \in Files : fpc[f] = "find" /\ fpc'[f] = "closed"
        => unplugged \/ bus \in {"cleared", "deregister"}]_vars

(* Once the board is pulled out or disconnect() has begun, disconnect()    *)
(* ends although files stay open and new openers keep coming.              *)
DisconnectCompletes == (unplugged \/ bus = "cleared") ~> (bus = "idle")

(* rmmod that got past the module's reference count ends, with every       *)
(* structure given back.                                                   *)
ExitCompletes ==
  (driver = "going") ~> (driver = "out" /\ \A d \in Devs : mem[d] = "free")

(* The kref, the intfdata pointer and the open/disconnect protocol         *)
(* implement a reference-counted object.                                   *)
LiveDevs == {d \in Devs : mem[d] = "live"}
HeldBy == [d \in Devs |-> Holders(d)]
Abstract == INSTANCE RefCounted
              WITH Objs <- Devs, Users <- Files, Owner <- Bus,
                   live <- LiveDevs, holders <- HeldBy
ImplementsRefCounted == Abstract!Spec

=============================================================================
