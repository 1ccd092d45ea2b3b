--------------------------- MODULE StmLedsProofs ---------------------------
(***************************************************************************)
(* Proofs about StmLeds for any number of files, of any set of memory      *)
(* blocks: the counter in the structure is exact, the structure lives      *)
(* exactly as long as it is held, and open() never meets a freed one.      *)
(***************************************************************************)
EXTENDS StmLeds, FiniteSetTheorems, TLAPS

-----------------------------------------------------------------------------
(* The inductive invariant.  KrefExact and LiveIffHeld alone are not       *)
(* inductive: kref_get() in open() must hit a live structure, which needs  *)
(* OpenRaceSafe, and that rests on how the bus thread's place fixes        *)
(* intfdata, the minor and busdev.                                         *)

(* Where the bus thread stands says what it holds, what intfdata shows,    *)
(* whether the minor is mapped and whether a board may have been pulled.   *)
BusInv ==
  /\ busdev = NoDev <=> bus = "idle"
  /\ intfdata = IF bus \in {"register", "devcreate", "unmap", "failed", "bound"}
                THEN busdev ELSE NoDev
  /\ minor <=> bus \in {"devcreate", "unmap", "bound", "cleared", "deregister"}
  /\ unplugged => bus \in {"bound", "cleared", "deregister", "put"}

(* A thread in open() keeps the minor mapped, and what it has read is the  *)
(* structure the bus thread holds; an open file has a structure.           *)
FileInv ==
  \A f \in Files :
    /\ fpc[f] \in {"find", "ref"} => minor
    /\ fpc[f] = "ref" => fdev[f] = busdev
    /\ fpc[f] \in {"open", "io"} => fdev[f] # NoDev

IInv == TypeOK /\ BusInv /\ FileInv /\ KrefExact /\ LiveIffHeld

-----------------------------------------------------------------------------
(* Lemmas about the holders and the counter.                               *)

(* Finitely many files and one bus hold a structure. *)
LEMMA HoldersFinite == ASSUME NEW d PROVE IsFiniteSet(Holders(d))
<1>1. IsFiniteSet({f \in Files : fpc[f] \in {"open", "io"} /\ fdev[f] = d})
  BY StmAssumption, FS_Subset
<1>2. IsFiniteSet(IF busdev = d THEN {Bus} ELSE {})
  BY FS_EmptySet, FS_Singleton
<1> QED
  BY <1>1, <1>2, FS_Union DEF Holders

(* Neither the counters, nor the blocks, nor the holders change. *)
LEMMA SameHolders ==
  ASSUME KrefExact, LiveIffHeld, UNCHANGED memVars,
         \A d \in Devs : Holders(d)' = Holders(d)
  PROVE  KrefExact' /\ LiveIffHeld'
BY DEF KrefExact, LiveIffHeld, memVars

(* kref_get() on a live structure on behalf of a new holder x. *)
LEMMA GetHolder ==
  ASSUME TypeOK, KrefExact, LiveIffHeld,
         NEW d \in Devs, mem[d] = "live", KrefGet(d),
         NEW x, x \notin Holders(d), Holders(d)' = Holders(d) \cup {x},
         \A e \in Devs \ {d} : Holders(e)' = Holders(e)
  PROVE  KrefExact' /\ LiveIffHeld'
<1>1. Cardinality(Holders(d)') = Cardinality(Holders(d)) + 1
  <2>1. IsFiniteSet(Holders(d))
    BY HoldersFinite
  <2> QED
    BY <2>1, FS_AddElement
<1>2. kref'[d] = kref[d] + 1 /\ mem' = mem
  BY DEF KrefGet, TypeOK
<1>3. \A e \in Devs \ {d} : kref'[e] = kref[e]
  BY DEF KrefGet, TypeOK
<1> QED
  BY <1>1, <1>2, <1>3 DEF KrefExact, LiveIffHeld

(* kref_put() on behalf of the holder x. *)
LEMMA PutHolder ==
  ASSUME TypeOK, KrefExact, LiveIffHeld,
         NEW d \in Devs, KrefPut(d),
         NEW x \in Holders(d), Holders(d)' = Holders(d) \ {x},
         \A e \in Devs \ {d} : Holders(e)' = Holders(e)
  PROVE  /\ KrefExact' /\ LiveIffHeld'
         /\ kref' \in [Devs -> Nat]
         /\ mem' \in [Devs -> {"free", "live"}]
<1>1. /\ Cardinality(Holders(d)') = Cardinality(Holders(d)) - 1
      /\ Cardinality(Holders(d)) \in Nat
      /\ Cardinality(Holders(d)') \in Nat
      /\ IsFiniteSet(Holders(d)')
  BY HoldersFinite, FS_RemoveElement, FS_CardinalityType
<1>2. mem[d] = "live" /\ kref[d] = Cardinality(Holders(d))
  BY DEF KrefExact, LiveIffHeld
<1>3. kref'[d] = kref[d] - 1 /\ \A e \in Devs \ {d} : kref'[e] = kref[e]
  BY DEF KrefPut, TypeOK
<1>4. /\ mem'[d] = IF kref[d] = 1 THEN "free" ELSE "live"
      /\ \A e \in Devs \ {d} : mem'[e] = mem[e]
  BY <1>2 DEF KrefPut, TypeOK
<1>5. Holders(d)' = {} <=> kref[d] = 1
  BY <1>1, <1>2, FS_EmptySet
<1>6. KrefExact'
  BY <1>1, <1>2, <1>3, <1>4 DEF KrefExact
<1>7. LiveIffHeld'
  BY <1>4, <1>5 DEF LiveIffHeld
<1>8. kref' \in [Devs -> Nat]
  BY <1>1, <1>2 DEF KrefPut, TypeOK
<1>9. mem' \in [Devs -> {"free", "live"}]
  BY DEF KrefPut, TypeOK
<1> QED
  BY <1>6, <1>7, <1>8, <1>9

-----------------------------------------------------------------------------
(* The invariant holds initially and every step keeps it.                  *)

(* Nothing is loaded: no structure exists and nobody holds one. *)
LEMMA InitInv == Init => IInv
<1> SUFFICES ASSUME Init PROVE IInv
  OBVIOUS
<1>1. TypeOK
  BY DEF Init, TypeOK, BusStates, FileStates
<1>2. BusInv /\ FileInv
  BY DEF Init, BusInv, FileInv
<1>3. \A d \in Devs : Holders(d) = {}
  BY StmAssumption DEF Init, Holders
<1>4. KrefExact /\ LiveIffHeld
  BY <1>3 DEF Init, KrefExact, LiveIffHeld
<1> QED
  BY <1>1, <1>2, <1>4 DEF IInv

(* The steps of the module and of the USB core's thread. *)
LEMMA BusStepInv ==
  ASSUME IInv,
         \/ DriverInit \/ DriverExit \/ DriverGone
         \/ \E d \in Devs : ProbeAlloc(d)
         \/ Unplug \/ BusStep
  PROVE  IInv'
<1> USE StmAssumption DEF IInv
<1>1. ASSUME DriverInit \/ DriverExit \/ DriverGone PROVE IInv'
  <2>1. TypeOK' /\ BusInv' /\ FileInv'
    BY <1>1 DEF DriverInit, DriverExit, DriverGone, TypeOK, BusInv, FileInv,
                busVars, memVars, fileVars
  <2>2. /\ UNCHANGED memVars
        /\ \A d \in Devs : Holders(d)' = Holders(d)
    BY <1>1 DEF DriverInit, DriverExit, DriverGone, Holders,
                busVars, memVars, fileVars
  <2> QED
    BY <2>1, <2>2, SameHolders
<1>2. ASSUME NEW d \in Devs, ProbeAlloc(d) PROVE IInv'
  <2> USE DEF ProbeAlloc
  <2>1. TypeOK' /\ BusInv' /\ FileInv'
    BY <1>2 DEF TypeOK, BusInv, FileInv, BusStates, fileVars
  <2>2. Holders(d) = {} /\ busdev = NoDev
    BY <1>2 DEF LiveIffHeld, BusInv
  <2>3. Holders(d)' = {Bus} /\ \A e \in Devs \ {d} : Holders(e)' = Holders(e)
    BY <1>2, <2>2 DEF Holders, fileVars
  <2>4. Cardinality({Bus}) = 1
    BY FS_Singleton
  <2>5. KrefExact' /\ LiveIffHeld'
    BY <1>2, <2>3, <2>4 DEF KrefExact, LiveIffHeld, TypeOK
  <2> QED
    BY <2>1, <2>5
<1>3. ASSUME \/ ProbeEndpoints \/ RegisterMinor \/ RegisterDone \/ RegisterFails
             \/ UnmapMinor \/ DisconnectClear \/ DisconnectQueue
             \/ DisconnectDeregister \/ Unplug
      PROVE  IInv'
  <2> USE DEF ProbeEndpoints, RegisterMinor, RegisterDone, RegisterFails,
              UnmapMinor, DisconnectClear, DisconnectQueue,
              DisconnectDeregister, Unplug
  <2>1. busdev' = busdev
    BY <1>3 DEF BusInv
  <2>2. TypeOK'
    BY <1>3 DEF TypeOK, BusStates, memVars, fileVars
  <2>3. BusInv'
    BY <1>3, <2>1 DEF BusInv, TypeOK, BusStates
  <2>4. FileInv'
    BY <1>3, <2>1 DEF FileInv, BusInv, NobodyOpening, fileVars
  <2>5. /\ UNCHANGED memVars
        /\ \A d \in Devs : Holders(d)' = Holders(d)
    BY <1>3, <2>1 DEF Holders, memVars, fileVars
  <2> QED
    BY <2>2, <2>3, <2>4, <2>5, SameHolders
<1>4. ASSUME ProbeNoEndpoints \/ ProbeRegisterFailed \/ DisconnectPut
      PROVE  IInv'
  <2> USE DEF ProbeNoEndpoints, ProbeRegisterFailed, DisconnectPut
  <2>1. PICK d \in Devs : d = busdev
    BY <1>4 DEF BusInv, TypeOK
  <2>2. \A f \in Files : fpc[f] \notin {"find", "ref"}
    BY <1>4 DEF BusInv, FileInv
  <2>3. KrefPut(d) /\ Bus \in Holders(d)
    BY <1>4, <2>1 DEF Holders
  <2>4. Holders(d)' = Holders(d) \ {Bus}
    BY <1>4, <2>1 DEF Holders, fileVars
  <2>5. \A e \in Devs \ {d} : Holders(e)' = Holders(e)
    BY <1>4, <2>1 DEF Holders, fileVars
  <2>6. /\ KrefExact' /\ LiveIffHeld'
        /\ kref' \in [Devs -> Nat]
        /\ mem' \in [Devs -> {"free", "live"}]
    BY <2>3, <2>4, <2>5, PutHolder
  <2>7. TypeOK'
    BY <1>4, <2>6 DEF TypeOK, BusStates, fileVars
  <2>8. BusInv' /\ FileInv'
    BY <1>4, <2>2 DEF BusInv, FileInv, fileVars
  <2> QED
    BY <2>6, <2>7, <2>8
<1> QED
  BY <1>1, <1>2, <1>3, <1>4 DEF BusStep

(* The steps of a thread that uses the device file. *)
LEMMA FileStepInv ==
  ASSUME IInv, NEW f \in Files,
         \/ OpenEnter(f) \/ OpenStep(f) \/ Release(f) \/ IoBegin(f) \/ IoEnd(f)
  PROVE  IInv'
<1> USE StmAssumption DEF IInv
<1>1. ASSUME \/ OpenEnter(f) \/ OpenNoDevice(f) \/ OpenLookup(f)
             \/ IoBegin(f) \/ IoEnd(f)
      PROVE  IInv'
  <2> USE DEF OpenEnter, OpenNoDevice, OpenLookup, IoBegin, IoEnd
  <2>1. TypeOK'
    BY <1>1 DEF TypeOK, FileStates, busVars, memVars
  <2>2. BusInv'
    BY <1>1 DEF BusInv, busVars
  <2>3. FileInv'
    BY <1>1 DEF FileInv, BusInv, TypeOK, busVars
  <2>4. /\ UNCHANGED memVars
        /\ \A d \in Devs : Holders(d)' = Holders(d)
    BY <1>1 DEF Holders, TypeOK, busVars, memVars
  <2> QED
    BY <2>1, <2>2, <2>3, <2>4, SameHolders
<1>2. ASSUME OpenRef(f) PROVE IInv'
  <2>1. PICK d \in Devs : d = fdev[f] /\ busdev = d /\ f \notin Holders(d)
    BY <1>2 DEF OpenRef, FileInv, BusInv, TypeOK, Holders
  <2>2. mem[d] = "live"
    BY <2>1 DEF LiveIffHeld, Holders
  <2>3. /\ Holders(d)' = Holders(d) \cup {f}
        /\ \A e \in Devs \ {d} : Holders(e)' = Holders(e)
    BY <1>2, <2>1 DEF OpenRef, Holders, TypeOK, busVars
  <2>4. KrefGet(d)
    BY <1>2, <2>1 DEF OpenRef
  <2>5. KrefExact' /\ LiveIffHeld'
    BY <2>1, <2>2, <2>3, <2>4, GetHolder
  <2>6. TypeOK'
    BY <1>2, <2>1 DEF OpenRef, KrefGet, TypeOK, FileStates, busVars
  <2>7. BusInv' /\ FileInv'
    BY <1>2, <2>1 DEF OpenRef, BusInv, FileInv, TypeOK, busVars
  <2> QED
    BY <2>5, <2>6, <2>7
<1>3. ASSUME Release(f) PROVE IInv'
  <2>1. PICK d \in Devs : d = fdev[f] /\ f \in Holders(d)
    BY <1>3 DEF Release, FileInv, TypeOK, Holders
  <2>2. /\ Holders(d)' = Holders(d) \ {f}
        /\ \A e \in Devs \ {d} : Holders(e)' = Holders(e)
    BY <1>3, <2>1 DEF Release, Holders, TypeOK, busVars
  <2>3. KrefPut(d)
    BY <1>3, <2>1 DEF Release
  <2>4. /\ KrefExact' /\ LiveIffHeld'
        /\ kref' \in [Devs -> Nat]
        /\ mem' \in [Devs -> {"free", "live"}]
    BY <2>1, <2>2, <2>3, PutHolder
  <2>5. TypeOK'
    BY <1>3, <2>4 DEF Release, TypeOK, FileStates, busVars
  <2>6. BusInv' /\ FileInv'
    BY <1>3 DEF Release, BusInv, FileInv, TypeOK, busVars
  <2> QED
    BY <2>4, <2>5, <2>6
<1> QED
  BY <1>1, <1>2, <1>3 DEF OpenStep

(* Every step keeps the invariant. *)
LEMMA StepInv == IInv /\ [Next]_vars => IInv'
<1> SUFFICES ASSUME IInv, [Next]_vars PROVE IInv'
  OBVIOUS
<1>1. CASE UNCHANGED vars
  <2>1. TypeOK' /\ BusInv' /\ FileInv'
    BY <1>1 DEF IInv, vars, TypeOK, BusInv, FileInv
  <2>2. UNCHANGED memVars /\ \A d \in Devs : Holders(d)' = Holders(d)
    BY <1>1 DEF vars, memVars, Holders
  <2> QED
    BY <2>1, <2>2, SameHolders DEF IInv
<1>2. CASE Next
  BY <1>2, BusStepInv, FileStepInv DEF Next
<1> QED
  BY <1>1, <1>2

LEMMA Invariant == Spec => []IInv
BY InitInv, StepInv, PTL DEF Spec

-----------------------------------------------------------------------------
(* The variables keep to their types; in particular no counter goes below  *)
(* zero.                                                                   *)
THEOREM TypeCorrect == Spec => []TypeOK
BY Invariant, PTL DEF IInv

(* The counter in a live structure is the number of references to it, for  *)
(* any number of files.                                                    *)
THEOREM KrefIsExact == Spec => []KrefExact
BY Invariant, PTL DEF IInv

(* A structure is freed when the last reference goes: never under a        *)
(* holder, never later.                                                    *)
THEOREM NoLeakNoUseAfterFree == Spec => []LiveIffHeld
BY Invariant, PTL DEF IInv

(* Between reading intfdata and kref_get(), open() looks at a structure    *)
(* that the bus still holds.                                               *)
THEOREM OpenNeverRaces == Spec => []OpenRaceSafe
<1>1. IInv => OpenRaceSafe
  <2> SUFFICES ASSUME IInv, NEW f \in Files, fpc[f] = "ref"
               PROVE  mem[fdev[f]] = "live" /\ busdev = fdev[f]
    BY DEF OpenRaceSafe
  <2>1. busdev = fdev[f] /\ busdev \in Devs
    BY DEF IInv, FileInv, BusInv, TypeOK
  <2> QED
    BY <2>1 DEF IInv, LiveIffHeld, Holders
<1> QED
  BY <1>1, Invariant, PTL

(* open() on a mapped minor fails only when the board has been pulled out  *)
(* or disconnect() is under way.                                           *)
THEOREM EnodevIsHonest == Spec => EnodevOnlyWhenGoing
<1>1. IInv /\ [Next]_vars
        => [\A f \in Files : fpc[f] = "find" /\ fpc'[f] = "closed"
              => unplugged \/ bus \in {"cleared", "deregister"}]_vars
  <2> SUFFICES ASSUME IInv, Next, NEW f \in Files,
                      fpc[f] = "find", fpc'[f] = "closed"
               PROVE  unplugged \/ bus \in {"cleared", "deregister"}
    OBVIOUS
  <2>1. unplugged \/ intfdata = NoDev
    <3>1. CASE \E g \in Files : OpenNoDevice(g)
      BY <3>1 DEF OpenNoDevice
    <3>2. CASE ~ \E g \in Files : OpenNoDevice(g)
      BY <3>2 DEF Next, DriverInit, DriverExit, DriverGone, ProbeAlloc,
           BusStep, ProbeEndpoints, ProbeNoEndpoints, RegisterMinor,
           RegisterDone, RegisterFails, UnmapMinor, ProbeRegisterFailed,
           Unplug, DisconnectClear, DisconnectQueue, DisconnectDeregister,
           DisconnectPut, OpenEnter, OpenStep, OpenLookup, OpenRef, Release,
           IoBegin, IoEnd, fileVars, IInv, TypeOK
    <3> QED
      BY <3>1, <3>2
  <2>2. minor
    BY DEF IInv, FileInv
  <2> QED
    BY <2>1, <2>2 DEF IInv, BusInv, TypeOK, BusStates
<1> QED
  BY <1>1, Invariant, PTL DEF Spec, EnodevOnlyWhenGoing

-----------------------------------------------------------------------------
(* The steps as steps of RefCounted.  What the abstract specification sees *)
(* of a state is LiveDevs and HeldBy.                                      *)

(* No block changes, no holder comes or goes: a stutter. *)
LEMMA RefinesStutter ==
  ASSUME mem' = mem, \A d \in Devs : Holders(d)' = Holders(d)
  PROVE  UNCHANGED Abstract!vars
<1>1. LiveDevs' = LiveDevs
  BY DEF LiveDevs
<1>2. HeldBy' = HeldBy
  BY DEF HeldBy
<1> QED
  BY <1>1, <1>2 DEF Abstract!vars

(* A kref_put() on behalf of the holder x is a Drop. *)
LEMMA RefinesDrop ==
  ASSUME IInv, IInv', NEW d \in Devs, KrefPut(d),
         NEW x \in Holders(d), x \in Files \cup {Bus},
         Holders(d)' = Holders(d) \ {x},
         \A e \in Devs \ {d} : Holders(e)' = Holders(e)
  PROVE  Abstract!Next
<1>1. HeldBy[d] = Holders(d)
  BY DEF HeldBy
<1>2. HeldBy' = [HeldBy EXCEPT ![d] = @ \ {x}]
  BY DEF HeldBy
<1>3. \A e \in Devs \ {d} : mem'[e] = mem[e]
  BY DEF KrefPut, IInv, TypeOK
<1>4. d \in LiveDevs
  BY DEF LiveDevs, IInv, LiveIffHeld
<1>5. d \in LiveDevs' <=> HeldBy[d] # {x}
  <2>1. d \in LiveDevs' <=> Holders(d)' # {}
    BY DEF LiveDevs, IInv, LiveIffHeld
  <2> QED
    BY <2>1, <1>1
<1>6. LiveDevs' = IF HeldBy[d] = {x} THEN LiveDevs \ {d} ELSE LiveDevs
  BY <1>3, <1>4, <1>5 DEF LiveDevs
<1>7. Abstract!Drop(d, x)
  BY <1>1, <1>2, <1>6 DEF Abstract!Drop
<1> QED
  BY <1>7 DEF Abstract!Next

LEMMA StepRefines ==
  IInv /\ IInv' /\ [Next]_vars => [Abstract!Next]_(Abstract!vars)
<1> SUFFICES ASSUME IInv, IInv', [Next]_vars
             PROVE  Abstract!Next \/ UNCHANGED Abstract!vars
  OBVIOUS
<1> USE StmAssumption
<1>1. ASSUME UNCHANGED vars PROVE UNCHANGED Abstract!vars
  BY <1>1, RefinesStutter DEF vars, Holders
<1>2. ASSUME DriverInit \/ DriverExit \/ DriverGone
      PROVE  UNCHANGED Abstract!vars
  BY <1>2, RefinesStutter
     DEF DriverInit, DriverExit, DriverGone, Holders, busVars, memVars, fileVars
<1>3. ASSUME NEW d \in Devs, ProbeAlloc(d) PROVE Abstract!Create(d)
  <2>1. d \notin LiveDevs /\ LiveDevs' = LiveDevs \cup {d}
    BY <1>3 DEF ProbeAlloc, LiveDevs, IInv, TypeOK
  <2>2. Holders(d) = {} /\ busdev = NoDev
    BY <1>3 DEF ProbeAlloc, IInv, LiveIffHeld, BusInv
  <2>3. Holders(d)' = {Bus} /\ \A e \in Devs \ {d} : Holders(e)' = Holders(e)
    BY <1>3, <2>2 DEF ProbeAlloc, Holders, fileVars
  <2>4. HeldBy' = [HeldBy EXCEPT ![d] = {Bus}]
    BY <2>3 DEF HeldBy
  <2> QED
    BY <2>1, <2>4 DEF Abstract!Create
<1>4. ASSUME \/ ProbeEndpoints \/ RegisterMinor \/ RegisterDone \/ RegisterFails
             \/ UnmapMinor \/ DisconnectClear \/ DisconnectQueue
             \/ DisconnectDeregister \/ Unplug
      PROVE  UNCHANGED Abstract!vars
  <2>1. busdev' = busdev /\ UNCHANGED <<memVars, fileVars>>
    BY <1>4 DEF ProbeEndpoints, RegisterMinor, RegisterDone, RegisterFails,
         UnmapMinor, DisconnectClear, DisconnectQueue, DisconnectDeregister,
         Unplug, IInv, BusInv
  <2> QED
    BY <2>1, RefinesStutter DEF Holders, memVars, fileVars
<1>5. ASSUME ProbeNoEndpoints \/ ProbeRegisterFailed \/ DisconnectPut
      PROVE  Abstract!Next
  <2> USE DEF ProbeNoEndpoints, ProbeRegisterFailed, DisconnectPut
  <2>1. PICK d \in Devs : d = busdev
    BY <1>5 DEF IInv, BusInv, TypeOK
  <2>2. KrefPut(d) /\ Bus \in Holders(d)
    BY <1>5, <2>1 DEF Holders
  <2>3. /\ Holders(d)' = Holders(d) \ {Bus}
        /\ \A e \in Devs \ {d} : Holders(e)' = Holders(e)
    BY <1>5, <2>1 DEF Holders, fileVars
  <2> QED
    BY <2>2, <2>3, RefinesDrop
<1>6. ASSUME NEW f \in Files,
             \/ OpenEnter(f) \/ OpenNoDevice(f) \/ OpenLookup(f)
             \/ IoBegin(f) \/ IoEnd(f)
      PROVE  UNCHANGED Abstract!vars
  <2>1. mem' = mem /\ \A d \in Devs : Holders(d)' = Holders(d)
    BY <1>6 DEF OpenEnter, OpenNoDevice, OpenLookup, IoBegin, IoEnd, Holders,
                IInv, TypeOK, busVars, memVars
  <2> QED
    BY <2>1, RefinesStutter
<1>7. ASSUME NEW f \in Files, OpenRef(f) PROVE Abstract!Next
  <2>1. PICK d \in Devs : d = fdev[f] /\ busdev = d /\ f \notin Holders(d)
    BY <1>7 DEF OpenRef, IInv, FileInv, BusInv, TypeOK, Holders
  <2>2. /\ Holders(d)' = Holders(d) \cup {f}
        /\ \A e \in Devs \ {d} : Holders(e)' = Holders(e)
    BY <1>7, <2>1 DEF OpenRef, Holders, IInv, TypeOK, busVars
  <2>3. HeldBy[d] = Holders(d) /\ Bus \in Holders(d)
    BY <2>1 DEF HeldBy, Holders
  <2>4. HeldBy' = [HeldBy EXCEPT ![d] = @ \cup {f}]
    BY <2>2 DEF HeldBy
  <2>5. LiveDevs' = LiveDevs
    BY <1>7 DEF OpenRef, KrefGet, LiveDevs
  <2>6. Abstract!Acquire(d, f)
    BY <2>1, <2>3, <2>4, <2>5 DEF Abstract!Acquire
  <2> QED
    BY <2>6 DEF Abstract!Next
<1>8. ASSUME NEW f \in Files, Release(f) PROVE Abstract!Next
  <2>1. PICK d \in Devs : d = fdev[f] /\ f \in Holders(d)
    BY <1>8 DEF Release, IInv, FileInv, TypeOK, Holders
  <2>2. /\ Holders(d)' = Holders(d) \ {f}
        /\ \A e \in Devs \ {d} : Holders(e)' = Holders(e)
    BY <1>8, <2>1 DEF Release, Holders, IInv, TypeOK, busVars
  <2>3. KrefPut(d)
    BY <1>8, <2>1 DEF Release
  <2> QED
    BY <2>1, <2>2, <2>3, RefinesDrop
<1> QED
  BY <1>1, <1>2, <1>3, <1>4, <1>5, <1>6, <1>7, <1>8
     DEF Next, BusStep, OpenStep, Abstract!Next

(* kref, intfdata and the open/disconnect protocol implement a             *)
(* reference-counted object, for any number of files and memory blocks.    *)
THEOREM Refinement == Spec => ImplementsRefCounted
<1>1. Init => Abstract!Init
  <2> SUFFICES ASSUME Init PROVE Abstract!Init
    OBVIOUS
  <2>1. LiveDevs = {}
    BY DEF Init, LiveDevs
  <2>2. \A d \in Devs : Holders(d) = {}
    BY StmAssumption DEF Init, Holders
  <2> QED
    BY <2>1, <2>2 DEF HeldBy, Abstract!Init
<1> QED
  BY <1>1, StepRefines, Invariant, PTL
     DEF Spec, ImplementsRefCounted, Abstract!Spec

=============================================================================
