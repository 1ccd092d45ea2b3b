----------------------------- MODULE StmLedsIo -----------------------------
(***************************************************************************)
(* read() and write() of the STM32 LEDs USB driver on top of its life      *)
(* cycle: who may touch the one input buffer of a device and when, and     *)
(* which of writer, error path and completion callback gives back the URB  *)
(* and its DMA buffer.                                                     *)
(*                                                                         *)
(* Reports of the board are numbered in the order in which they reach the  *)
(* buffer of a structure; their bytes are not modelled.  Whether a         *)
(* transfer, an allocation or a copy to or from user space succeeds is the *)
(* environment's choice, before and after disconnect().                    *)
(*                                                                         *)
(* A step with an undefined outcome (a NULL pointer followed, memory freed *)
(* twice) sets fault, and nothing that comes after it is modelled.         *)
(***************************************************************************)
EXTENDS StmLeds

CONSTANTS Urbs,        (* blocks usb_alloc_urb() may return                *)
          NoUrb,       (* the NULL pointer                                 *)
          MaxReports   (* bound: how often the button is pressed per probe *)

ASSUME IoAssumption ==
  /\ NoUrb \notin Urbs
  /\ MaxReports \in Nat

VARIABLES
  iopc,      (* per file: where its thread stands in read() or write()     *)
  mutex,     (* per structure: the files inside sysfslock                  *)
  sent,      (* per structure: how many reports have reached its buffer    *)
  inbuf,     (* per structure: the report in int_in_buffer, 0 at first     *)
  own,       (* per file: the report its own transfer brought, 0 for none  *)
  temp,      (* per file: the report in temp[] of read()                   *)
  seen,      (* per file: the last intact report read() returned           *)
  furb,      (* per file: urb of write()                                   *)
  urbref,    (* per URB: its reference counter                             *)
  dmabuf,    (* URBs whose coherent buffer is allocated                    *)
  inflight,  (* URBs the USB core has accepted and not given back          *)
  fault      (* "none" or the undefined step that was taken                *)

readVars  == <<sent, inbuf, own, temp, seen>>
writeVars == <<furb, urbref, dmabuf, inflight>>
ioVars == <<iopc, mutex, readVars, writeVars, fault>>
allVars == <<vars, ioVars>>

(* The buffer while the host controller is writing a report into it, or    *)
(* after it gave up half way.                                              *)
Torn == MaxReports + 1

ReadStates  == {"rlock", "rsubmit", "rdma", "runlock", "rcopy", "rret"}
WriteStates == {"walloc", "wbuf", "wcopy", "wlock", "wsubmit",
                "wunlock", "wfailed", "wfree", "werror"}

IoTypeOK ==
  /\ iopc \in [Files -> ReadStates \cup WriteStates \cup {"none"}]
  /\ mutex \in [Devs -> SUBSET Files]
  /\ sent \in [Devs -> 0 .. MaxReports]
  /\ inbuf \in [Devs -> 0 .. Torn]
  /\ own \in [Files -> 0 .. MaxReports]
  /\ temp \in [Files -> 0 .. Torn]
  /\ seen \in [Files -> 0 .. MaxReports]
  /\ furb \in [Files -> Urbs \cup {NoUrb}]
  /\ urbref \in [Urbs -> 0 .. 2]
  /\ dmabuf \in SUBSET Urbs
  /\ inflight \in SUBSET Urbs
  /\ fault \in {"none", "null_urb", "freed_twice"}

IoInit ==
  /\ Init
  /\ iopc = [f \in Files |-> "none"]
  /\ mutex = [d \in Devs |-> {}]
  /\ sent = [d \in Devs |-> 0]
  /\ inbuf = [d \in Devs |-> 0]
  /\ own = [f \in Files |-> 0]
  /\ temp = [f \in Files |-> 0]
  /\ seen = [f \in Files |-> 0]
  /\ furb = [f \in Files |-> NoUrb]
  /\ urbref = [u \in Urbs |-> 0]
  /\ dmabuf = {}
  /\ inflight = {}
  /\ fault = "none"

(***************************************************************************)
(* The life cycle                                                          *)
(***************************************************************************)

LifeStep ==
  \/ DriverInit \/ DriverExit \/ DriverGone
  \/ \E d \in Devs : ProbeAlloc(d)
  \/ Unplug \/ BusStep
  \/ \E f \in Files : OpenEnter(f) \/ OpenStep(f) \/ Release(f)

(* The buffer comes and goes with its structure, what a reader remembers   *)
(* with its file.                                                          *)
Life ==
  /\ LifeStep
  /\ sent' = [d \in Devs |-> IF mem'[d] = "live" THEN sent[d] ELSE 0]
  /\ inbuf' = [d \in Devs |-> IF mem'[d] = "live" THEN inbuf[d] ELSE 0]
  /\ seen' = [f \in Files |-> IF fpc'[f] = "closed" THEN 0 ELSE seen[f]]
  /\ UNCHANGED <<iopc, mutex, own, temp, writeVars, fault>>

(***************************************************************************)
(* Helpers                                                                 *)
(***************************************************************************)

Goto(f, from, to) == iopc[f] = from /\ iopc' = [iopc EXCEPT ![f] = to]

(* The system call starts at `to' with nothing in its local variables ...  *)
Enter(f, to) == IoBegin(f) /\ Goto(f, "none", to)

(* ... and returns from `from'. *)
Leave(f, from) == IoEnd(f) /\ Goto(f, from, "none")

(* file->private_data *)
dev(f) == fdev[f]

Lock(f)   == mutex[dev(f)] = {} /\ mutex' = [mutex EXCEPT ![dev(f)] = {f}]
Unlock(f) == mutex' = [mutex EXCEPT ![dev(f)] = @ \ {f}]

(***************************************************************************)
(* stm32leds_read                                                          *)
(***************************************************************************)

ReadEnter(f) ==
  /\ Enter(f, "rlock")
  /\ UNCHANGED <<mutex, readVars, writeVars, fault>>

ReadLock(f) ==
  /\ Goto(f, "rlock", "rsubmit")
  /\ Lock(f)
  /\ UNCHANGED <<vars, readVars, writeVars, fault>>

(* usb_interrupt_msg(): a report arrives in int_in_buffer ... *)
ReportStarts(f) ==
  /\ Goto(f, "rsubmit", "rdma")
  /\ sent[dev(f)] < MaxReports
  /\ inbuf' = [inbuf EXCEPT ![dev(f)] = Torn]
  /\ UNCHANGED <<vars, mutex, sent, own, temp, seen, writeVars, fault>>

(* ... and is complete: retval is 0. *)
ReportDone(f) ==
  /\ Goto(f, "rdma", "runlock")
  /\ sent' = [sent EXCEPT ![dev(f)] = @ + 1]
  /\ inbuf' = [inbuf EXCEPT ![dev(f)] = sent'[dev(f)]]
  /\ own' = [own EXCEPT ![f] = sent'[dev(f)]]
  /\ UNCHANGED <<vars, mutex, temp, seen, writeVars, fault>>

(* Wrong variant: retval is dropped, what is in the buffer is returned. *)
ReportFailsIgnored(f) ==
  /\ Goto(f, "rsubmit", "runlock") \/ Goto(f, "rdma", "runlock")
  /\ own' = [own EXCEPT ![f] = inbuf[dev(f)]]
  /\ UNCHANGED <<vars, mutex, sent, inbuf, temp, seen, writeVars, fault>>

(* The timeout, an unplug or a bus error: retval is not 0. *)
ReportFails(f) ==
  /\ Goto(f, "rsubmit", "runlock") \/ Goto(f, "rdma", "runlock")
  /\ own' = [own EXCEPT ![f] = 0]
  /\ UNCHANGED <<vars, mutex, sent, inbuf, temp, seen, writeVars, fault>>

(* Wrong variant: a failed transfer returns with the mutex held. *)
ReadUnlockOnSuccess(f) ==
  /\ Goto(f, "runlock", "rcopy")
  /\ IF own[f] # 0 THEN Unlock(f) ELSE UNCHANGED mutex
  /\ UNCHANGED <<vars, readVars, writeVars, fault>>

ReadUnlock(f) ==
  /\ Goto(f, "runlock", "rcopy")
  /\ Unlock(f)
  /\ UNCHANGED <<vars, readVars, writeVars, fault>>

(* memcpy() under the spinlock, whether the transfer succeeded or not. *)
ReadCopy(f) ==
  /\ Goto(f, "rcopy", "rret")
  /\ temp' = [temp EXCEPT ![f] = inbuf[dev(f)]]
  /\ UNCHANGED <<vars, mutex, sent, inbuf, own, seen, writeVars, fault>>

(* Wrong variant: a failed read() gives up the reference of open(). *)
ReadReturnPuts(f) ==
  /\ Goto(f, "rret", "none")
  /\ fpc' = [fpc EXCEPT ![f] = "open"]
  /\ IF own[f] = 0 THEN KrefPut(dev(f)) ELSE UNCHANGED memVars
  /\ own' = [own EXCEPT ![f] = 0]
  /\ temp' = [temp EXCEPT ![f] = 0]
  /\ UNCHANGED <<driver, busVars, fdev, mutex, sent, inbuf, seen, writeVars,
                 fault>>

(* temp[] goes to the user if the transfer succeeded; -EFAULT or the       *)
(* transfer's error otherwise.                                             *)
ReadReturn(f) ==
  /\ Leave(f, "rret")
  /\ \/ own[f] # 0 /\ temp[f] # Torn /\ seen' = [seen EXCEPT ![f] = temp[f]]
     \/ UNCHANGED seen
  /\ own' = [own EXCEPT ![f] = 0]
  /\ temp' = [temp EXCEPT ![f] = 0]
  /\ UNCHANGED <<mutex, sent, inbuf, writeVars, fault>>

(***************************************************************************)
(* stm32leds_write                                                         *)
(***************************************************************************)

UrbPut(u) == urbref' = [urbref EXCEPT ![u] = @ - 1]

WriteEnter(f) ==
  /\ Enter(f, "walloc")
  /\ UNCHANGED <<mutex, readVars, writeVars, fault>>

(* Not 10 bytes: nothing is sent, 0 is returned. *)
WriteWrongSize(f) ==
  /\ Leave(f, "walloc")
  /\ UNCHANGED <<mutex, readVars, writeVars, fault>>

WriteAllocUrb(f, u) ==
  /\ Goto(f, "walloc", "wbuf")
  /\ urbref[u] = 0
  /\ urbref' = [urbref EXCEPT ![u] = 1]
  /\ furb' = [furb EXCEPT ![f] = u]
  /\ UNCHANGED <<vars, mutex, readVars, dmabuf, inflight, fault>>

(* No URB: the error label takes urb->transfer_dma all the same. *)
WriteNoUrb(f) ==
  /\ Goto(f, "walloc", "werror")
  /\ fault' = "null_urb"
  /\ UNCHANGED <<vars, mutex, readVars, writeVars>>

WriteAllocBuf(f) ==
  /\ Goto(f, "wbuf", "wcopy")
  /\ dmabuf' = dmabuf \cup {furb[f]}
  /\ UNCHANGED <<vars, mutex, readVars, furb, urbref, inflight, fault>>

(* No buffer: the error label has only the URB to give back, freeing a     *)
(* NULL buffer twice does nothing.                                         *)
WriteNoBuf(f) ==
  /\ Leave(f, "wbuf")
  /\ UrbPut(furb[f])
  /\ furb' = [furb EXCEPT ![f] = NoUrb]
  /\ UNCHANGED <<mutex, readVars, dmabuf, inflight, fault>>

WriteCopy(f) ==
  /\ Goto(f, "wcopy", "wlock")
  /\ UNCHANGED <<vars, mutex, readVars, writeVars, fault>>

(* The user's buffer cannot be read: the error label. *)
WriteCopyFails(f) ==
  /\ Goto(f, "wcopy", "werror")
  /\ UNCHANGED <<vars, mutex, readVars, writeVars, fault>>

WriteLock(f) ==
  /\ Goto(f, "wlock", "wsubmit")
  /\ Lock(f)
  /\ UNCHANGED <<vars, readVars, writeVars, fault>>

(* usb_submit_urb() takes a reference of its own. *)
WriteSubmit(f) ==
  /\ Goto(f, "wsubmit", "wunlock")
  /\ inflight' = inflight \cup {furb[f]}
  /\ urbref' = [urbref EXCEPT ![furb[f]] = @ + 1]
  /\ UNCHANGED <<vars, mutex, readVars, furb, dmabuf, fault>>

WriteSubmitFails(f) ==
  /\ Goto(f, "wsubmit", "wfailed")
  /\ UNCHANGED <<vars, mutex, readVars, writeVars, fault>>

WriteUnlock(f) ==
  /\ Goto(f, "wunlock", "wfree") \/ Goto(f, "wfailed", "werror")
  /\ Unlock(f)
  /\ UNCHANGED <<vars, readVars, writeVars, fault>>

(* Wrong variant: the writer's reference to the URB is never dropped. *)
WriteReturnKeepsUrb(f) ==
  /\ Leave(f, "wfree")
  /\ furb' = [furb EXCEPT ![f] = NoUrb]
  /\ UNCHANGED <<mutex, readVars, urbref, dmabuf, inflight, fault>>

(* usb_free_urb(): the USB core may have given the URB back by now. *)
WriteReturn(f) ==
  /\ Leave(f, "wfree")
  /\ UrbPut(furb[f])
  /\ furb' = [furb EXCEPT ![f] = NoUrb]
  /\ UNCHANGED <<mutex, readVars, dmabuf, inflight, fault>>

(* The error label with a buffer: usb_free_coherent() and, once the URB is *)
(* put, kfree() of the same buffer.                                        *)
WriteError(f) ==
  /\ iopc[f] = "werror"
  /\ dmabuf' = dmabuf \ {furb[f]}
  /\ UrbPut(furb[f])
  /\ fault' = "freed_twice"
  /\ UNCHANGED <<vars, iopc, mutex, readVars, furb, inflight>>

(* Wrong variant: the callback drops a reference to the URB as well. *)
WriteIntCallbackPuts(u) ==
  /\ u \in inflight
  /\ inflight' = inflight \ {u}
  /\ dmabuf' = dmabuf \ {u}
  /\ urbref' = [urbref EXCEPT ![u] = @ - 2]
  /\ UNCHANGED <<vars, iopc, mutex, readVars, furb, fault>>

(* Wrong variant: the buffer is left to the writer. *)
WriteIntCallbackNoFree(u) ==
  /\ u \in inflight
  /\ inflight' = inflight \ {u}
  /\ UrbPut(u)
  /\ UNCHANGED <<vars, iopc, mutex, readVars, furb, dmabuf, fault>>

(* The USB core gives the URB back: stm32leds_write_int_callback() frees   *)
(* the buffer, then the core drops its reference.  This may overtake the   *)
(* writer anywhere after the submission.                                   *)
WriteIntCallback(u) ==
  /\ u \in inflight
  /\ inflight' = inflight \ {u}
  /\ dmabuf' = dmabuf \ {u}
  /\ UrbPut(u)
  /\ UNCHANGED <<vars, iopc, mutex, readVars, furb, fault>>

(***************************************************************************)
(* Specification                                                           *)
(***************************************************************************)

ReadStep(f) ==
  \/ ReportStarts(f) \/ ReportDone(f) \/ ReportFails(f)
  \/ ReadUnlock(f) \/ ReadCopy(f) \/ ReadReturn(f)

WriteStep(f) ==
  \/ WriteWrongSize(f) \/ \E u \in Urbs : WriteAllocUrb(f, u)
  \/ WriteNoUrb(f) \/ WriteAllocBuf(f) \/ WriteNoBuf(f)
  \/ WriteCopy(f) \/ WriteCopyFails(f)
  \/ WriteSubmit(f) \/ WriteSubmitFails(f) \/ WriteUnlock(f)
  \/ WriteReturn(f) \/ WriteError(f)

GetLock(f) == ReadLock(f) \/ WriteLock(f)

Step ==
  \/ Life
  \/ \E f \in Files : ReadEnter(f) \/ WriteEnter(f) \/ GetLock(f)
                      \/ ReadStep(f) \/ WriteStep(f)
  \/ \E u \in Urbs : WriteIntCallback(u)

(* What the kernel does after an undefined step is not modelled. *)
Halted == fault # "none" /\ UNCHANGED allVars

IoNext == (fault = "none" /\ Step) \/ Halted

(* A thread inside read() or write() runs on; usb_interrupt_msg() ends at  *)
(* the latest with its timeout, and a waiter for the mutex gets it in the  *)
(* end because mutex_unlock() hands it to the longest waiter.  Nothing     *)
(* says that a URB in flight ever comes back: an OUT transfer has no       *)
(* timeout and the board may refuse the data for as long as it likes.      *)
IoFairness ==
  \A f \in Files :
    /\ WF_allVars(fault = "none" /\ (ReadStep(f) \/ WriteStep(f)))
    /\ SF_allVars(fault = "none" /\ GetLock(f))

IoSpec == IoInit /\ [][IoNext]_allVars /\ IoFairness

-----------------------------------------------------------------------------
(* Where a writer is responsible for the buffer of its URB. *)
HasBuffer(f, u) ==
  furb[f] = u /\ iopc[f] \in {"wcopy", "wlock", "wsubmit", "wfailed", "werror"}

(* The coherent buffer of a URB has exactly one of writer and callback to  *)
(* free it while it is allocated, wherever the completion interrupt hits,  *)
(* and is allocated as long as one of them is to.                          *)
BufferOneOwner ==
  fault = "none" =>
    \A u \in Urbs :
      /\ u \in dmabuf <=> (u \in inflight \/ \E f \in Files : HasBuffer(f, u))
      /\ u \in inflight => ~ \E f \in Files : HasBuffer(f, u)
      /\ \A f, g \in Files : HasBuffer(f, u) /\ HasBuffer(g, u) => f = g

(* The reference counter of a URB is its writer plus the USB core: it goes *)
(* when both are done with it, in whichever order.                         *)
UrbRefsExact ==
  fault = "none" =>
    \A u \in Urbs :
      urbref[u] = Cardinality({f \in Files : furb[f] = u})
                    + Cardinality({u} \cap inflight)

(* Although readers overwrite each other's reports, no reader is handed    *)
(* the same press of the button twice or an older one: what a successful   *)
(* read() is about to return is newer than all it returned since open().   *)
ReadsNewReport ==
  \A f \in Files : iopc[f] = "rret" /\ own[f] # 0 => temp[f] > seen[f]

(* read() and write() return: no path leaves the mutex behind, and no one  *)
(* waits for a URB while holding it.                                       *)
IoCompletes ==
  \A f \in Files :
    (fpc[f] = "io") ~> (fpc[f] = "open" \/ fault # "none")

(* The I/O paths keep to the life cycle: file->private_data is used only   *)
(* between open() and release().                                           *)
ImplementsStmLeds == Spec

(* "protect buffer int_in_buffer from concurency access": nothing touches  *)
(* the buffer between a successful transfer and the copy out of it.        *)
BufferProtected ==
  \A f \in Files : iopc[f] = "rret" /\ own[f] # 0 => temp[f] = own[f]

(* "allocate a dma-consistent buffer for urb": what write() allocated this *)
(* way its error paths give back once.                                     *)
BufferFreedOnce == fault # "freed_twice"

=============================================================================
