-------------------------- MODULE StmLedsIoProofs --------------------------
(***************************************************************************)
(* Proofs about StmLedsIo for any number of files, devices, URBs and       *)
(* button presses: read() and write() keep to the life cycle of the        *)
(* structure, every URB and its DMA buffer have one owner, and no reader   *)
(* is handed an old report.                                                *)
(***************************************************************************)
EXTENDS StmLedsIo, StmLedsProofs

-----------------------------------------------------------------------------
(* The life cycle.                                                         *)

(* Whatever read() and write() do, they do between the IoBegin and IoEnd   *)
(* of their file, and leave the rest of the life cycle alone.              *)
LEMMA StepsKeepLife == [IoNext]_allVars => [Next]_vars
<1>1. ASSUME Life PROVE Next
  BY <1>1, Zenon DEF Life, LifeStep, Next
<1>2. ASSUME NEW f \in Files, ReadEnter(f) \/ WriteEnter(f) PROVE IoBegin(f)
  BY <1>2, Zenon DEF ReadEnter, WriteEnter, Enter
<1>3. ASSUME NEW f \in Files, GetLock(f) PROVE UNCHANGED vars
  BY <1>3, Zenon DEF GetLock, ReadLock, WriteLock
<1>4. ASSUME NEW f \in Files, ReadStep(f) PROVE IoEnd(f) \/ UNCHANGED vars
  BY <1>4, Zenon DEF ReadStep, ReportStarts, ReportDone, ReportFails, ReadUnlock,
                     ReadCopy, ReadReturn, Leave
<1>5. ASSUME NEW f \in Files, WriteStep(f) PROVE IoEnd(f) \/ UNCHANGED vars
  BY <1>5, Zenon
     DEF WriteStep, WriteWrongSize, WriteAllocUrb, WriteNoUrb, WriteAllocBuf,
         WriteNoBuf, WriteCopy, WriteCopyFails, WriteSubmit, WriteSubmitFails,
         WriteUnlock, WriteReturn, WriteError, Leave
<1>6. ASSUME NEW u \in Urbs, WriteIntCallback(u) PROVE UNCHANGED vars
  BY <1>6, Zenon DEF WriteIntCallback
<1>7. UNCHANGED allVars => UNCHANGED vars
  BY Zenon DEF allVars
<1>8. Step => [Next]_vars
  BY <1>1, <1>2, <1>3, <1>4, <1>5, <1>6, Zenon DEF Step, Next
<1> QED
  BY <1>7, <1>8, Zenon DEF IoNext, Halted

(* The I/O paths implement the life cycle: file->private_data is used only *)
(* between open() and release(), whatever fails and whenever the board is  *)
(* unplugged.                                                              *)
THEOREM IoKeepsLifeCycle == IoSpec => ImplementsStmLeds
<1>1. IoInit => Init
  BY DEF IoInit
<1> QED
  BY <1>1, StepsKeepLife, PTL DEF IoSpec, ImplementsStmLeds, Spec

-----------------------------------------------------------------------------
(* The inductive invariant.                                                *)

(* A file has a place in read() or write() while it is "io".               *)
PlaceInv == \A f \in Files : iopc[f] # "none" <=> fpc[f] = "io"

(* sysfslock of the structure belongs to the file that is inside.          *)
Inside == {"rsubmit", "rdma", "runlock", "wsubmit", "wunlock", "wfailed"}

MutexInv ==
  \A f \in Files : iopc[f] \in Inside => mutex[fdev[f]] = {f}

(* What a reader has brought, has copied and has returned, compared with   *)
(* what reached the buffer: only the reports of others come in between.    *)
ReportOf(f) ==
  /\ IF fpc[f] \in {"open", "io"} THEN seen[f] <= sent[fdev[f]]
                                  ELSE seen[f] = 0
  /\ own[f] # 0 => /\ iopc[f] \in {"runlock", "rcopy", "rret"}
                   /\ seen[f] < own[f]
                   /\ own[f] <= sent[fdev[f]] /\ own[f] <= inbuf[fdev[f]]
  /\ iopc[f] = "rret" => /\ own[f] # 0 => own[f] <= temp[f]
                         /\ temp[f] <= sent[fdev[f]] \/ temp[f] = Torn
  /\ iopc[f] = "rdma" => sent[fdev[f]] < MaxReports

ReportInv ==
  /\ \A d \in Devs : inbuf[d] <= sent[d] \/ inbuf[d] = Torn
  /\ \A f \in Files : ReportOf(f)

(* A writer has a URB from its allocation to its return, and no other      *)
(* writer has the same; the counter says who has it, and a URB in flight   *)
(* belongs to nobody or to a writer that is past the submission.           *)
WithUrb == {"wbuf", "wcopy", "wlock", "wsubmit", "wunlock", "wfailed",
            "wfree", "werror"}

WriterInv ==
  /\ \A f \in Files : furb[f] # NoUrb <=> iopc[f] \in WithUrb
  /\ \A f, g \in Files : furb[f] = furb[g] /\ furb[f] # NoUrb => f = g

UrbOf(u) ==
  /\ urbref[u] = (IF \E f \in Files : furb[f] = u THEN 1 ELSE 0)
                   + (IF u \in inflight THEN 1 ELSE 0)
  /\ u \in inflight =>
       \A f \in Files : furb[f] = u => iopc[f] \in {"wunlock", "wfree"}
  /\ u \in dmabuf <=> (u \in inflight \/ \E f \in Files : HasBuffer(f, u))

UrbInv == WriterInv /\ \A u \in Urbs : UrbOf(u)

UrbTypes ==
  /\ furb \in [Files -> Urbs \cup {NoUrb}]
  /\ urbref \in [Urbs -> 0 .. 2]
  /\ dmabuf \in SUBSET Urbs
  /\ inflight \in SUBSET Urbs
  /\ fault \in {"none", "null_urb", "freed_twice"}

IoInv == /\ IInv /\ IoTypeOK /\ PlaceInv /\ MutexInv /\ ReportInv
         /\ fault = "none" => UrbInv

-----------------------------------------------------------------------------
(* Lemmas about files and structures.                                      *)

(* A file inside read() or write() has a structure, and it is live.        *)
LEMMA IoFileFacts ==
  ASSUME IInv, NEW f \in Files, fpc[f] \in {"open", "io"}
  PROVE  fdev[f] \in Devs /\ mem[fdev[f]] = "live"
<1>1. fdev[f] \in Devs
  BY DEF IInv, TypeOK, FileInv
<1>2. f \in Holders(fdev[f])
  BY DEF Holders
<1> QED
  BY <1>1, <1>2 DEF IInv, LiveIffHeld

(* What the life cycle does to a file; one inside read() or write() stays  *)
(* as it is.                                                               *)
LEMMA LifeFiles ==
  ASSUME IInv, LifeStep, NEW f \in Files
  PROVE  \/ fpc'[f] = fpc[f] /\ fdev'[f] = fdev[f]
         \/ fpc[f] \in {"closed", "find"} /\ fpc'[f] \in {"closed", "find", "ref"}
         \/ fpc[f] = "ref" /\ fpc'[f] = "open"
         \/ fpc[f] = "open" /\ fpc'[f] = "closed"
<1>0. fpc \in [Files -> FileStates] /\ fdev \in [Files -> Devs \cup {NoDev}]
  BY DEF IInv, TypeOK
<1>1. CASE \/ DriverInit \/ DriverExit \/ DriverGone
           \/ (\E d \in Devs : ProbeAlloc(d)) \/ Unplug \/ BusStep
  <2>1. fpc' = fpc /\ fdev' = fdev
    BY <1>1, Zenon
       DEF DriverInit, DriverExit, DriverGone, ProbeAlloc, BusStep,
           ProbeEndpoints, ProbeNoEndpoints, RegisterMinor, RegisterDone,
           RegisterFails, UnmapMinor, ProbeRegisterFailed, Unplug, DisconnectClear,
           DisconnectQueue, DisconnectDeregister, DisconnectPut, fileVars
  <2> QED
    BY <2>1
<1>2. ASSUME NEW g \in Files, OpenEnter(g) \/ OpenStep(g) \/ Release(g)
      PROVE  \/ fpc'[f] = fpc[f] /\ fdev'[f] = fdev[f]
             \/ fpc[f] \in {"closed", "find"} /\ fpc'[f] \in {"closed", "find", "ref"}
             \/ fpc[f] = "ref" /\ fpc'[f] = "open"
             \/ fpc[f] = "open" /\ fpc'[f] = "closed"
  <2>1. /\ fdev' = fdev \/ fdev' = [fdev EXCEPT ![g] = fdev'[g]]
        /\ \/ fpc[g] = "closed" /\ fpc' = [fpc EXCEPT ![g] = "find"]
           \/ /\ fpc[g] = "find"
              /\ \E p \in {"closed", "ref"} : fpc' = [fpc EXCEPT ![g] = p]
           \/ fpc[g] = "ref" /\ fpc' = [fpc EXCEPT ![g] = "open"]
           \/ fpc[g] = "open" /\ fpc' = [fpc EXCEPT ![g] = "closed"]
    BY <1>0, <1>2 DEF OpenEnter, OpenStep, OpenNoDevice, OpenLookup, OpenRef,
                       Release
  <2> QED
    BY <1>0, <2>1
<1> QED
  BY <1>1, <1>2 DEF LifeStep

-----------------------------------------------------------------------------
(* The invariant holds initially and every step keeps it.                  *)

(* The invariant of the life cycle goes over from StmLedsProofs.           *)
LEMMA LifeInv == IInv /\ [IoNext]_allVars => IInv'
BY StepsKeepLife, StepInv

(* No file is open, no URB exists.                                         *)
LEMMA IoInitInv == IoInit => IoInv
<1> SUFFICES ASSUME IoInit PROVE IoInv
  OBVIOUS
<1>1. IInv /\ \A f \in Files : fpc[f] = "closed"
  BY InitInv DEF IoInit, Init
<1>2. IoTypeOK
  BY IoAssumption DEF IoInit, IoTypeOK, Torn
<1>3. PlaceInv /\ MutexInv /\ ReportInv
  BY <1>1 DEF IoInit, PlaceInv, MutexInv, Inside, ReportInv, ReportOf
<1>4. UrbInv
  BY IoAssumption DEF IoInit, UrbInv, WriterInv, UrbOf, WithUrb, HasBuffer
<1> QED
  BY <1>1, <1>2, <1>3, <1>4 DEF IoInv

(* The life cycle: what is inside read() or write() is not disturbed, and  *)
(* no structure in use loses its buffer.                                   *)
LEMMA LifeStepInv ==
  ASSUME IoInv, fault = "none", Life, IInv' PROVE IoInv'
<1>0. IInv /\ IoTypeOK /\ PlaceInv /\ MutexInv /\ ReportInv /\ UrbInv
  BY DEF IoInv
<1>1. /\ sent' = [d \in Devs |-> IF mem'[d] = "live" THEN sent[d] ELSE 0]
      /\ inbuf' = [d \in Devs |-> IF mem'[d] = "live" THEN inbuf[d] ELSE 0]
      /\ seen' = [f \in Files |-> IF fpc'[f] = "closed" THEN 0 ELSE seen[f]]
      /\ iopc' = iopc /\ mutex' = mutex /\ own' = own /\ temp' = temp
      /\ furb' = furb /\ urbref' = urbref /\ dmabuf' = dmabuf
      /\ inflight' = inflight /\ fault' = fault
  BY DEF Life, writeVars
<1>2. ASSUME NEW f \in Files
      PROVE  \/ fpc'[f] = fpc[f] /\ fdev'[f] = fdev[f]
             \/ fpc[f] \in {"closed", "find"} /\ fpc'[f] \in {"closed", "find", "ref"}
             \/ fpc[f] = "ref" /\ fpc'[f] = "open"
             \/ fpc[f] = "open" /\ fpc'[f] = "closed"
  BY <1>0, LifeFiles DEF Life
<1>3. IoTypeOK'
  BY <1>0, <1>1, IoAssumption DEF IoTypeOK, Torn
<1>4. PlaceInv'
  BY <1>0, <1>1, <1>2 DEF PlaceInv
<1>5. MutexInv'
  BY <1>0, <1>1, <1>2 DEF PlaceInv, MutexInv, Inside
<1>6. ReportInv'
  <2>1. ASSUME NEW f \in Files, fpc'[f] \in {"open", "io"}
        PROVE  sent'[fdev'[f]] = sent[fdev'[f]] /\ inbuf'[fdev'[f]] = inbuf[fdev'[f]]
    <3>1. fdev'[f] \in Devs
      BY <2>1 DEF IInv, TypeOK, FileInv
    <3>2. mem'[fdev'[f]] = "live"
      <4>1. f \in Holders(fdev[f])'
        BY <2>1 DEF Holders
      <4> QED
        BY <3>1, <4>1 DEF IInv, LiveIffHeld
    <3> QED
      BY <1>1, <3>1, <3>2
  <2>2. \A d \in Devs : (inbuf[d] <= sent[d] \/ inbuf[d] = Torn)'
    BY <1>0, <1>1 DEF ReportInv, ReportOf, Torn
  <2>3. ASSUME NEW f \in Files, fpc[f] = "io"
        PROVE  /\ fpc'[f] = "io" /\ fdev'[f] = fdev[f] /\ seen'[f] = seen[f]
               /\ sent'[fdev'[f]] = sent[fdev[f]]
               /\ inbuf'[fdev'[f]] = inbuf[fdev[f]]
    BY <1>1, <1>2, <2>1, <2>3
  <2>4. ASSUME NEW f \in Files
        PROVE  IF fpc'[f] \in {"open", "io"} THEN seen'[f] <= sent'[fdev'[f]]
                                            ELSE seen'[f] = 0
    <3>1. CASE fpc'[f] \in {"open", "io"}
      <4>0. seen'[f] = seen[f] /\ sent'[fdev'[f]] = sent[fdev'[f]]
        BY <1>1, <2>1, <3>1
      <4>1. sent[fdev'[f]] \in Nat
        <5>1. fdev'[f] \in Devs
          BY <3>1 DEF IInv, TypeOK, FileInv
        <5> QED
          BY <1>0, <5>1, IoAssumption DEF IoTypeOK
      <4>2. \/ fpc'[f] = fpc[f] /\ fdev'[f] = fdev[f]
            \/ fpc[f] = "ref"
        BY <1>2, <3>1
      <4> QED
        BY <1>0, <3>1, <4>0, <4>1, <4>2 DEF ReportInv, ReportOf
    <3>2. CASE fpc'[f] \notin {"open", "io"}
      BY <1>0, <1>1, <1>2, <3>2 DEF ReportInv, ReportOf
    <3> QED
      BY <3>1, <3>2
  <2>5. ASSUME NEW f \in Files
        PROVE  (/\ own[f] # 0 => /\ iopc[f] \in {"runlock", "rcopy", "rret"}
                                 /\ seen[f] < own[f]
                                 /\ own[f] <= sent[fdev[f]] /\ own[f] <= inbuf[fdev[f]]
                /\ iopc[f] = "rret" =>
                     /\ own[f] # 0 => own[f] <= temp[f]
                     /\ temp[f] <= sent[fdev[f]] \/ temp[f] = Torn
                /\ iopc[f] = "rdma" => sent[fdev[f]] < MaxReports)'
    <3>1. CASE fpc[f] = "io"
      BY <1>0, <1>1, <2>3, <3>1 DEF ReportInv, ReportOf, Torn
    <3>2. CASE fpc[f] # "io"
      BY <1>0, <1>1, <3>2 DEF ReportInv, ReportOf, PlaceInv
    <3> QED
      BY <3>1, <3>2
  <2> QED
    BY <2>2, <2>4, <2>5 DEF ReportInv, ReportOf
<1>7. UrbInv'
  BY <1>0, <1>1 DEF UrbInv, WriterInv, UrbOf, HasBuffer
<1> QED
  BY <1>3, <1>4, <1>5, <1>6, <1>7 DEF IoInv

-----------------------------------------------------------------------------
(* read() and write(): where their threads go.                             *)

(* A step of read() moves its own file only, stays within read(), and      *)
(* touches no URB.                                                         *)
LEMMA ReadMoves ==
  ASSUME IInv, IoTypeOK, PlaceInv, NEW f \in Files,
         ReadEnter(f) \/ ReadLock(f) \/ ReadStep(f)
  PROVE  /\ iopc[f] \in ReadStates \cup {"none"}
         /\ iopc'[f] \in ReadStates \cup {"none"}
         /\ iopc' = [iopc EXCEPT ![f] = iopc'[f]]
         /\ fpc' = [fpc EXCEPT ![f] = IF iopc'[f] = "none" THEN "open" ELSE "io"]
         /\ fdev' = fdev
         /\ UNCHANGED <<writeVars, fault>>
<1>0. iopc \in [Files -> ReadStates \cup WriteStates \cup {"none"}]
  BY DEF IoTypeOK
<1>1. fpc \in [Files -> FileStates]
  BY DEF IInv, TypeOK
<1>2. iopc[f] # "none" => fpc[f] = "io"
  BY DEF PlaceInv
<1>3. UNCHANGED <<writeVars, fault>>
  BY Zenon DEF ReadEnter, ReadLock, ReadStep, ReportStarts, ReportDone, ReportFails,
               ReadUnlock, ReadCopy, ReadReturn
<1>4. CASE ReadEnter(f)
  BY <1>0, <1>1, <1>3, <1>4 DEF ReadEnter, Enter, IoBegin, Goto, ReadStates
<1>5. CASE ReadReturn(f)
  BY <1>0, <1>1, <1>3, <1>5 DEF ReadReturn, Leave, IoEnd, Goto, ReadStates
<1>6. CASE \/ ReadLock(f) \/ ReportStarts(f) \/ ReportDone(f) \/ ReportFails(f)
           \/ ReadUnlock(f) \/ ReadCopy(f)
  <2>1. fpc' = fpc /\ fdev' = fdev
    BY <1>6 DEF ReadLock, ReportStarts, ReportDone, ReportFails, ReadUnlock,
                ReadCopy, vars
  <2>2. /\ iopc[f] \in ReadStates
        /\ \E p \in ReadStates : iopc' = [iopc EXCEPT ![f] = p]
    BY <1>6 DEF ReadLock, ReportStarts, ReportDone, ReportFails, ReadUnlock,
                ReadCopy, Goto, ReadStates
  <2> QED
    BY <1>0, <1>1, <1>2, <1>3, <2>1, <2>2 DEF ReadStates
<1> QED
  BY <1>4, <1>5, <1>6 DEF ReadStep

(* A step of write() moves its own file only, stays within write(), and    *)
(* touches neither the buffer of the structure nor what readers have.      *)
LEMMA WriteMoves ==
  ASSUME IInv, IoTypeOK, PlaceInv, NEW f \in Files,
         WriteEnter(f) \/ WriteLock(f) \/ WriteStep(f)
  PROVE  /\ fpc[f] \in {"open", "io"}
         /\ iopc[f] \in WriteStates \cup {"none"}
         /\ iopc'[f] \in WriteStates \cup {"none"}
         /\ iopc' = [iopc EXCEPT ![f] = iopc'[f]]
         /\ fpc' = [fpc EXCEPT ![f] = IF iopc'[f] = "none" THEN "open" ELSE "io"]
         /\ fdev' = fdev
         /\ UNCHANGED readVars
<1>0. iopc \in [Files -> ReadStates \cup WriteStates \cup {"none"}]
  BY DEF IoTypeOK
<1>1. fpc \in [Files -> FileStates]
  BY DEF IInv, TypeOK
<1>2. iopc[f] # "none" => fpc[f] = "io"
  BY DEF PlaceInv
<1>3. UNCHANGED readVars
  BY Zenon DEF WriteEnter, WriteLock, WriteStep, WriteWrongSize, WriteAllocUrb,
               WriteNoUrb, WriteAllocBuf, WriteNoBuf, WriteCopy, WriteCopyFails,
               WriteSubmit, WriteSubmitFails, WriteUnlock, WriteReturn, WriteError
<1>4. CASE WriteEnter(f)
  BY <1>0, <1>1, <1>3, <1>4 DEF WriteEnter, Enter, IoBegin, Goto, WriteStates
<1>5. CASE WriteWrongSize(f) \/ WriteNoBuf(f) \/ WriteReturn(f)
  BY <1>0, <1>1, <1>3, <1>5
     DEF WriteWrongSize, WriteNoBuf, WriteReturn, Leave, IoEnd, Goto, WriteStates
<1>6. CASE \/ WriteLock(f) \/ (\E u \in Urbs : WriteAllocUrb(f, u))
           \/ WriteNoUrb(f) \/ WriteAllocBuf(f) \/ WriteCopy(f)
           \/ WriteCopyFails(f) \/ WriteSubmit(f) \/ WriteSubmitFails(f)
           \/ WriteUnlock(f) \/ WriteError(f)
  <2>1. fpc' = fpc /\ fdev' = fdev
    BY <1>6 DEF WriteLock, WriteAllocUrb, WriteNoUrb, WriteAllocBuf, WriteCopy,
                WriteCopyFails, WriteSubmit, WriteSubmitFails, WriteUnlock,
                WriteError, vars
  <2>2. /\ iopc[f] \in WriteStates
        /\ \E p \in WriteStates : iopc' = [iopc EXCEPT ![f] = p]
    BY <1>0, <1>6
       DEF WriteLock, WriteAllocUrb, WriteNoUrb, WriteAllocBuf, WriteCopy,
           WriteCopyFails, WriteSubmit, WriteSubmitFails, WriteUnlock,
           WriteError, Goto, WriteStates
  <2> QED
    BY <1>0, <1>1, <1>2, <1>3, <2>1, <2>2 DEF WriteStates
<1> QED
  BY <1>4, <1>5, <1>6 DEF WriteStep

(* The mutex belongs to the file inside, whichever call of which file took *)
(* or gave it.                                                             *)
LEMMA MutexKept ==
  ASSUME IInv, IoTypeOK, PlaceInv, MutexInv, NEW f \in Files, fdev' = fdev,
         iopc' = [iopc EXCEPT ![f] = iopc'[f]],
         iopc[f] # "none" \/ iopc'[f] \notin Inside,
         \/ mutex' = mutex /\ (iopc'[f] \in Inside => iopc[f] \in Inside)
         \/ Lock(f)
         \/ Unlock(f) /\ iopc[f] \in Inside /\ iopc'[f] \notin Inside
  PROVE  MutexInv'
<1>0. mutex \in [Devs -> SUBSET Files]
  BY DEF IoTypeOK
<1>1. iopc \in [Files -> ReadStates \cup WriteStates \cup {"none"}]
  BY DEF IoTypeOK
<1>2. \A g \in Files : iopc[g] # "none" => fdev[g] \in Devs
  BY IoFileFacts DEF PlaceInv
<1>3. SUFFICES ASSUME NEW g \in Files, iopc'[g] \in Inside
               PROVE  mutex'[fdev[g]] = {g}
  BY DEF MutexInv
<1>4. g # f => iopc[g] \in Inside /\ mutex[fdev[g]] = {g}
  BY <1>1, <1>3 DEF MutexInv
<1>5. fdev[g] \in Devs
  BY <1>2, <1>3, <1>4 DEF Inside
<1>6. CASE mutex' = mutex /\ (iopc'[f] \in Inside => iopc[f] \in Inside)
  BY <1>3, <1>4, <1>6 DEF MutexInv
<1>7. CASE Lock(f)
  BY <1>0, <1>4, <1>5, <1>7 DEF Lock, dev
<1>8. CASE Unlock(f) /\ iopc[f] \in Inside /\ iopc'[f] \notin Inside
  <2>1. mutex[fdev[f]] = {f} /\ g # f
    BY <1>3, <1>8 DEF MutexInv
  <2>2. fdev[g] # fdev[f]
    BY <1>4, <2>1
  <2> QED
    BY <1>0, <1>4, <1>5, <1>8, <2>1, <2>2 DEF Unlock, dev
<1> QED
  BY <1>6, <1>7, <1>8

(* A step of read() keeps the invariant: its own report is the newest when *)
(* it arrives, and those of other readers are newer still.                 *)
LEMMA ReadStepInv ==
  ASSUME IoInv, fault = "none", IInv', NEW f \in Files,
         ReadEnter(f) \/ ReadLock(f) \/ ReadStep(f)
  PROVE  IoInv'
<1>0. IInv /\ IoTypeOK /\ PlaceInv /\ MutexInv /\ ReportInv /\ UrbInv
  BY DEF IoInv
<1>1. /\ iopc[f] \in ReadStates \cup {"none"}
      /\ iopc'[f] \in ReadStates \cup {"none"}
      /\ iopc' = [iopc EXCEPT ![f] = iopc'[f]]
      /\ fpc' = [fpc EXCEPT ![f] = IF iopc'[f] = "none" THEN "open" ELSE "io"]
      /\ fdev' = fdev
      /\ furb' = furb /\ urbref' = urbref /\ dmabuf' = dmabuf
      /\ inflight' = inflight /\ fault' = fault
  BY <1>0, ReadMoves DEF writeVars
<1>2. /\ iopc \in [Files -> ReadStates \cup WriteStates \cup {"none"}]
      /\ fpc \in [Files -> FileStates]
      /\ sent \in [Devs -> 0 .. MaxReports]
      /\ inbuf \in [Devs -> 0 .. Torn]
      /\ own \in [Files -> 0 .. MaxReports]
      /\ temp \in [Files -> 0 .. Torn]
      /\ seen \in [Files -> 0 .. MaxReports]
      /\ MaxReports \in Nat /\ Torn = MaxReports + 1
  BY <1>0, IoAssumption DEF IoTypeOK, IInv, TypeOK, Torn
<1>3. PlaceInv'
  BY <1>0, <1>1, <1>2 DEF PlaceInv
<1>4. MutexInv'
  <2>1. \/ mutex' = mutex /\ (iopc'[f] \in Inside => iopc[f] \in Inside)
        \/ Lock(f)
        \/ Unlock(f) /\ iopc[f] \in Inside /\ iopc'[f] \notin Inside
    BY <1>2 DEF ReadEnter, ReadLock, ReadStep, ReportStarts, ReportDone, ReportFails,
           ReadUnlock, ReadCopy, ReadReturn, Enter, Leave, Goto, Inside
  <2>2. iopc[f] # "none" \/ iopc'[f] \notin Inside
    BY <1>2 DEF ReadEnter, ReadLock, ReadStep, ReportStarts, ReportDone, ReportFails,
           ReadUnlock, ReadCopy, ReadReturn, Enter, Leave, Goto, Inside
  <2> QED
    BY <1>0, <1>1, <2>1, <2>2, MutexKept
<1>5. UrbInv'
  <2>1. \A g \in Files : (iopc'[g] \in WithUrb <=> iopc[g] \in WithUrb)
                       /\ \A p \in WithUrb : (iopc'[g] = p <=> iopc[g] = p)
    BY <1>1, <1>2 DEF WithUrb, ReadStates
  <2>2. \A g \in Files, u \in Urbs : HasBuffer(g, u)' <=> HasBuffer(g, u)
    BY <1>1, <2>1 DEF HasBuffer, WithUrb
  <2>3. \A g \in Files : iopc'[g] \in {"wunlock", "wfree"}
                       <=> iopc[g] \in {"wunlock", "wfree"}
    BY <2>1 DEF WithUrb
  <2> QED
    BY <1>0, <1>1, <2>1, <2>2, <2>3 DEF UrbInv, WriterInv, UrbOf
<1>6. iopc[f] # "none" => fdev[f] \in Devs
  BY <1>0, IoFileFacts DEF PlaceInv
<1>7. /\ mutex' \in [Devs -> SUBSET Files]
      /\ iopc' \in [Files -> ReadStates \cup WriteStates \cup {"none"}]
  <2>1. mutex' = mutex \/ Lock(f) \/ Unlock(f)
    BY DEF ReadEnter, ReadLock, ReadStep, ReportStarts, ReportDone, ReportFails,
           ReadUnlock, ReadCopy, ReadReturn
  <2> QED
    BY <1>0, <1>1, <1>2, <2>1 DEF IoTypeOK, Lock, Unlock
<1>8. ASSUME NEW g \in Files, g # f
      PROVE  iopc'[g] = iopc[g] /\ fpc'[g] = fpc[g] /\ fdev'[g] = fdev[g]
  BY <1>1, <1>2, <1>8
<1>9. /\ sent' \in [Devs -> 0 .. MaxReports] /\ inbuf' \in [Devs -> 0 .. Torn]
      /\ own' \in [Files -> 0 .. MaxReports] /\ temp' \in [Files -> 0 .. Torn]
      /\ seen' \in [Files -> 0 .. MaxReports] /\ ReportInv'
  <2>1. CASE ReadEnter(f)
    BY <1>0, <1>1, <1>2, <1>8, <2>1
       DEF ReadEnter, Enter, Goto, IoBegin, readVars, ReportInv, ReportOf
  <2>2. CASE ReadLock(f) \/ ReadUnlock(f)
    BY <1>0, <1>1, <1>2, <1>8, <2>2
       DEF ReadLock, ReadUnlock, Goto, readVars, vars, ReportInv, ReportOf
  <2>3. CASE ReportStarts(f)
    BY <1>0, <1>1, <1>2, <1>6, <1>8, <2>3
       DEF ReportStarts, Goto, dev, vars, ReportInv, ReportOf
  <2>4. CASE ReportDone(f)
    <3>1. /\ iopc[f] = "rdma" /\ iopc'[f] = "runlock" /\ fdev[f] \in Devs
          /\ fpc' = fpc /\ temp' = temp /\ seen' = seen
      BY <1>1, <1>2, <1>6, <2>4 DEF ReportDone, Goto, vars
    <3>2. PICK n \in 1 .. MaxReports : n = sent[fdev[f]] + 1
      <4>1. sent[fdev[f]] < MaxReports /\ sent[fdev[f]] \in 0 .. MaxReports
        BY <1>0, <1>2, <3>1 DEF ReportInv, ReportOf
      <4> QED
        BY <1>2, <4>1
    <3>3. /\ sent' = [sent EXCEPT ![fdev[f]] = n]
          /\ inbuf' = [inbuf EXCEPT ![fdev[f]] = n]
          /\ own' = [own EXCEPT ![f] = n]
      BY <1>2, <2>4, <3>1, <3>2 DEF ReportDone, dev
    <3>4. sent' \in [Devs -> 0 .. MaxReports] /\ own' \in [Files -> 0 .. MaxReports]
      <4>1. n \in 0 .. MaxReports
        BY <1>2, <3>2
      <4>2. sent' \in [Devs -> 0 .. MaxReports]
        BY <1>2, <3>3, <4>1
      <4>3. own' \in [Files -> 0 .. MaxReports]
        BY <1>2, <3>3, <4>1
      <4> QED
        BY <4>2, <4>3
    <3>5. inbuf' \in [Devs -> 0 .. Torn]
      <4>1. n \in 0 .. Torn
        BY <1>2, <3>2
      <4> QED
        BY <1>2, <3>3, <4>1
    <3>6. \A d \in Devs : IF d = fdev[f] THEN /\ sent'[d] = n /\ inbuf'[d] = n
                                             /\ sent[d] < n
                                        ELSE sent'[d] = sent[d] /\ inbuf'[d] = inbuf[d]
      BY <1>2, <3>1, <3>2, <3>3
    <3>7. \A d \in Devs : inbuf'[d] <= sent'[d] \/ inbuf'[d] = Torn
      BY <1>0, <3>2, <3>6 DEF ReportInv
    <3>8. ReportOf(f)'
      <4>1. fpc[f] = "io" /\ seen[f] <= sent[fdev[f]] /\ seen[f] \in Nat
        BY <1>0, <1>2, <3>1 DEF PlaceInv, ReportInv, ReportOf
      <4>2. seen[f] < n /\ sent'[fdev[f]] = n /\ inbuf'[fdev[f]] = n /\ own'[f] = n
        BY <1>2, <3>1, <3>2, <3>3, <3>6, <4>1
      <4> QED
        BY <1>1, <3>1, <3>2, <4>1, <4>2 DEF ReportOf
    <3>9. ASSUME NEW g \in Files, g # f PROVE ReportOf(g)'
      <4>1. /\ iopc'[g] = iopc[g] /\ fpc'[g] = fpc[g] /\ fdev'[g] = fdev[g]
            /\ temp'[g] = temp[g] /\ seen'[g] = seen[g] /\ own'[g] = own[g]
        BY <1>2, <1>8, <3>1, <3>3, <3>9
      <4>2. ReportOf(g)
        BY <1>0 DEF ReportInv
      <4>3. CASE fpc[g] \notin {"open", "io"}
        BY <1>0, <3>9, <4>1, <4>2, <4>3 DEF ReportOf, PlaceInv
      <4>4. CASE fpc[g] \in {"open", "io"}
        <5>1. fdev[g] \in Devs
          BY <1>0, <4>4, IoFileFacts
        <5>2. CASE fdev[g] = fdev[f]
          <6>1. \A k \in Nat : k <= sent[fdev[g]] => k <= n
            BY <1>2, <3>1, <3>2, <5>2
          <6>2. own[g] \in Nat /\ seen[g] \in Nat /\ temp[g] \in Nat
            BY <1>2
          <6>3. iopc[g] # "rdma"
            BY <1>0, <3>1, <3>9, <5>2 DEF MutexInv, Inside
          <6> QED
            BY <3>6, <4>1, <4>2, <4>4, <5>1, <5>2, <6>1, <6>2, <6>3 DEF ReportOf
        <5>3. CASE fdev[g] # fdev[f]
          BY <3>6, <4>1, <4>2, <5>1, <5>3 DEF ReportOf
        <5> QED
          BY <5>2, <5>3
      <4> QED
        BY <4>3, <4>4
    <3> QED
      BY <1>2, <3>1, <3>4, <3>5, <3>7, <3>8, <3>9 DEF ReportInv
  <2>5. CASE ReportFails(f)
    BY <1>0, <1>1, <1>2, <1>8, <2>5 DEF ReportFails, Goto, vars, ReportInv, ReportOf
  <2>6. CASE ReadCopy(f)
    BY <1>0, <1>1, <1>2, <1>6, <1>8, <2>6
       DEF ReadCopy, Goto, dev, vars, ReportInv, ReportOf
  <2>7. CASE ReadReturn(f)
    BY <1>0, <1>1, <1>2, <1>6, <1>8, <2>7
       DEF ReadReturn, Leave, Goto, IoEnd, ReportInv, ReportOf
  <2> QED
    BY <2>1, <2>2, <2>3, <2>4, <2>5, <2>6, <2>7 DEF ReadStep
<1>10. IoTypeOK'
  BY <1>0, <1>1, <1>7, <1>9 DEF IoTypeOK
<1> QED
  BY <1>3, <1>4, <1>5, <1>9, <1>10 DEF IoInv

(* A step of write() keeps the invariant: the URB and its buffer go from   *)
(* the allocation to the writer, and from the writer to the USB core.      *)
LEMMA WriteStepInv ==
  ASSUME IoInv, fault = "none", IInv', NEW f \in Files,
         WriteEnter(f) \/ WriteLock(f) \/ WriteStep(f)
  PROVE  IoInv'
<1>0. IInv /\ IoTypeOK /\ PlaceInv /\ MutexInv /\ ReportInv /\ UrbInv
  BY DEF IoInv
<1>1. /\ fpc[f] \in {"open", "io"}
      /\ iopc[f] \in WriteStates \cup {"none"}
      /\ iopc'[f] \in WriteStates \cup {"none"}
      /\ iopc' = [iopc EXCEPT ![f] = iopc'[f]]
      /\ fpc' = [fpc EXCEPT ![f] = IF iopc'[f] = "none" THEN "open" ELSE "io"]
      /\ fdev' = fdev
      /\ sent' = sent /\ inbuf' = inbuf /\ own' = own /\ temp' = temp
      /\ seen' = seen
  BY <1>0, WriteMoves DEF readVars
<1>2. /\ iopc \in [Files -> ReadStates \cup WriteStates \cup {"none"}]
      /\ fpc \in [Files -> FileStates]
      /\ furb \in [Files -> Urbs \cup {NoUrb}]
      /\ urbref \in [Urbs -> 0 .. 2]
      /\ dmabuf \subseteq Urbs /\ inflight \subseteq Urbs
      /\ NoUrb \notin Urbs
  BY <1>0, IoAssumption DEF IoTypeOK, IInv, TypeOK
<1>3. PlaceInv'
  BY <1>0, <1>1, <1>2 DEF PlaceInv
<1>4. MutexInv'
  <2>1. \/ mutex' = mutex /\ (iopc'[f] \in Inside => iopc[f] \in Inside)
        \/ Lock(f)
        \/ Unlock(f) /\ iopc[f] \in Inside /\ iopc'[f] \notin Inside
    BY <1>2
       DEF WriteEnter, WriteLock, WriteStep, WriteWrongSize, WriteAllocUrb,
           WriteNoUrb, WriteAllocBuf, WriteNoBuf, WriteCopy, WriteCopyFails,
           WriteSubmit, WriteSubmitFails, WriteUnlock, WriteReturn, WriteError,
           Enter, Leave, Goto, Inside
  <2>2. iopc[f] # "none" \/ iopc'[f] \notin Inside
    BY <1>2
       DEF WriteEnter, WriteLock, WriteStep, WriteWrongSize, WriteAllocUrb,
           WriteNoUrb, WriteAllocBuf, WriteNoBuf, WriteCopy, WriteCopyFails,
           WriteSubmit, WriteSubmitFails, WriteUnlock, WriteReturn, WriteError,
           Enter, Leave, Goto, Inside
  <2> QED
    BY <1>0, <1>1, <2>1, <2>2, MutexKept
<1>5. ASSUME NEW g \in Files, g # f
      PROVE  iopc'[g] = iopc[g] /\ fpc'[g] = fpc[g] /\ fdev'[g] = fdev[g]
  BY <1>1, <1>2, <1>5
<1>6. ReportInv'
  <2>1. ReportOf(f)'
    <3>1. iopc[f] \notin ReadStates /\ iopc'[f] \notin ReadStates
      BY <1>1 DEF ReadStates, WriteStates
    <3>2. fpc'[f] \in {"open", "io"} /\ fdev'[f] = fdev[f]
      BY <1>1, <1>2
    <3> QED
      BY <1>0, <1>1, <3>1, <3>2 DEF ReportInv, ReportOf, ReadStates
  <2>2. ASSUME NEW g \in Files, g # f PROVE ReportOf(g)'
    BY <1>0, <1>1, <1>5, <2>2 DEF ReportInv, ReportOf
  <2> QED
    BY <1>0, <1>1, <2>1, <2>2 DEF ReportInv
<1>7. /\ mutex' \in [Devs -> SUBSET Files]
      /\ iopc' \in [Files -> ReadStates \cup WriteStates \cup {"none"}]
  <2>1. mutex' = mutex \/ Lock(f) \/ Unlock(f)
    BY DEF WriteEnter, WriteLock, WriteStep, WriteWrongSize, WriteAllocUrb,
           WriteNoUrb, WriteAllocBuf, WriteNoBuf, WriteCopy, WriteCopyFails,
           WriteSubmit, WriteSubmitFails, WriteUnlock, WriteReturn, WriteError
  <2> QED
    BY <1>0, <1>1, <1>2, <2>1 DEF IoTypeOK, Lock, Unlock
<1>8. iopc[f] \in WithUrb => furb[f] \in Urbs /\ urbref[furb[f]] \in 1 .. 2
  <2>1. iopc[f] \in WithUrb => furb[f] \in Urbs
    BY <1>0, <1>2 DEF UrbInv, WriterInv, UrbOf
  <2>2. furb[f] \in Urbs =>
          urbref[furb[f]] = 1 + (IF furb[f] \in inflight THEN 1 ELSE 0)
    BY <1>0 DEF UrbInv, WriterInv, UrbOf
  <2> QED
    BY <2>1, <2>2
<1>9. UrbTypes' /\ (fault' = "none" => UrbInv')
  <2>1. CASE \/ WriteEnter(f) \/ WriteLock(f) \/ WriteWrongSize(f) \/ WriteCopy(f)
             \/ WriteCopyFails(f) \/ WriteSubmitFails(f) \/ WriteUnlock(f)
    <3>1. /\ furb' = furb /\ urbref' = urbref /\ dmabuf' = dmabuf
          /\ inflight' = inflight /\ fault' = fault
      BY <2>1
         DEF WriteEnter, WriteLock, WriteWrongSize, WriteCopy, WriteCopyFails,
             WriteSubmitFails, WriteUnlock, writeVars
    <3>2. /\ iopc'[f] \in WithUrb <=> iopc[f] \in WithUrb
          /\ iopc'[f] \in {"wunlock", "wfree"} <=> iopc[f] \in {"wunlock", "wfree"}
          /\ \A u \in Urbs : HasBuffer(f, u)' <=> HasBuffer(f, u)
      BY <1>2, <2>1, <3>1
         DEF WriteEnter, WriteLock, WriteWrongSize, WriteCopy, WriteCopyFails,
             WriteSubmitFails, WriteUnlock, Enter, Leave, Goto, WithUrb, HasBuffer
    <3>3. \A g \in Files :
             /\ iopc'[g] \in WithUrb <=> iopc[g] \in WithUrb
             /\ iopc'[g] \in {"wunlock", "wfree"} <=> iopc[g] \in {"wunlock", "wfree"}
             /\ \A u \in Urbs : HasBuffer(g, u)' <=> HasBuffer(g, u)
      BY <1>5, <3>1, <3>2 DEF HasBuffer
    <3>4. UrbTypes'
      BY <1>0, <3>1 DEF UrbTypes, IoTypeOK
    <3> QED
      BY <1>0, <1>2, <3>1, <3>3, <3>4 DEF UrbInv, WriterInv, UrbOf
  <2>2. CASE WriteNoUrb(f)
    BY <1>2, <2>2 DEF WriteNoUrb, writeVars, UrbTypes
  <2>3. CASE WriteError(f)
    <3>1. iopc[f] \in WithUrb
      BY <2>3 DEF WriteError, WithUrb
    <3> QED
      BY <1>2, <1>8, <2>3, <3>1 DEF WriteError, UrbPut, UrbTypes
  <2>4. ASSUME NEW u \in Urbs, WriteAllocUrb(f, u)
        PROVE  UrbTypes' /\ UrbInv'
    <3>1. /\ iopc[f] = "walloc" /\ iopc'[f] = "wbuf" /\ furb[f] = NoUrb
          /\ furb' = [furb EXCEPT ![f] = u]
          /\ urbref' = [urbref EXCEPT ![u] = 1] /\ urbref[u] = 0
          /\ dmabuf' = dmabuf /\ inflight' = inflight /\ fault' = fault
      BY <1>0, <1>2, <2>4 DEF WriteAllocUrb, Goto, UrbInv, WriterInv, WithUrb
    <3>2. u \notin inflight /\ \A g \in Files : furb[g] # u
      BY <1>0, <3>1 DEF UrbInv, UrbOf
    <3>3. UrbTypes'
      BY <1>0, <1>2, <3>1 DEF UrbTypes, IoTypeOK
    <3>4. WriterInv'
      BY <1>0, <1>2, <1>5, <3>1, <3>2 DEF UrbInv, WriterInv, WithUrb
    <3>5. UrbOf(u)'
      BY <1>0, <1>2, <1>5, <3>1, <3>2 DEF UrbInv, UrbOf, HasBuffer
    <3>6. ASSUME NEW v \in Urbs, v # u PROVE UrbOf(v)'
      BY <1>0, <1>2, <1>5, <3>1, <3>6 DEF UrbInv, UrbOf, HasBuffer
    <3> QED
      BY <3>3, <3>4, <3>5, <3>6 DEF UrbInv
  <2>5. CASE WriteAllocBuf(f)
    <3>1. PICK u \in Urbs : u = furb[f]
      BY <1>8, <2>5 DEF WriteAllocBuf, Goto, WithUrb
    <3>2. /\ iopc[f] = "wbuf" /\ iopc'[f] = "wcopy"
          /\ furb' = furb /\ urbref' = urbref
          /\ dmabuf' = dmabuf \cup {u} /\ inflight' = inflight /\ fault' = fault
      BY <1>2, <2>5, <3>1 DEF WriteAllocBuf, Goto
    <3>3. UrbTypes'
      BY <1>0, <1>2, <3>2 DEF UrbTypes, IoTypeOK
    <3>4. WriterInv'
      BY <1>0, <1>5, <3>2 DEF UrbInv, WriterInv, WithUrb
    <3>5. UrbOf(u)'
      BY <1>0, <1>5, <3>1, <3>2 DEF UrbInv, UrbOf, HasBuffer
    <3>6. ASSUME NEW v \in Urbs, v # u PROVE UrbOf(v)'
      BY <1>0, <1>5, <3>1, <3>2, <3>6 DEF UrbInv, UrbOf, HasBuffer
    <3> QED
      BY <3>3, <3>4, <3>5, <3>6 DEF UrbInv
  <2>6. CASE WriteNoBuf(f) \/ WriteReturn(f)
    <3>1. PICK u \in Urbs : u = furb[f]
      BY <1>8, <2>6 DEF WriteNoBuf, WriteReturn, Leave, Goto, WithUrb
    <3>2. /\ iopc[f] \in {"wbuf", "wfree"} /\ iopc'[f] = "none"
          /\ furb' = [furb EXCEPT ![f] = NoUrb]
          /\ urbref' = [urbref EXCEPT ![u] = @ - 1]
          /\ dmabuf' = dmabuf /\ inflight' = inflight /\ fault' = fault
      BY <1>2, <2>6, <3>1 DEF WriteNoBuf, WriteReturn, Leave, Goto, UrbPut
    <3>3. urbref[u] \in 1 .. 2
      BY <1>8, <3>1, <3>2 DEF WithUrb
    <3>4. UrbTypes'
      BY <1>0, <1>2, <3>2, <3>3 DEF UrbTypes, IoTypeOK
    <3>5. WriterInv'
      BY <1>0, <1>2, <1>5, <3>2 DEF UrbInv, WriterInv, WithUrb
    <3>6. \A g \in Files : furb[g] = u <=> g = f
      BY <1>0, <1>2, <3>1 DEF UrbInv, WriterInv
    <3>7. UrbOf(u)'
      BY <1>0, <1>2, <1>5, <3>1, <3>2, <3>3, <3>6 DEF UrbInv, UrbOf, HasBuffer
    <3>8. ASSUME NEW v \in Urbs, v # u PROVE UrbOf(v)'
      BY <1>0, <1>2, <1>5, <3>1, <3>2, <3>8 DEF UrbInv, UrbOf, HasBuffer
    <3> QED
      BY <3>4, <3>5, <3>7, <3>8 DEF UrbInv
  <2>7. CASE WriteSubmit(f)
    <3>1. PICK u \in Urbs : u = furb[f]
      BY <1>8, <2>7 DEF WriteSubmit, Goto, WithUrb
    <3>2. /\ iopc[f] = "wsubmit" /\ iopc'[f] = "wunlock"
          /\ furb' = furb /\ urbref' = [urbref EXCEPT ![u] = @ + 1]
          /\ dmabuf' = dmabuf /\ inflight' = inflight \cup {u} /\ fault' = fault
      BY <1>2, <2>7, <3>1 DEF WriteSubmit, Goto
    <3>3. \A g \in Files : furb[g] = u <=> g = f
      BY <1>0, <1>2, <3>1 DEF UrbInv, WriterInv
    <3>4. u \notin inflight /\ urbref[u] = 1
      BY <1>0, <3>1, <3>2, <3>3 DEF UrbInv, UrbOf
    <3>5. UrbTypes'
      BY <1>0, <1>2, <3>2, <3>4 DEF UrbTypes, IoTypeOK
    <3>6. WriterInv'
      BY <1>0, <1>5, <3>2 DEF UrbInv, WriterInv, WithUrb
    <3>7. UrbOf(u)'
      BY <1>0, <1>2, <1>5, <3>1, <3>2, <3>3, <3>4 DEF UrbInv, UrbOf, HasBuffer
    <3>8. ASSUME NEW v \in Urbs, v # u PROVE UrbOf(v)'
      BY <1>0, <1>2, <1>5, <3>1, <3>2, <3>8 DEF UrbInv, UrbOf, HasBuffer
    <3> QED
      BY <3>5, <3>6, <3>7, <3>8 DEF UrbInv
  <2> QED
    BY <2>1, <2>2, <2>3, <2>4, <2>5, <2>6, <2>7 DEF WriteStep
<1>10. IoTypeOK'
  BY <1>0, <1>1, <1>7, <1>9 DEF IoTypeOK, UrbTypes
<1> QED
  BY <1>3, <1>4, <1>6, <1>9, <1>10 DEF IoInv

(* The completion callback keeps the invariant, wherever it overtakes the  *)
(* writer: it finds a buffer that is its own to free.                      *)
LEMMA CallbackInv ==
  ASSUME IoInv, fault = "none", IInv', NEW u \in Urbs, WriteIntCallback(u)
  PROVE  IoInv'
<1>0. IInv /\ IoTypeOK /\ PlaceInv /\ MutexInv /\ ReportInv /\ UrbInv
  BY DEF IoInv
<1>1. /\ iopc' = iopc /\ mutex' = mutex /\ furb' = furb /\ fault' = fault
      /\ sent' = sent /\ inbuf' = inbuf /\ own' = own /\ temp' = temp
      /\ seen' = seen /\ fpc' = fpc /\ fdev' = fdev
  BY DEF WriteIntCallback, readVars, vars
<1>2. /\ urbref' = [urbref EXCEPT ![u] = @ - 1] /\ u \in inflight
      /\ dmabuf' = dmabuf \ {u} /\ inflight' = inflight \ {u}
      /\ urbref \in [Urbs -> 0 .. 2] /\ dmabuf \subseteq Urbs
      /\ inflight \subseteq Urbs
  BY <1>0 DEF WriteIntCallback, UrbPut, IoTypeOK
<1>3. urbref[u] \in 1 .. 2
  BY <1>0, <1>2 DEF UrbInv, UrbOf
<1>4. IoTypeOK'
  BY <1>0, <1>1, <1>2, <1>3 DEF IoTypeOK
<1>5. PlaceInv' /\ MutexInv'
  BY <1>0, <1>1 DEF PlaceInv, MutexInv
<1>6. ReportInv'
  BY <1>0, <1>1 DEF ReportInv, ReportOf
<1>7. WriterInv'
  BY <1>0, <1>1 DEF UrbInv, WriterInv
<1>8. UrbOf(u)'
  <2>1. \A f \in Files : ~HasBuffer(f, u)
    BY <1>0, <1>2 DEF UrbInv, UrbOf, HasBuffer
  <2> QED
    BY <1>0, <1>1, <1>2, <2>1 DEF UrbInv, UrbOf, HasBuffer
<1>9. ASSUME NEW v \in Urbs, v # u PROVE UrbOf(v)'
  BY <1>0, <1>1, <1>2, <1>9 DEF UrbInv, UrbOf, HasBuffer
<1> QED
  BY <1>4, <1>5, <1>6, <1>7, <1>8, <1>9 DEF IoInv, UrbInv

(* Nothing changes, by stuttering or after an undefined step.              *)
LEMMA IoStutter == ASSUME IoInv, UNCHANGED allVars, IInv' PROVE IoInv'
<1>1. /\ iopc' = iopc /\ mutex' = mutex /\ furb' = furb /\ fault' = fault
      /\ sent' = sent /\ inbuf' = inbuf /\ own' = own /\ temp' = temp
      /\ seen' = seen /\ fpc' = fpc /\ fdev' = fdev
      /\ urbref' = urbref /\ dmabuf' = dmabuf /\ inflight' = inflight
  BY DEF allVars, ioVars, readVars, writeVars, vars
<1>2. IoTypeOK' /\ PlaceInv' /\ MutexInv'
  BY <1>1 DEF IoInv, IoTypeOK, PlaceInv, MutexInv
<1>3. ReportInv'
  BY <1>1 DEF IoInv, ReportInv, ReportOf
<1>4. fault' = "none" => UrbInv'
  BY <1>1 DEF IoInv, UrbInv, WriterInv, UrbOf, HasBuffer
<1> QED
  BY <1>2, <1>3, <1>4 DEF IoInv

(* Every step keeps the invariant.                                         *)
LEMMA IoStepInv == IoInv /\ [IoNext]_allVars => IoInv'
<1> SUFFICES ASSUME IoInv, [IoNext]_allVars PROVE IoInv'
  OBVIOUS
<1>1. IInv'
  BY LifeInv DEF IoInv
<1>2. CASE UNCHANGED allVars
  BY <1>1, <1>2, IoStutter
<1>3. CASE fault = "none" /\ Step
  <2>1. CASE Life
    BY <1>1, <1>3, <2>1, LifeStepInv
  <2>2. ASSUME NEW f \in Files,
               ReadEnter(f) \/ WriteEnter(f) \/ GetLock(f) \/ ReadStep(f)
                 \/ WriteStep(f)
        PROVE  IoInv'
    <3>1. CASE ReadEnter(f) \/ ReadLock(f) \/ ReadStep(f)
      BY <1>1, <1>3, <3>1, ReadStepInv
    <3>2. CASE WriteEnter(f) \/ WriteLock(f) \/ WriteStep(f)
      BY <1>1, <1>3, <3>2, WriteStepInv
    <3> QED
      BY <2>2, <3>1, <3>2 DEF GetLock
  <2>3. ASSUME NEW u \in Urbs, WriteIntCallback(u) PROVE IoInv'
    BY <1>1, <1>3, <2>3, CallbackInv
  <2> QED
    BY <1>3, <2>1, <2>2, <2>3 DEF Step
<1> QED
  BY <1>2, <1>3 DEF IoNext, Halted

(* The invariant holds throughout.                                         *)
LEMMA IoInvariant == IoSpec => []IoInv
BY IoInitInv, IoStepInv, PTL DEF IoSpec

-----------------------------------------------------------------------------
(* What the invariant says about the driver.                               *)

(* The variables of read() and write() keep to their types: no reference   *)
(* counter of a URB goes below zero or above its two owners.               *)
THEOREM IoTypeCorrect == IoSpec => []IoTypeOK
BY IoInvariant, PTL DEF IoInv

(* However the completion interrupt falls between the steps of write(),    *)
(* the DMA buffer of a URB has exactly one of writer and callback to free  *)
(* it.                                                                     *)
THEOREM BufferHasOneOwner == IoSpec => []BufferOneOwner
<1>1. IoInv => BufferOneOwner
  BY DEF IoInv, BufferOneOwner, UrbInv, WriterInv, UrbOf, HasBuffer, WithUrb
<1> QED
  BY <1>1, IoInvariant, PTL

(* The reference counter of a URB is one for its writer and one for the    *)
(* USB core, for any number of writers at once.                            *)
THEOREM UrbCounterExact == IoSpec => []UrbRefsExact
<1>1. IoInv => UrbRefsExact
  <2> SUFFICES ASSUME IoInv, fault = "none", NEW u \in Urbs
               PROVE  urbref[u] = Cardinality({f \in Files : furb[f] = u})
                                    + Cardinality({u} \cap inflight)
    BY DEF UrbRefsExact
  <2>1. WriterInv /\ UrbOf(u) /\ u # NoUrb
    BY IoAssumption DEF IoInv, UrbInv
  <2>2. Cardinality({f \in Files : furb[f] = u})
          = IF \E f \in Files : furb[f] = u THEN 1 ELSE 0
    <3>1. CASE \E f \in Files : furb[f] = u
      <4>1. PICK f \in Files : furb[f] = u
        BY <3>1
      <4>2. {g \in Files : furb[g] = u} = {f}
        BY <2>1, <4>1 DEF WriterInv
      <4> QED
        BY <3>1, <4>2, FS_Singleton
    <3>2. CASE ~ \E f \in Files : furb[f] = u
      <4>1. {f \in Files : furb[f] = u} = {}
        BY <3>2
      <4> QED
        BY <3>2, <4>1, FS_EmptySet
    <3> QED
      BY <3>1, <3>2
  <2>3. Cardinality({u} \cap inflight) = IF u \in inflight THEN 1 ELSE 0
    <3>1. CASE u \in inflight
      <4>1. {u} \cap inflight = {u}
        BY <3>1
      <4> QED
        BY <3>1, <4>1, FS_Singleton
    <3>2. CASE u \notin inflight
      <4>1. {u} \cap inflight = {}
        BY <3>2
      <4> QED
        BY <3>2, <4>1, FS_EmptySet
    <3> QED
      BY <3>1, <3>2
  <2> QED
    BY <2>1, <2>2, <2>3 DEF UrbOf
<1> QED
  BY <1>1, IoInvariant, PTL

(* No reader is handed a report it has been handed before, or an older     *)
(* one, although the mutex is released before the copy.                    *)
THEOREM ReadsAreNew == IoSpec => []ReadsNewReport
<1>1. IoInv => ReadsNewReport
  <2> SUFFICES ASSUME IoInv, NEW f \in Files, iopc[f] = "rret", own[f] # 0
               PROVE  temp[f] > seen[f]
    BY DEF ReadsNewReport
  <2>1. seen[f] < own[f] /\ own[f] <= temp[f]
    BY DEF IoInv, ReportInv, ReportOf
  <2>2. seen[f] \in Nat /\ own[f] \in Nat /\ temp[f] \in Nat
    BY IoAssumption DEF IoInv, IoTypeOK, Torn
  <2> QED
    BY <2>1, <2>2
<1> QED
  BY <1>1, IoInvariant, PTL
=============================================================================
