--------------------------- MODULE SysfsFilesProofs ---------------------------
(***************************************************************************)
(* Proofs about SysfsFiles for any number of processes, any files of the   *)
(* three drivers and whatever is written to them: only legal values get    *)
(* into the structures, every call looks as if it took effect at one       *)
(* moment, and a distance is of a measurement that ended after the start.  *)
(***************************************************************************)
EXTENDS SysfsFiles, TLAPS

-----------------------------------------------------------------------------
(* The inductive invariant.                                                *)

(* The variables are functions over processes and files.                   *)
ShapeInv ==
  /\ pc = [u \in Users |-> pc[u]]
  /\ req = [u \in Users |-> req[u]]
  /\ ret = [u \in Users |-> ret[u]]
  /\ st = [f \in DummyFiles |-> st[f]]
  /\ ints = [f \in KdemoFiles |-> ints[f]]

(* What a process does in a callback of the IIO dummy.                     *)
ByLock(u)  == UnderLock(req[u].op, req[u].file)
IsRead(u)  == req[u].op = "read" /\ req[u].arg = << >>
IsWrite(u) == req[u].op = "write"

(* Nothing has been answered.                                              *)
Unanswered(u) == ret[u] = Pending

(* The call of a process: a place its file has, with what it was given,    *)
(* and an answer when there is nothing left but to return it.              *)
DummyCall(u) ==
  /\ req[u].file \in DummyFiles
  /\ IsRead(u) \/ (IsWrite(u) /\ req[u].arg \in DummyArgs[req[u].file])
  /\ \/ pc[u] = "lock" /\ ByLock(u) /\ Unanswered(u)
     \/ /\ pc[u] = "load" /\ IsRead(u)
        /\ \/ Unanswered(u)
           \/ /\ st[req[u].file] \in [1..2 -> Int]
              /\ ret[u] = [err |-> "pending", words |-> <<st[req[u].file][1]>>]
     \/ pc[u] = "store" /\ IsWrite(u) /\ Unanswered(u)
     \/ pc[u] = "unlock" /\ ByLock(u) /\ ret[u].err # "pending"
     \/ pc[u] = "return" /\ ret[u].err # "pending"

KdemoCall(u) ==
  /\ req[u].file \in KdemoFiles
  /\ \/ pc[u] = "show" /\ IsRead(u) /\ Unanswered(u)
     \/ /\ pc[u] = "kstrtoint" /\ IsWrite(u) /\ req[u].arg \in KdemoArgs
        /\ Unanswered(u)
     \/ pc[u] = "return" /\ ret[u].err # "pending"

DistanceCall(u) ==
  /\ req[u].file = "distance" /\ IsRead(u)
  /\ \/ pc[u] \in {"start", "look", "fetch"} /\ Unanswered(u)
     \/ pc[u] = "return" /\ ret[u].err # "pending"

NoCall(u) == pc[u] = "idle" /\ req[u] = NoReq /\ Unanswered(u)

CallOf(u) == NoCall(u) \/ DummyCall(u) \/ KdemoCall(u) \/ DistanceCall(u)
CallInv   == \A u \in Users : CallOf(u)

(* The mutex of the IIO dummy has whoever is between its lock and unlock.  *)
Holds(u) ==
  /\ req[u].file \in DummyFiles /\ ByLock(u)
  /\ pc[u] \in {"load", "store", "unlock"}

LockInv ==
  /\ lock # "free" => lock \in Users /\ Holds(lock)
  /\ \A u \in Users : Holds(u) => lock = u

(* The values are legal.                                                   *)
ValueInv ==
  /\ \A f \in DummyFiles : st[f] \in Legal[f]
  /\ \A f \in KdemoFiles : ints[f] \in Legal[f]

(* The sensor: what is complete was measured after everyone who may fetch  *)
(* it had asked.                                                           *)
SensorInv ==
  /\ stage \in {"unbound", "bound", "removing"}
  /\ chip \in [busy : BOOLEAN, complete : BOOLEAN, result : Samples]
  /\ tries \in [Users -> 1..MaxTries]
  /\ fresh \subseteq Users
  /\ \A u \in Users : /\ Reading(u, "fetch") => u \in fresh
                      /\ Reading(u, "look") /\ chip.complete => u \in fresh

IInv == ShapeInv /\ CallInv /\ LockInv /\ ValueInv /\ SensorInv

-----------------------------------------------------------------------------
(* The values of files.                                                    *)

(* The files of one driver are none of another's.                          *)
LEMMA FilesApart ==
  /\ \A f \in DummyFiles : f \notin KdemoFiles /\ f # "distance" /\ f # "none"
  /\ \A f \in KdemoFiles : f # "distance" /\ f # "none"
<1>1. \A f \in DummyFiles : f \in DOMAIN Fields \cup DOMAIN Literals
  BY DummyAssumption DEF Channels, Fields, Literals
<1> QED
  BY <1>1, KdemoAssumption DEF Fields, Literals

(* A file of the IIO dummy is legally one word or two; only the scale has  *)
(* two and can be written.                                                 *)
LEMMA DummyWords ==
  ASSUME NEW f \in DummyFiles
  PROVE  /\ FirstWords(f) \in Legal[f]
         /\ Legal[f] \subseteq [1..1 -> Int] \cup [1..2 -> Int]
         /\ f \in (WriteLocked \cup WriteAlone) \ {"accel_calibscale"} =>
              Legal[f] \subseteq [1..1 -> Int]
         /\ f \in WriteLocked \ {"accel_calibscale"} => Legal[f] = [1..1 -> Int]
         /\ f = "height" => Legal[f] = [1..1 -> Int]
         /\ f = "accel_calibscale" => Legal[f] = Scales
         /\ f \in Activities => Legal[f] = {<<n>> : n \in 0..100}
<1>0. f \in Files /\ f \notin KdemoFiles /\ f # "distance"
  BY FilesApart DEF Files
<1>1. f \in DOMAIN Fields \cup DOMAIN Literals
  BY DummyAssumption DEF Channels, Fields, Literals
<1>2. CASE f = "accel_calibscale"
  <2>1. Legal[f] = Scales
    BY <1>0, <1>2 DEF Legal, Activities, Counters
  <2>2. FirstWords(f) \in Scales /\ Scales \subseteq [1..2 -> Int]
    BY <1>2 DEF FirstWords, Fields, Scales
  <2> QED
    BY <1>2, <2>1, <2>2 DEF Activities
<1>3. CASE f \in Activities
  <2>1. Legal[f] = {<<n>> : n \in 0..100}
    BY <1>0, <1>3 DEF Legal, Activities, Counters, WriteLocked
  <2>2. FirstWords(f) \in {<<n>> : n \in 0..100}
    BY <1>3 DEF FirstWords, Fields, Activities
  <2>3. {<<n>> : n \in 0..100} \subseteq [1..1 -> Int]
    OBVIOUS
  <2> QED
    BY <1>3, <2>1, <2>2, <2>3 DEF Activities, WriteLocked
<1>4. CASE f \in Counters
  BY <1>0, <1>4 DEF Legal, FirstWords, Fields, Activities, WriteLocked,
                    Counters
<1>5. CASE f \notin Counters \cup Activities \cup {"accel_calibscale"}
  <2>1. Legal[f] = {FirstWords(f)}
    BY <1>0, <1>5 DEF Legal, Counters
  <2>2. FirstWords(f) \in [1..1 -> Int] \cup [1..2 -> Int]
    BY <1>1 DEF FirstWords, Fields, Literals
  <2> QED
    BY <1>5, <2>1, <2>2 DEF Counters, WriteAlone
<1> QED
  BY <1>2, <1>3, <1>4, <1>5

(* A file of the kobject demo may have any number.                         *)
LEMMA KdemoWords == ASSUME NEW f \in KdemoFiles PROVE Legal[f] = [1..1 -> Int]
<1>1. f \in Files /\ f \in {"foo", "baz", "bar"}
  BY KdemoAssumption DEF Files
<1> QED
  BY <1>1 DEF Legal, Activities, Counters, WriteLocked

(* A distance is a result of a measurement.                                *)
LEMMA DistanceWords ==
  "distance" \in Files /\ Legal["distance"] = {<<s>> : s \in Samples}
BY FilesApart DEF Files, Legal, Activities, Counters, WriteLocked

-----------------------------------------------------------------------------
(* The invariant holds initially and every step keeps it.                  *)

(* Nobody is inside a callback.                                            *)
LEMMA InitInv == Init => IInv
<1> SUFFICES ASSUME Init PROVE IInv
  OBVIOUS
<1> USE DEF Init, InitCalls, InitDummy, InitKdemo, InitVl
<1>1. ShapeInv
  BY DEF ShapeInv
<1>2. CallInv
  BY DEF CallInv, CallOf, NoCall, Unanswered
<1>3. LockInv
  BY DEF LockInv, Holds
<1>4. ValueInv
  BY DummyWords, KdemoWords DEF ValueInv
<1>5. SensorInv
  BY TriesAssumption DEF SensorInv, Reading, At
<1> QED
  BY <1>1, <1>2, <1>3, <1>4, <1>5 DEF IInv

(* Only the call of process u goes on.                                     *)
Only(u) == /\ pc' = [pc EXCEPT ![u] = pc'[u]]
           /\ req' = [req EXCEPT ![u] = req'[u]]
           /\ ret' = [ret EXCEPT ![u] = ret'[u]]

(* A process has read one of two words.                                    *)
BetweenWords(v) == /\ req[v].file \in DummyFiles /\ DummyCall(v)
                   /\ pc[v] = "load" /\ ~Unanswered(v)

(* The others stay where they are, and a reader between two words finds    *)
(* the second one as it was.                                               *)
LEMMA OthersKeep ==
  ASSUME ShapeInv, CallInv, NEW u \in Users, Only(u), CallOf(u)',
         \A v \in Users \ {u} : BetweenWords(v) =>
                                  st'[req[v].file] = st[req[v].file]
  PROVE  CallInv'
<1>1. SUFFICES ASSUME NEW v \in Users \ {u} PROVE CallOf(v)'
  BY DEF CallInv, CallOf
<1>2. pc'[v] = pc[v] /\ req'[v] = req[v] /\ ret'[v] = ret[v]
  BY DEF ShapeInv, Only
<1>3. CASE NoCall(v)
  BY <1>2, <1>3 DEF NoCall, Unanswered, CallOf
<1>4. CASE DummyCall(v)
  BY <1>2, <1>4
     DEF BetweenWords, DummyCall, ByLock, IsRead, IsWrite, Unanswered, CallOf
<1>5. CASE KdemoCall(v)
  BY <1>2, <1>5 DEF KdemoCall, IsRead, IsWrite, Unanswered, CallOf
<1>6. CASE DistanceCall(v)
  BY <1>2, <1>6 DEF DistanceCall, IsRead, Unanswered, CallOf
<1> QED
  BY <1>3, <1>4, <1>5, <1>6 DEF CallInv, CallOf

(* Who neither takes nor gives back the mutex leaves it as it is.          *)
LEMMA LockKept ==
  ASSUME ShapeInv, LockInv, NEW u \in Users, Only(u), lock' = lock,
         Holds(u)' <=> Holds(u)
  PROVE  LockInv'
<1>1. ASSUME NEW v \in Users \ {u} PROVE Holds(v)' <=> Holds(v)
  BY DEF ShapeInv, Only, Holds, ByLock
<1> QED
  BY <1>1 DEF LockInv

(* The files of the other drivers do not touch the sensor.                 *)
LEMMA SensorKept ==
  ASSUME ShapeInv, SensorInv, NEW u \in Users, Only(u), UNCHANGED vlVars,
         ~Reading(u, "look")' /\ ~Reading(u, "fetch")'
  PROVE  SensorInv'
<1>1. ASSUME NEW v \in Users \ {u}, NEW p \in {"look", "fetch"}
      PROVE  Reading(v, p)' <=> Reading(v, p)
  BY DEF ShapeInv, Only, Reading, At
<1> QED
  BY <1>1 DEF SensorInv, vlVars

(* Whichever step a process takes, only its own call goes on.              *)
LEMMA OneCallMoves ==
  ASSUME ShapeInv, NEW u \in Users, Enters(u) \/ Inside(u)
  PROVE  Only(u) /\ pc' = [v \in Users |-> pc'[v]]
         /\ req' = [v \in Users |-> req'[v]] /\ ret' = [v \in Users |-> ret'[v]]
<1>1. Only(u)
  <2>1. CASE Enters(u)
    BY <2>1 DEF ShapeInv, Only, Enters, DummyRead, DummyWrite, KdemoRead, KdemoWrite,
                DistanceRead, Call
  <2>2. CASE Return(u)
    BY <2>2 DEF ShapeInv, Only, Return, Back
  <2>3. CASE DummyStep(u)
    BY <2>3 DEF ShapeInv, Only, DummyStep, DummyLock, DummyLoad, DummyStore,
                DummyUnlock, Goto, Answer, Back
  <2>4. CASE KdemoStep(u)
    BY <2>4 DEF ShapeInv, Only, KdemoStep, KdemoShow, KdemoStore, Answer
  <2>5. CASE DistanceStep(u)
    BY <2>5 DEF ShapeInv, Only, DistanceStep, Start, TransferFails, LookComplete,
                LookAgain, Fetch, Goto, Answer, callVars
  <2> QED
    BY <2>1, <2>2, <2>3, <2>4, <2>5 DEF Inside
<1> QED
  BY <1>1 DEF ShapeInv, Only

(* A process enters a callback.                                            *)
LEMMA EnterInv == ASSUME IInv, NEW u \in Users, Enters(u) PROVE IInv'
<1>0. ShapeInv /\ CallInv /\ LockInv /\ ValueInv /\ SensorInv /\ Only(u)
  BY OneCallMoves DEF IInv
<1>1. UNCHANGED <<dummyVars, ints, vlVars>> /\ ret' = ret
  BY Zenon DEF Enters, DummyRead, DummyWrite, KdemoRead, KdemoWrite, DistanceRead,
               Call
<1>2. pc[u] = "idle" /\ NoCall(u)
  <2>1. pc[u] = "idle"
    BY DEF Enters, DummyRead, DummyWrite, KdemoRead, KdemoWrite, DistanceRead, Call
  <2> QED
    BY <1>0, <2>1 DEF CallInv, CallOf, DummyCall, KdemoCall, DistanceCall
<1>3. ShapeInv'
  BY <1>0, <1>1, OneCallMoves DEF ShapeInv, dummyVars
<1>4. ASSUME NEW f, NEW op, NEW x, NEW p, Call(u, f, op, x, p)
      PROVE  /\ pc'[u] = p /\ Unanswered(u)'
             /\ req'[u] = [file |-> f, op |-> op, arg |-> x]
  BY <1>0, <1>1, <1>2, <1>4 DEF Call, ShapeInv, NoCall, Unanswered
<1>5. CallOf(u)' /\ ~Holds(u)' /\ ~Reading(u, "look")' /\ ~Reading(u, "fetch")'
  <2>1. CASE DummyRead(u)
    <3>1. PICK f \in DummyFiles : Call(u, f, "read", << >>, Enter("read", f))
      BY <2>1 DEF DummyRead
    <3>2. /\ pc'[u] = "lock" /\ Unanswered(u)'
          /\ req'[u] = [file |-> f, op |-> "read", arg |-> << >>]
      BY <1>4, <3>1 DEF Enter, UnderLock
    <3> QED
      BY <3>2 DEF CallOf, DummyCall, IsRead, ByLock, UnderLock, Holds, Reading, At
  <2>2. CASE DummyWrite(u)
    <3>0. PICK f \in DummyFiles : \E x \in DummyArgs[f] :
            Call(u, f, "write", x, Enter("write", f))
      BY <2>2 DEF DummyWrite
    <3>1. PICK x \in DummyArgs[f] : Call(u, f, "write", x, Enter("write", f))
      BY <3>0
    <3>2. /\ pc'[u] = IF f \in WriteLocked THEN "lock" ELSE "store"
          /\ req'[u] = [file |-> f, op |-> "write", arg |-> x] /\ Unanswered(u)'
      BY <1>4, <3>1 DEF Enter, UnderLock, First
    <3> QED
      BY <3>2 DEF CallOf, DummyCall, IsWrite, ByLock, UnderLock, Holds, Reading, At
  <2>3. CASE KdemoRead(u)
    <3>1. PICK f \in KdemoFiles : Call(u, f, "read", << >>, "show")
      BY <2>3 DEF KdemoRead
    <3>2. /\ pc'[u] = "show" /\ Unanswered(u)'
          /\ req'[u] = [file |-> f, op |-> "read", arg |-> << >>]
      BY <1>4, <3>1
    <3> QED
      BY <3>2 DEF CallOf, KdemoCall, IsRead, Holds, Reading, At
  <2>4. CASE KdemoWrite(u)
    <3>1. PICK f \in KdemoFiles, x \in KdemoArgs : Call(u, f, "write", x, "kstrtoint")
      BY <2>4 DEF KdemoWrite
    <3>2. /\ pc'[u] = "kstrtoint" /\ Unanswered(u)'
          /\ req'[u] = [file |-> f, op |-> "write", arg |-> x]
      BY <1>4, <3>1
    <3> QED
      BY <3>2 DEF CallOf, KdemoCall, IsWrite, Holds, Reading, At
  <2>5. CASE DistanceRead(u)
    <3>1. Call(u, "distance", "read", << >>, "start")
      BY <2>5 DEF DistanceRead
    <3>2. /\ pc'[u] = "start" /\ Unanswered(u)'
          /\ req'[u] = [file |-> "distance", op |-> "read", arg |-> << >>]
      BY <1>4, <3>1
    <3> QED
      BY <3>2 DEF CallOf, DistanceCall, IsRead, Holds, Reading, At
  <2> QED
    BY <2>1, <2>2, <2>3, <2>4, <2>5 DEF Enters
<1>6. CallInv'
  BY <1>0, <1>1, <1>5, OthersKeep DEF dummyVars
<1>7. LockInv'
  BY <1>0, <1>1, <1>2, <1>5, LockKept DEF Holds, dummyVars
<1>8. ValueInv'
  BY <1>0, <1>1 DEF ValueInv, dummyVars
<1>9. SensorInv'
  BY <1>0, <1>1, <1>5, SensorKept
<1> QED
  BY <1>3, <1>6, <1>7, <1>8, <1>9 DEF IInv

(* A callback without a lock returns.                                      *)
LEMMA ReturnInv == ASSUME IInv, NEW u \in Users, Return(u) PROVE IInv'
<1>0. ShapeInv /\ CallInv /\ LockInv /\ ValueInv /\ SensorInv /\ Only(u)
  BY OneCallMoves DEF IInv, Inside
<1>1. /\ UNCHANGED <<dummyVars, ints, vlVars>> /\ pc[u] = "return"
      /\ pc'[u] = "idle" /\ req'[u] = NoReq /\ ret'[u] = Pending
  BY <1>0 DEF Return, Back, ShapeInv
<1>2. ShapeInv'
  BY <1>0, <1>1, OneCallMoves DEF ShapeInv, dummyVars, Inside
<1>3. CallOf(u)' /\ ~Holds(u)' /\ ~Reading(u, "look")' /\ ~Reading(u, "fetch")'
  BY <1>1 DEF CallOf, NoCall, Unanswered, Holds, Reading, At
<1>4. CallInv'
  BY <1>0, <1>1, <1>3, OthersKeep DEF dummyVars
<1>5. LockInv'
  BY <1>0, <1>1, <1>3, LockKept DEF Holds, dummyVars
<1>6. ValueInv'
  BY <1>0, <1>1 DEF ValueInv, dummyVars
<1>7. SensorInv'
  BY <1>0, <1>1, <1>3, SensorKept
<1> QED
  BY <1>2, <1>4, <1>5, <1>6, <1>7 DEF IInv

(* The kobject demo stores what is a number.                               *)
LEMMA KdemoInv ==
  ASSUME IInv, NEW u \in Users, KdemoStep(u), UNCHANGED <<dummyVars, vlVars>>
  PROVE  IInv'
<1>0. ShapeInv /\ CallInv /\ LockInv /\ ValueInv /\ SensorInv /\ Only(u)
  BY OneCallMoves DEF IInv, Inside
<1>1. /\ KdemoCall(u) /\ req'[u] = req[u] /\ req[u].file \in KdemoFiles
      /\ pc[u] \in {"show", "kstrtoint"} /\ pc'[u] = "return"
      /\ ret'[u].err # "pending"
  <2>1. req[u].file \in KdemoFiles /\ pc[u] \in {"show", "kstrtoint"}
    BY DEF KdemoStep, KdemoShow, KdemoStore, At
  <2>2. KdemoCall(u)
    BY <1>0, <2>1, FilesApart
       DEF CallInv, CallOf, NoCall, NoReq, DummyCall, DistanceCall
  <2>3. req'[u] = req[u] /\ pc'[u] = "return" /\ ret'[u].err # "pending"
    BY <1>0 DEF KdemoStep, KdemoShow, KdemoStore, Answer, ShapeInv, Value, Stored,
                Error
  <2> QED
    BY <2>1, <2>2, <2>3
<1>2. \/ ints' = ints
      \/ /\ Var(req[u].file) \in KdemoFiles /\ req[u].arg \in [1..1 -> Int]
         /\ ints' = [ints EXCEPT ![Var(req[u].file)] = req[u].arg]
  <2>1. CASE KdemoShow(u)
    BY <2>1 DEF KdemoShow
  <2>2. CASE KdemoStore(u)
    <3>1. Var(req[u].file) = req[u].file
      BY <1>1, KdemoAssumption DEF Var
    <3>2. req[u].arg \in KdemoArgs
      BY <1>1, <2>2 DEF KdemoCall, KdemoStore, At
    <3> QED
      BY <1>1, <2>2, <3>1, <3>2, KdemoAssumption DEF KdemoStore
  <2> QED
    BY <2>1, <2>2 DEF KdemoStep
<1>3. ShapeInv'
  BY <1>0, <1>2, OneCallMoves DEF ShapeInv, dummyVars, Inside
<1>4. CallOf(u)' /\ ~Holds(u)' /\ ~Reading(u, "look")' /\ ~Reading(u, "fetch")'
  BY <1>1 DEF CallOf, KdemoCall, Holds, Reading, At
<1>5. CallInv'
  BY <1>0, <1>4, OthersKeep DEF dummyVars
<1>6. LockInv'
  BY <1>0, <1>1, <1>4, LockKept DEF Holds, dummyVars
<1>7. ValueInv'
  BY <1>0, <1>2, KdemoWords DEF ValueInv, dummyVars, ShapeInv
<1>8. SensorInv'
  BY <1>0, <1>4, SensorKept
<1> QED
  BY <1>3, <1>5, <1>6, <1>7, <1>8 DEF IInv

(* A store into the IIO dummy leaves a legal value; and whoever stores a   *)
(* scale has the mutex, so that no reader is between its words.            *)
LEMMA DummyStores ==
  ASSUME IInv, NEW u \in Users, DummyStore(u), NEW f, f = req[u].file
  PROVE  /\ DummyCall(u) /\ IsWrite(u) /\ Unanswered(u) /\ f \in DummyFiles
         /\ st' = st \/ (st' = [st EXCEPT ![f] = st'[f]] /\ st'[f] \in Legal[f])
         /\ \A v \in Users \ {u} : BetweenWords(v) =>
              st'[req[v].file] = st[req[v].file]
<1>0. CallOf(u) /\ pc[u] = "store" /\ f \in DummyFiles
  BY DEF IInv, CallInv, DummyStore, At
<1>1. DummyCall(u) /\ IsWrite(u) /\ Unanswered(u) /\ req[u].arg \in DummyArgs[f]
  BY <1>0, FilesApart
     DEF CallOf, NoCall, KdemoCall, DistanceCall, DummyCall, IsRead, IsWrite
<1>2. \/ st' = st
      \/ /\ ~Refused(f, req[u].arg)
         /\ st' = [st EXCEPT ![f] = IF f \in Activities THEN <<Clamped(req[u].arg[1])>>
                                                        ELSE req[u].arg]
  BY DEF DummyStore
<1>3. CASE st' = st
  BY <1>0, <1>1, <1>3
<1>4. CASE /\ ~Refused(f, req[u].arg)
           /\ st' = [st EXCEPT ![f] = IF f \in Activities THEN <<Clamped(req[u].arg[1])>>
                                                          ELSE req[u].arg]
  <2>1. /\ st' = [st EXCEPT ![f] = st'[f]]
        /\ st'[f] = IF f \in Activities THEN <<Clamped(req[u].arg[1])>> ELSE req[u].arg
    BY <1>0, <1>4 DEF IInv, ShapeInv
  <2>2. st'[f] \in Legal[f]
    <3>1. CASE f = "accel_calibscale"
      BY <1>0, <1>4, <2>1, <3>1, DummyWords DEF Refused, Activities
    <3>2. CASE f \in Activities
      <4>1. req[u].arg \in [1..1 -> Int]
        BY <1>0, <1>1, <3>2, DummyAssumption DEF Activities
      <4>2. Clamped(req[u].arg[1]) \in 0..100
        BY <4>1 DEF Clamped
      <4> QED
        BY <1>0, <2>1, <3>2, <4>2, DummyWords
    <3>3. CASE f \notin Activities /\ f # "accel_calibscale"
      <4>1. req[u].arg \in [1..1 -> Int]
        BY <1>0, <1>1, <3>3, DummyAssumption
      <4>2. f \in WriteLocked \/ f = "height"
        BY <1>4, <3>3 DEF Refused, WriteAlone
      <4> QED
        BY <1>0, <2>1, <3>3, <4>1, <4>2, DummyWords
    <3> QED
      BY <3>1, <3>2, <3>3
  <2>3. ASSUME NEW v \in Users \ {u}, BetweenWords(v), req[v].file = f PROVE FALSE
    <3>1. st[f] \in [1..2 -> Int]
      BY <2>3 DEF BetweenWords, DummyCall
    <3>2. st[f] \in Legal[f]
      BY <1>0 DEF IInv, ValueInv
    <3>3. f \in WriteLocked
      <4>1. SUFFICES ASSUME f \notin WriteLocked PROVE FALSE
        OBVIOUS
      <4>2. f \in WriteAlone \ {"accel_calibscale"}
        BY <1>4, <4>1 DEF Refused, WriteLocked
      <4>3. st[f] \in [1..1 -> Int]
        BY <1>0, <3>2, <4>2, DummyWords
      <4> QED
        BY <3>1, <4>3
    <3>4. Holds(u) /\ Holds(v)
      BY <1>0, <2>3, <3>3 DEF Holds, ByLock, UnderLock, BetweenWords, DummyCall, IsRead
    <3> QED
      BY <3>4 DEF IInv, LockInv
  <2>4. \A v \in Users \ {u} : BetweenWords(v) => st'[req[v].file] = st[req[v].file]
    BY <2>1, <2>3 DEF IInv, ShapeInv, BetweenWords
  <2> QED
    BY <1>0, <1>1, <2>1, <2>2, <2>4
<1> QED
  BY <1>2, <1>3, <1>4

(* A load of the IIO dummy takes the next word; after the last one the     *)
(* reader has the value, which nobody has changed in between.              *)
LEMMA DummyLoads ==
  ASSUME IInv, NEW u \in Users, DummyLoad(u), NEW f, f = req[u].file
  PROVE  /\ DummyCall(u) /\ IsRead(u) /\ f \in DummyFiles /\ Holds(u)
         /\ ret[u].err = "pending"
         /\ \/ /\ Unanswered(u) /\ st[f] \in [1..2 -> Int]
               /\ Answer(u, [err |-> "pending", words |-> <<st[f][1]>>], "load")
            \/ Answer(u, Value(st[f]), "unlock")
<1>0. CallOf(u) /\ pc[u] = "load" /\ f \in DummyFiles
  BY DEF IInv, CallInv, DummyLoad, At
<1>1. /\ DummyCall(u) /\ IsRead(u)
      /\ \/ Unanswered(u)
         \/ /\ st[f] \in [1..2 -> Int]
            /\ ret[u] = [err |-> "pending", words |-> <<st[f][1]>>]
  BY <1>0, FilesApart DEF CallOf, NoCall, KdemoCall, DistanceCall, DummyCall
<1>2. ByLock(u) /\ After(u) = "unlock" /\ Holds(u)
  BY <1>0, <1>1 DEF IsRead, ByLock, UnderLock, After, Holds
<1>3. st[f] \in [1..1 -> Int] \cup [1..2 -> Int]
  BY <1>0, DummyWords DEF IInv, ValueInv
<1>4. ASSUME NEW read,
             read = Append(ret[u].words, st[f][Len(ret[u].words) + 1])
      PROVE  /\ Len(read) < Len(st[f]) =>
                  Answer(u, [err |-> "pending", words |-> read], "load")
             /\ ~(Len(read) < Len(st[f])) => Answer(u, Value(read), "unlock")
  BY <1>2, <1>4 DEF DummyLoad
<1>5. CASE Unanswered(u) /\ st[f] \in [1..1 -> Int]
  <2>1. ret[u].words = << >> /\ ret[u].err = "pending"
    BY <1>5 DEF Unanswered, Pending
  <2>2. /\ ~(Len(st[f]) < Len(st[f]))
        /\ st[f] = Append(ret[u].words, st[f][Len(ret[u].words) + 1])
    BY <1>5, <2>1
  <2>3. Answer(u, Value(st[f]), "unlock")
    BY <1>4, <2>2
  <2> QED
    BY <1>0, <1>1, <1>2, <2>1, <2>3
<1>6. CASE Unanswered(u) /\ st[f] \in [1..2 -> Int]
  <2>1. ret[u].words = << >> /\ ret[u].err = "pending"
    BY <1>6 DEF Unanswered, Pending
  <2>2. /\ Len(<<st[f][1]>>) < Len(st[f])
        /\ <<st[f][1]>> = Append(ret[u].words, st[f][Len(ret[u].words) + 1])
    <3>1. Len(<<st[f][1]>>) = 1 /\ Len(st[f]) = 2 /\ Len(<< >>) = 0
      BY <1>6
    <3>2. ASSUME NEW w PROVE Append(<< >>, w) = <<w>>
      OBVIOUS
    <3> QED
      BY <2>1, <3>1, <3>2
  <2>3. Answer(u, [err |-> "pending", words |-> <<st[f][1]>>], "load")
    BY <1>4, <2>2
  <2> QED
    BY <1>0, <1>1, <1>2, <1>6, <2>1, <2>3
<1>7. CASE /\ st[f] \in [1..2 -> Int]
           /\ ret[u] = [err |-> "pending", words |-> <<st[f][1]>>]
  <2>1. ret[u].words = <<st[f][1]>> /\ ret[u].err = "pending"
    BY <1>7
  <2>2. /\ ~(Len(st[f]) < Len(st[f]))
        /\ st[f] = Append(ret[u].words, st[f][Len(ret[u].words) + 1])
    BY <1>7, <2>1
  <2>3. Answer(u, Value(st[f]), "unlock")
    BY <1>4, <2>2
  <2> QED
    BY <1>0, <1>1, <1>2, <2>1, <2>3
<1> QED
  BY <1>1, <1>3, <1>5, <1>6, <1>7

(* A place in a callback of the IIO dummy.                                 *)
LEMMA DummyAt ==
  ASSUME IInv, NEW u \in Users, NEW p, At(u, DummyFiles, p)
  PROVE  DummyCall(u)
BY FilesApart DEF At, IInv, CallInv, CallOf, NoCall, NoReq, KdemoCall, DistanceCall

(* The mutex is taken only when it is free, and given back by its holder.  *)
LEMMA LockMoves ==
  ASSUME ShapeInv, LockInv, NEW u \in Users, Only(u),
         \/ lock = "free" /\ lock' = u /\ Holds(u)'
         \/ Holds(u) /\ lock' = "free" /\ ~Holds(u)'
  PROVE  LockInv'
<1>1. ASSUME NEW v \in Users \ {u} PROVE Holds(v)' <=> Holds(v)
  BY DEF ShapeInv, Only, Holds, ByLock
<1>2. ASSUME NEW v \in Users \ {u} PROVE ~Holds(v)
  BY DummyAssumption DEF LockInv
<1> QED
  BY <1>1, <1>2, DummyAssumption DEF LockInv

(* The callbacks of the IIO dummy.                                         *)
LEMMA DummyInv ==
  ASSUME IInv, NEW u \in Users, DummyStep(u), UNCHANGED <<ints, vlVars>>
  PROVE  IInv'
<1>0. ShapeInv /\ CallInv /\ LockInv /\ ValueInv /\ SensorInv /\ Only(u)
  BY OneCallMoves DEF IInv, Inside
<1>1. DummyCall(u) /\ req[u].file \in DummyFiles
  <2>1. \E p : At(u, DummyFiles, p)
    BY DEF DummyStep, DummyLock, DummyLoad, DummyStore, DummyUnlock
  <2> QED
    BY <2>1, DummyAt DEF At
<1>2. ASSUME CallOf(u)', ~Reading(u, "look")' /\ ~Reading(u, "fetch")',
             LockInv', st' = st
      PROVE  IInv'
  <2>1. ShapeInv'
    BY <1>0, <1>2, OneCallMoves DEF ShapeInv, Inside
  <2>2. CallInv'
    BY <1>0, <1>2, OthersKeep
  <2>3. ValueInv'
    BY <1>0, <1>2 DEF ValueInv
  <2>4. SensorInv'
    BY <1>0, <1>2, SensorKept
  <2> QED
    BY <1>2, <2>1, <2>2, <2>3, <2>4 DEF IInv
<1>3. CASE DummyLock(u)
  <2>1. /\ pc[u] = "lock" /\ lock = "free" /\ lock' = u /\ st' = st
        /\ pc'[u] = First(req[u].op) /\ req'[u] = req[u] /\ ret'[u] = ret[u]
    BY <1>0, <1>3 DEF DummyLock, At, Goto, ShapeInv
  <2>2. ByLock(u) /\ Unanswered(u)
    BY <1>1, <2>1 DEF DummyCall
  <2>3. CallOf(u)' /\ Holds(u)'
    BY <1>1, <2>1, <2>2
       DEF First, CallOf, DummyCall, IsRead, IsWrite, Unanswered, ByLock, Holds
  <2>4. ~Reading(u, "look")' /\ ~Reading(u, "fetch")'
    BY <1>1, <2>1, FilesApart DEF Reading, At
  <2>5. LockInv'
    BY <1>0, <2>1, <2>3, LockMoves
  <2> QED
    BY <1>2, <2>1, <2>3, <2>4, <2>5
<1>4. CASE DummyLoad(u)
  <2>1. st' = st /\ lock' = lock
    BY <1>4 DEF DummyLoad, dummyVars
  <2>2. /\ IsRead(u) /\ Holds(u)
        /\ \/ /\ st[req[u].file] \in [1..2 -> Int]
              /\ Answer(u, [err |-> "pending", words |-> <<st[req[u].file][1]>>], "load")
           \/ Answer(u, Value(st[req[u].file]), "unlock")
    BY <1>4, DummyLoads
  <2>3. /\ req'[u] = req[u]
        /\ \/ /\ st[req[u].file] \in [1..2 -> Int] /\ pc'[u] = "load"
              /\ ret'[u] = [err |-> "pending", words |-> <<st[req[u].file][1]>>]
           \/ pc'[u] = "unlock" /\ ret'[u].err # "pending"
    BY <1>0, <2>2 DEF Answer, ShapeInv, Value
  <2>4. Holds(u)' /\ ByLock(u)'
    BY <2>2, <2>3 DEF Holds, ByLock
  <2>5. CallOf(u)'
    BY <1>1, <2>1, <2>2, <2>3, <2>4 DEF CallOf, DummyCall, IsRead
  <2>6. ~Reading(u, "look")' /\ ~Reading(u, "fetch")'
    BY <1>1, <2>3, FilesApart DEF Reading, At
  <2>7. LockInv'
    BY <1>0, <2>1, <2>2, <2>4, LockKept
  <2> QED
    BY <1>2, <2>1, <2>5, <2>6, <2>7
<1>5. CASE DummyStore(u)
  <2>1. /\ IsWrite(u) /\ Unanswered(u)
        /\ \/ st' = st
           \/ /\ st' = [st EXCEPT ![req[u].file] = st'[req[u].file]]
              /\ st'[req[u].file] \in Legal[req[u].file]
        /\ \A v \in Users \ {u} : BetweenWords(v) =>
             st'[req[v].file] = st[req[v].file]
    BY <1>5, DummyStores
  <2>2. /\ pc[u] = "store" /\ lock' = lock /\ req'[u] = req[u]
        /\ pc'[u] = After(u) /\ ret'[u].err # "pending"
    BY <1>0, <1>5 DEF DummyStore, At, Answer, ShapeInv, Error, Stored, Value
  <2>3. CallOf(u)' /\ (Holds(u)' <=> Holds(u))
    <3>1. ByLock(u)' <=> ByLock(u)
      BY <2>2 DEF ByLock
    <3>2. CASE ByLock(u)
      <4>1. pc'[u] = "unlock"
        BY <2>2, <3>2 DEF After, ByLock
      <4>2. Holds(u)' <=> Holds(u)
        BY <2>2, <3>1, <3>2, <4>1 DEF Holds
      <4>3. DummyCall(u)'
        BY <1>1, <2>1, <2>2, <3>1, <3>2, <4>1 DEF DummyCall, IsWrite, IsRead
      <4> QED
        BY <4>2, <4>3 DEF CallOf
    <3>3. CASE ~ByLock(u)
      <4>1. pc'[u] = "return"
        BY <2>2, <3>3 DEF After, ByLock
      <4>2. Holds(u)' <=> Holds(u)
        BY <2>2, <3>1, <3>3, <4>1 DEF Holds
      <4>3. DummyCall(u)'
        BY <1>1, <2>1, <2>2, <3>1, <3>3, <4>1 DEF DummyCall, IsWrite, IsRead
      <4> QED
        BY <4>2, <4>3 DEF CallOf
    <3> QED
      BY <3>2, <3>3
  <2>4. ~Reading(u, "look")' /\ ~Reading(u, "fetch")'
    BY <1>1, <2>2, FilesApart DEF Reading, At
  <2>5. ShapeInv' /\ ValueInv'
    <3>1. ValueInv'
      BY <1>0, <2>1 DEF ValueInv, ShapeInv
    <3>2. ShapeInv'
      BY <1>0, <2>1, OneCallMoves DEF ShapeInv, Inside
    <3> QED
      BY <3>1, <3>2
  <2>6. CallInv'
    BY <1>0, <2>1, <2>3, OthersKeep
  <2>7. LockInv'
    BY <1>0, <2>2, <2>3, LockKept
  <2>8. SensorInv'
    BY <1>0, <2>4, SensorKept
  <2> QED
    BY <2>5, <2>6, <2>7, <2>8 DEF IInv
<1>6. CASE DummyUnlock(u)
  <2>1. /\ pc[u] = "unlock" /\ lock' = "free" /\ st' = st
        /\ pc'[u] = "idle" /\ req'[u] = NoReq /\ ret'[u] = Pending
    BY <1>0, <1>6 DEF DummyUnlock, At, Back, ShapeInv
  <2>2. Holds(u)
    BY <1>1, <2>1 DEF DummyCall, Holds
  <2>3. CallOf(u)' /\ ~Holds(u)' /\ ~Reading(u, "look")' /\ ~Reading(u, "fetch")'
    BY <2>1 DEF CallOf, NoCall, Unanswered, Holds, Reading, At
  <2>4. LockInv'
    BY <1>0, <2>1, <2>2, <2>3, LockMoves
  <2> QED
    BY <1>2, <2>1, <2>3, <2>4
<1> QED
  BY <1>3, <1>4, <1>5, <1>6 DEF DummyStep

(* A place in the callback of the sensor.                                  *)
LEMMA DistanceAt ==
  ASSUME IInv, NEW u \in Users, NEW p, Reading(u, p)
  PROVE  DistanceCall(u)
<1>1. req[u].file = "distance" /\ CallOf(u)
  BY DEF Reading, At, IInv, CallInv
<1>2. ~NoCall(u)
  BY <1>1 DEF NoCall, NoReq
<1> QED
  BY <1>1, <1>2, FilesApart DEF CallOf, KdemoCall, DummyCall

(* The callback of the sensor: what a step does to its own call and to     *)
(* what is known of the chip.                                              *)
LEMMA DistanceMoves ==
  ASSUME IInv, NEW u \in Users, DistanceStep(u)
  PROVE  /\ DistanceCall(u) /\ Unanswered(u) /\ req'[u] = req[u]
         /\ \/ pc'[u] \in {"look", "fetch"} /\ ret'[u] = ret[u]
            \/ pc'[u] = "return" /\ ret'[u].err # "pending"
         /\ chip' = chip \/ ChipStarts
         /\ fresh' = fresh \/ fresh' = fresh \ {u}
         /\ pc'[u] = "fetch" => u \in fresh'
         /\ pc'[u] = "look" /\ chip'.complete => u \in fresh'
         /\ tries' = tries \/ Forget(u)
            \/ (tries[u] # 1 /\ tries' = [tries EXCEPT ![u] = @ - 1])
         /\ stage' = stage
<1>0. ShapeInv /\ SensorInv
  BY DEF IInv
<1>1. DistanceCall(u) /\ pc[u] \in {"start", "look", "fetch"} /\ Unanswered(u)
  <2>1. \E p \in {"start", "look", "fetch"} : Reading(u, p)
    BY DEF DistanceStep, Start, TransferFails, LookComplete, LookAgain, Fetch
  <2> QED
    BY <2>1, DistanceAt DEF DistanceCall, Reading, At
<1>2. CASE Start(u)
  <2>1. /\ pc'[u] = "look" /\ ret'[u] = ret[u] /\ req'[u] = req[u]
        /\ tries' = tries /\ stage' = stage /\ ChipStarts /\ fresh' = fresh \ {u}
    BY <1>0, <1>2 DEF Start, Goto, ShapeInv
  <2>2. chip'.complete = FALSE
    BY <1>0, <2>1 DEF ChipStarts, SensorInv
  <2> QED
    BY <1>1, <2>1, <2>2
<1>3. CASE TransferFails(u)
  BY <1>0, <1>1, <1>3 DEF TransferFails, Answer, ShapeInv, Error
<1>4. CASE LookComplete(u)
  BY <1>0, <1>1, <1>4 DEF LookComplete, Goto, ShapeInv, SensorInv
<1>5. CASE LookAgain(u)
  <2>1. CASE tries[u] = 1
    BY <1>0, <1>1, <1>5, <2>1 DEF LookAgain, Answer, ShapeInv, Error
  <2>2. CASE tries[u] # 1
    BY <1>0, <1>1, <1>5, <2>2 DEF LookAgain, callVars, Reading, At
  <2> QED
    BY <2>1, <2>2
<1>6. CASE Fetch(u)
  BY <1>0, <1>1, <1>6 DEF Fetch, Answer, ShapeInv, Error, Value
<1> QED
  BY <1>2, <1>3, <1>4, <1>5, <1>6 DEF DistanceStep

(* A callback of the sensor keeps the invariant.                           *)
LEMMA DistanceInv ==
  ASSUME IInv, NEW u \in Users, DistanceStep(u), UNCHANGED <<dummyVars, ints>>
  PROVE  IInv'
<1>0. ShapeInv /\ CallInv /\ LockInv /\ ValueInv /\ SensorInv /\ Only(u)
  BY OneCallMoves DEF IInv, Inside
<1>1. ShapeInv'
  BY <1>0, OneCallMoves DEF ShapeInv, Inside, dummyVars
<1>2. CallOf(u)' /\ ~Holds(u) /\ ~Holds(u)'
  BY DistanceMoves, FilesApart
     DEF CallOf, DistanceCall, IsRead, Unanswered, Holds
<1>3. CallInv'
  BY <1>0, <1>2, OthersKeep DEF dummyVars
<1>4. LockInv'
  BY <1>0, <1>2, LockKept DEF dummyVars
<1>5. ValueInv'
  BY <1>0 DEF ValueInv, dummyVars
<1>6. SensorInv'
  <2>1. stage' \in {"unbound", "bound", "removing"} /\ fresh' \subseteq Users
        /\ chip' \in [busy : BOOLEAN, complete : BOOLEAN, result : Samples]
    BY <1>0, DistanceMoves DEF SensorInv, ChipStarts
  <2>2. tries' \in [Users -> 1..MaxTries]
    BY <1>0, DistanceMoves, TriesAssumption DEF SensorInv, Forget
  <2>3. Reading(u, "fetch")' => u \in fresh'
    BY DistanceMoves DEF Reading, At
  <2>4. Reading(u, "look")' /\ chip'.complete => u \in fresh'
    BY DistanceMoves DEF Reading, At
  <2>5. ASSUME NEW v \in Users \ {u}
        PROVE  /\ Reading(v, "fetch")' => v \in fresh'
               /\ Reading(v, "look")' /\ chip'.complete => v \in fresh'
    <3>1. ASSUME NEW p PROVE Reading(v, p)' <=> Reading(v, p)
      BY <1>0 DEF ShapeInv, Only, Reading, At
    <3>2. v \in fresh => v \in fresh'
      BY DistanceMoves
    <3>3. chip'.complete => chip.complete
      BY <1>0, DistanceMoves DEF SensorInv, ChipStarts
    <3> QED
      BY <1>0, <3>1, <3>2, <3>3 DEF SensorInv
  <2> QED
    BY <2>1, <2>2, <2>3, <2>4, <2>5 DEF SensorInv
<1> QED
  BY <1>1, <1>3, <1>4, <1>5, <1>6 DEF IInv

(* The driver comes and goes, and the chip completes a measurement.        *)
LEMMA SensorStepInv == ASSUME IInv, Sensor PROVE IInv'
<1>0. ShapeInv /\ CallInv /\ LockInv /\ ValueInv /\ SensorInv
  BY DEF IInv
<1>1. UNCHANGED <<callVars, dummyVars, ints>>
  BY DEF Sensor
<1>2. ShapeInv' /\ LockInv' /\ ValueInv'
  BY <1>0, <1>1
     DEF ShapeInv, LockInv, ValueInv, Holds, ByLock, callVars, dummyVars
<1>3. CallInv'
  BY <1>0, <1>1
     DEF CallInv, CallOf, NoCall, DummyCall, KdemoCall, DistanceCall, IsRead, IsWrite,
         ByLock, Unanswered, callVars, dummyVars
<1>4. ASSUME NEW v \in Users, NEW p PROVE Reading(v, p)' <=> Reading(v, p)
  BY <1>1 DEF Reading, At, callVars
<1>5. SensorInv'
  <2>1. CASE Probe \/ Remove \/ Removed
    BY <1>0, <1>4, <2>1 DEF SensorInv, Probe, Remove, Removed
  <2>2. CASE ChipCompletes
    BY <1>0, <1>4, <2>2 DEF SensorInv, ChipCompletes
  <2> QED
    BY <2>1, <2>2 DEF Sensor
<1> QED
  BY <1>2, <1>3, <1>5 DEF IInv

(* The invariant is inductive.                                             *)
LEMMA StepInv == ASSUME IInv, [Next]_vars PROVE IInv'
<1>1. ASSUME NEW u \in Users, Inside(u) PROVE IInv'
  BY <1>1, DummyInv, KdemoInv, DistanceInv, ReturnInv DEF Inside
<1>2. CASE UNCHANGED vars
  BY <1>2 DEF vars, callVars, dummyVars, vlVars, IInv, ShapeInv, CallInv, CallOf,
              NoCall, DummyCall, KdemoCall, DistanceCall, IsRead, IsWrite, ByLock,
              Unanswered, LockInv, Holds, ValueInv, SensorInv, Reading, At
<1> QED
  BY <1>1, <1>2, EnterInv, SensorStepInv DEF Next

(* It holds always.                                                        *)
THEOREM Invariant == Spec => []IInv
BY InitInv, StepInv, PTL DEF Spec

-----------------------------------------------------------------------------
(* What follows from it.                                                   *)

(* Only legal values get into the structures, the lock has its holder      *)
(* inside a callback, and every call is at a place that its file has.      *)
THEOREM TypeCorrect == Spec => []TypeOK
<1>1. IInv => TypeOK
  <2> SUFFICES ASSUME IInv PROVE TypeOK
    OBVIOUS
  <2>1. ASSUME NEW u \in Users
        PROVE  /\ req[u] = NoReq <=> pc[u] = "idle"
               /\ req[u].file \in DummyFiles =>
                    pc[u] \in {"lock", "load", "store", "unlock", "return"}
               /\ req[u].file \in KdemoFiles => pc[u] \in {"show", "kstrtoint", "return"}
               /\ req[u].file = "distance" => pc[u] \in {"start", "look", "fetch", "return"}
    <3>1. CASE NoCall(u)
      BY <3>1, FilesApart DEF NoCall, NoReq
    <3>2. CASE DummyCall(u)
      BY <3>2, FilesApart DEF DummyCall, NoReq
    <3>3. CASE KdemoCall(u)
      BY <3>3, FilesApart DEF KdemoCall, NoReq
    <3>4. CASE DistanceCall(u)
      BY <3>4, FilesApart DEF DistanceCall, NoReq
    <3> QED
      BY <3>1, <3>2, <3>3, <3>4 DEF IInv, CallInv, CallOf
  <2>2. lock = "free" \/ req[lock].file \in DummyFiles
    BY DEF IInv, LockInv, Holds
  <2> QED
    BY <2>1, <2>2 DEF IInv, ValueInv, SensorInv, TypeOK
<1> QED
  BY <1>1, Invariant, PTL

(* A step changes the answer to one call only, and to a distance only in   *)
(* the callback of the sensor.                                             *)
LEMMA DistanceAnswer ==
  ASSUME IInv, Next, NEW u \in Users,
         req[u].file = "distance", ret[u] = Pending, ret'[u] # Pending
  PROVE  DistanceStep(u)
<1>0. ShapeInv /\ CallOf(u)
  BY DEF IInv, CallInv
<1>1. DistanceCall(u) /\ pc[u] \notin {"idle", "return"}
  BY <1>0, FilesApart
     DEF CallOf, NoCall, NoReq, DummyCall, KdemoCall, DistanceCall, Pending
<1>2. PICK v \in Users : Enters(v) \/ Inside(v)
  BY DEF Next, Sensor, callVars
<1>3. v = u
  BY <1>0, <1>2, OneCallMoves DEF Only, ShapeInv
<1>4. ~Enters(u)
  BY <1>1 DEF Enters, DummyRead, DummyWrite, KdemoRead, KdemoWrite, DistanceRead, Call
<1>5. ~DummyStep(u)
  BY FilesApart DEF DummyStep, DummyLock, DummyLoad, DummyStore, DummyUnlock, At
<1>6. ~KdemoStep(u)
  BY FilesApart DEF KdemoStep, KdemoShow, KdemoStore, At
<1>7. ~Return(u)
  BY <1>1 DEF Return
<1> QED
  BY <1>2, <1>3, <1>4, <1>5, <1>6, <1>7 DEF Inside

(* A reader of the VL53L0X that gets a distance gets one of a measurement  *)
(* that ended after its start, whatever other readers started and fetched  *)
(* in between; and it is told of a timeout only if the last look found no  *)
(* result.                                                                 *)
THEOREM DistancesAreHonest == Spec => DistanceHonest
<1> DEFINE Honest(u) ==
      req[u].file = "distance" /\ ret[u] = Pending /\ ret'[u] # Pending =>
        /\ ret'[u].err = "none" => u \in fresh /\ ret'[u].words = <<chip.result>>
        /\ ret'[u].err = "ETIMEDOUT" => ~chip.complete
<1>1. ASSUME IInv, Next, NEW u \in Users PROVE Honest(u)
  <2> SUFFICES ASSUME req[u].file = "distance", ret[u] = Pending, ret'[u] # Pending
               PROVE  /\ ret'[u].err = "none" =>
                           u \in fresh /\ ret'[u].words = <<chip.result>>
                      /\ ret'[u].err = "ETIMEDOUT" => ~chip.complete
    OBVIOUS
  <2>0. ShapeInv /\ SensorInv
    BY <1>1 DEF IInv
  <2>1. DistanceStep(u)
    BY <1>1, DistanceAnswer
  <2>2. CASE Start(u) \/ LookComplete(u)
    BY <2>0, <2>2 DEF Start, LookComplete, Goto, ShapeInv
  <2>3. CASE TransferFails(u)
    BY <2>0, <2>3 DEF TransferFails, Answer, Error, ShapeInv
  <2>4. CASE LookAgain(u)
    <3>1. CASE tries[u] = 1
      BY <2>0, <2>4, <3>1 DEF LookAgain, Answer, Error, ShapeInv
    <3>2. CASE tries[u] # 1
      BY <2>0, <2>4, <3>2 DEF LookAgain, callVars
    <3> QED
      BY <3>1, <3>2
  <2>5. CASE Fetch(u)
    BY <2>0, <2>5 DEF Fetch, Answer, Error, Value, ShapeInv, SensorInv
  <2> QED
    BY <2>1, <2>2, <2>3, <2>4, <2>5 DEF DistanceStep
<1>2. IInv /\ [Next]_vars => [\A u \in Users : Honest(u)]_vars
  BY <1>1
<1> QED
  BY <1>2, Invariant, PTL DEF Spec, DistanceHonest

-----------------------------------------------------------------------------
(* Every call looks as if it took effect at one moment: each step of the   *)
(* drivers is a step of AtomicFiles or changes nothing there.              *)

Answers == [u \in Users |-> Settled(u)]

CanWrite == KdemoFiles \cup (DummyFiles \cap (WriteLocked \cup WriteAlone))

(* Every file has a legal value.                                           *)
LEMMA ValuesLegal ==
  ASSUME IInv, NEW f \in Files PROVE Values[f] \in Legal[f]
<1>1. CASE f \in DummyFiles
  BY <1>1, FilesApart DEF Values, IInv, ValueInv
<1>2. CASE f \in KdemoFiles
  BY <1>2, FilesApart DEF Values, IInv, ValueInv
<1>3. CASE f = "distance"
  BY <1>3, FilesApart, DistanceWords DEF Values, IInv, SensorInv
<1> QED
  BY <1>1, <1>2, <1>3 DEF Files

(* What a file shows is what is stored for it.                             *)
LEMMA ValueOf ==
  /\ \A f \in DummyFiles : f \in Files /\ Values[f] = st[f]
  /\ \A f \in KdemoFiles : f \in Files /\ Values[f] = ints[f]
  /\ "distance" \in Files /\ Values["distance"] = <<chip.result>>
BY FilesApart DEF Files, Values

(* A store changes the value of its file and of no other.                  *)
LEMMA DummyValue ==
  ASSUME ShapeInv, NEW f \in DummyFiles, st' = [st EXCEPT ![f] = st'[f]],
         UNCHANGED <<ints, vlVars>>
  PROVE  Values' = [Values EXCEPT ![f] = st'[f]] /\ Values'[f] = st'[f]
BY FilesApart DEF ShapeInv, Values, Files, vlVars

LEMMA KdemoValue ==
  ASSUME ShapeInv, NEW f \in KdemoFiles, ints' = [ints EXCEPT ![f] = ints'[f]],
         UNCHANGED <<dummyVars, vlVars>>
  PROVE  Values' = [Values EXCEPT ![f] = ints'[f]] /\ Values'[f] = ints'[f]
BY FilesApart DEF ShapeInv, Values, Files, vlVars, dummyVars

(* Who stores nothing changes no value.                                    *)
LEMMA SameValues ==
  ASSUME UNCHANGED <<st, ints>>, chip'.result = chip.result
  PROVE  Values' = Values
BY DEF Values

(* One call is answered.                                                   *)
LEMMA OneAnswer ==
  ASSUME ShapeInv, NEW u \in Users, Only(u)
  PROVE  /\ Answers' = [Answers EXCEPT ![u] = Settled(u)']
         /\ Settled(u)' = Settled(u) => Answers' = Answers
<1>1. \A v \in Users \ {u} : Settled(v)' = Settled(v)
  BY DEF ShapeInv, Only, Settled
<1> QED
  BY <1>1 DEF Answers

(* What is settled was not, or stays so.                                   *)
LEMMA SettledIs ==
  ASSUME NEW u \in Users
  PROVE  /\ Unanswered(u) => Settled(u) = Pending
         /\ ret[u].err # "pending" => Settled(u) = ret[u] /\ Settled(u) # Pending
         /\ ret[u].err = "pending" => Settled(u) = Pending
BY DEF Unanswered, Settled, Pending

(* The variables of AtomicFiles.                                           *)
LEMMA AbstractSame ==
  ASSUME Values' = Values, req' = req, Answers' = Answers
  PROVE  UNCHANGED Atomic!vars
BY DEF Atomic!vars, Answers

(* The initial states are those of AtomicFiles.                            *)
LEMMA AtomicInit == Init => Atomic!Init
<1> SUFFICES ASSUME Init PROVE Atomic!Init
  OBVIOUS
<1>1. DOMAIN Values = Files /\ \A f \in Files : Values[f] \in Legal[f]
  BY InitInv, ValuesLegal DEF Values
<1>2. req = [u \in Users |-> Atomic!NoReq]
  BY DEF Init, InitCalls, NoReq, Atomic!NoReq
<1>3. Answers = [u \in Users |-> Atomic!Pending]
  BY DEF Init, InitCalls, Answers, Settled, Pending, Atomic!Pending
<1> QED
  BY <1>1, <1>2, <1>3 DEF Atomic!Init, Answers

(* Who enters a callback asks.                                             *)
LEMMA EnterAsks ==
  ASSUME IInv, NEW u \in Users, Enters(u) PROVE Atomic!Ask(u)
<1>0. ShapeInv /\ CallInv /\ Only(u)
  BY OneCallMoves DEF IInv
<1>1. UNCHANGED <<dummyVars, ints, vlVars>> /\ ret' = ret /\ pc[u] = "idle"
  BY Zenon DEF Enters, DummyRead, DummyWrite, KdemoRead, KdemoWrite, DistanceRead,
               Call
<1>2. req[u] = NoReq
  BY <1>0, <1>1
     DEF CallInv, CallOf, NoCall, DummyCall, KdemoCall, DistanceCall
<1>3. \E f, op, x, p : f \in Files /\ Call(u, f, op, x, p)
  BY Zenon DEF Enters, DummyRead, DummyWrite, KdemoRead, KdemoWrite, DistanceRead, Files
<1>4. req'[u].file \in Files /\ req'[u] # NoReq
  <2>1. PICK f, op, x, p : f \in Files /\ Call(u, f, op, x, p)
    BY <1>3
  <2>2. req'[u] = [file |-> f, op |-> op, arg |-> x]
    BY <1>0, <2>1 DEF Call, ShapeInv
  <2> QED
    BY <2>1, <2>2, FilesApart DEF NoReq, Files
<1>5. Values' = Values /\ Answers' = Answers
  BY <1>1, SameValues DEF dummyVars, vlVars, Answers, Settled
<1> QED
  BY <1>0, <1>2, <1>4, <1>5 DEF Only, Atomic!Ask, Atomic!NoReq, NoReq, Answers

(* Who returns replies.                                                    *)
LEMMA BackReplies ==
  ASSUME ShapeInv, NEW u \in Users, Back(u), ret[u].err # "pending", Values' = Values
  PROVE  Atomic!Reply(u)
<1>1. Only(u) /\ Settled(u)' = Pending
  BY DEF Back, ShapeInv, Only, Settled
<1>2. Answers[u] # Pending /\ Answers' = [Answers EXCEPT ![u] = Pending]
  BY <1>1, OneAnswer, SettledIs DEF Answers
<1> QED
  BY <1>2 DEF Back, Atomic!Reply, Atomic!NoReq, Atomic!Pending, NoReq, Pending, Answers

(* What is answered becomes settled.                                       *)
LEMMA AnswerSettles ==
  ASSUME ShapeInv, NEW u \in Users, NEW a, NEW p, Answer(u, a, p), a.err # "pending",
         ret[u].err = "pending"
  PROVE  /\ Answers[u] = Pending /\ Answers' = [Answers EXCEPT ![u] = a]
         /\ req' = req
<1>1. Only(u) /\ Settled(u)' = a
  BY DEF Answer, ShapeInv, Only, Settled
<1>2. Settled(u) = Pending
  BY SettledIs
<1> QED
  BY <1>1, <1>2, OneAnswer DEF Answer, Answers

(* The callbacks of the kobject demo take effect where they show or store. *)
LEMMA KdemoTakesEffect ==
  ASSUME IInv, NEW u \in Users, KdemoStep(u), UNCHANGED <<dummyVars, vlVars>>
  PROVE  Atomic!Read(u) \/ Atomic!Write(u) \/ Atomic!Refuse(u)
<1> DEFINE f == req[u].file
<1>0. ShapeInv /\ CallOf(u) /\ f \in KdemoFiles /\ pc[u] # "return" /\ pc[u] # "idle"
  BY DEF IInv, CallInv, KdemoStep, KdemoShow, KdemoStore, At
<1>1. KdemoCall(u) /\ Unanswered(u) /\ ret[u].err = "pending"
  BY <1>0, FilesApart
     DEF CallOf, NoCall, KdemoCall, DummyCall, DistanceCall, Unanswered, Pending
<1>2. Var(f) = f
  BY <1>0, KdemoAssumption DEF Var
<1>3. CASE KdemoShow(u)
  <2>1. Answer(u, Value(ints[f]), "return") /\ ints' = ints /\ IsRead(u)
    BY <1>1, <1>2, <1>3 DEF KdemoShow, KdemoCall, At
  <2>2. Values' = Values /\ Values[f] = ints[f]
    BY <1>0, <2>1, SameValues, ValueOf DEF dummyVars, vlVars
  <2>3. /\ Answers[u] = Pending /\ req' = req
        /\ Answers' = [Answers EXCEPT ![u] = Value(ints[f])]
    BY <1>0, <1>1, <2>1, AnswerSettles DEF Value
  <2> QED
    BY <2>1, <2>2, <2>3
       DEF IsRead, Value, Answers, Pending, Atomic!Read, Atomic!Asked, Atomic!Pending
<1>4. CASE KdemoStore(u) /\ req[u].arg = << >>
  <2>1. Answer(u, Error("EINVAL"), "return") /\ ints' = ints /\ IsWrite(u)
    BY <1>1, <1>4 DEF KdemoStore, KdemoCall, At
  <2>2. Values' = Values /\ req[u].arg \notin Legal[f]
    <3>1. << >> \notin [1..1 -> Int]
      OBVIOUS
    <3> QED
      BY <1>0, <1>4, <2>1, <3>1, SameValues, KdemoWords DEF dummyVars, vlVars
  <2>3. /\ Answers[u] = Pending /\ req' = req
        /\ Answers' = [Answers EXCEPT ![u] = Error("EINVAL")]
    BY <1>0, <1>1, <2>1, AnswerSettles DEF Error
  <2> QED
    BY <2>1, <2>2, <2>3
       DEF IsWrite, Error, Answers, Pending, Atomic!Refuse, Atomic!Asked, Atomic!Pending
<1>5. CASE KdemoStore(u) /\ req[u].arg # << >>
  <2>1. /\ Answer(u, Stored, "return") /\ ints' = [ints EXCEPT ![f] = req[u].arg]
        /\ IsWrite(u) /\ req[u].arg \in KdemoArgs
    BY <1>1, <1>2, <1>5 DEF KdemoStore, KdemoCall, At
  <2>2. ints'[f] = req[u].arg /\ req[u].arg \in Legal[f]
    BY <1>0, <1>5, <2>1, KdemoAssumption, KdemoWords DEF ShapeInv
  <2>3. Values' = [Values EXCEPT ![f] = Values'[f]] /\ Values'[f] = req[u].arg
    BY <1>0, <2>1, <2>2, KdemoValue
  <2>4. /\ Answers[u] = Pending /\ req' = req
        /\ Answers' = [Answers EXCEPT ![u] = Stored]
    BY <1>0, <1>1, <2>1, AnswerSettles DEF Stored, Value
  <2> QED
    BY <1>0, <2>1, <2>2, <2>3, <2>4
       DEF IsWrite, Stored, Value, Answers, Pending, Atomic!Write, Atomic!Asked,
           Atomic!Pending
<1> QED
  BY <1>3, <1>4, <1>5 DEF KdemoStep

(* A store into the IIO dummy takes effect there: what was given, or the   *)
(* nearest legal value, or nothing at all.                                 *)
LEMMA DummyStoreTakesEffect ==
  ASSUME IInv, NEW u \in Users, DummyStore(u), UNCHANGED <<ints, vlVars>>
  PROVE  Atomic!Write(u) \/ Atomic!Refuse(u)
<1> DEFINE f == req[u].file
           x == req[u].arg
<1>0. ShapeInv /\ f \in DummyFiles /\ f \notin KdemoFiles
  BY FilesApart DEF IInv, DummyStore, At
<1>1. IsWrite(u) /\ Unanswered(u) /\ ret[u].err = "pending" /\ x \in DummyArgs[f]
  <2>1. DummyCall(u) /\ IsWrite(u) /\ Unanswered(u)
    BY DummyStores
  <2> QED
    BY <2>1 DEF Unanswered, Pending, DummyCall, IsRead, IsWrite
<1>2. CASE Refused(f, x)
  <2>1. st' = st /\ Answer(u, Error("EINVAL"), After(u))
    BY <1>2 DEF DummyStore
  <2>2. Values' = Values
    BY <2>1, SameValues DEF vlVars
  <2>3. f \notin CanWrite \/ x \notin Legal[f]
    BY <1>0, <1>2, DummyWords DEF Refused, CanWrite
  <2>4. /\ Answers[u] = Pending /\ req' = req
        /\ Answers' = [Answers EXCEPT ![u] = Error("EINVAL")]
    BY <1>0, <1>1, <2>1, AnswerSettles DEF Error
  <2> QED
    BY <1>1, <2>2, <2>3, <2>4
       DEF IsWrite, Error, Answers, Pending, CanWrite, Atomic!Refuse, Atomic!Asked,
           Atomic!Pending
<1>3. CASE ~Refused(f, x)
  <2>1. /\ Answer(u, Stored, After(u)) /\ f \in CanWrite
        /\ st' = [st EXCEPT ![f] = IF f \in Activities THEN <<Clamped(x[1])>> ELSE x]
    BY <1>0, <1>3 DEF DummyStore, Refused, CanWrite
  <2>2. /\ st' = [st EXCEPT ![f] = st'[f]]
        /\ st'[f] = IF f \in Activities THEN <<Clamped(x[1])>> ELSE x
    BY <1>0, <2>1 DEF ShapeInv
  <2>3. st'[f] \in Legal[f]
    <3>1. st[f] \in Legal[f]
      BY <1>0 DEF IInv, ValueInv
    <3> QED
      BY <3>1, DummyStores
  <2>4. IF x \in Legal[f] THEN st'[f] = x ELSE Atomic!Nearest(st'[f], x, Legal[f])
    <3>1. CASE f \in Activities
      <4>1. Legal[f] = {<<n>> : n \in 0..100} /\ x \in [1..1 -> Int]
        BY <1>0, <1>1, <3>1, DummyWords, DummyAssumption DEF Activities
      <4>2. st'[f] = <<Clamped(x[1])>> /\ x[1] \in Int /\ x = <<x[1]>>
        BY <2>2, <3>1, <4>1
      <4>3. x \in Legal[f] <=> x[1] \in 0..100
        BY <4>1, <4>2
      <4>4. CASE x[1] \in 0..100
        BY <4>2, <4>3, <4>4 DEF Clamped
      <4>5. CASE x[1] \notin 0..100
        <5>1. Atomic!Nearest(<<Clamped(x[1])>>, x, {<<n>> : n \in 0..100})
          BY <4>2, <4>5 DEF Clamped, Atomic!Nearest, Atomic!Away
        <5> QED
          BY <4>1, <4>2, <4>3, <4>5, <5>1
      <4> QED
        BY <4>4, <4>5
    <3>2. CASE f \notin Activities
      BY <2>2, <2>3, <3>2
    <3> QED
      BY <3>1, <3>2
  <2>5. Values' = [Values EXCEPT ![f] = Values'[f]] /\ Values'[f] = st'[f]
    BY <1>0, <2>2, DummyValue
  <2>6. /\ Answers[u] = Pending /\ req' = req
        /\ Answers' = [Answers EXCEPT ![u] = Stored]
    BY <1>0, <1>1, <2>1, AnswerSettles DEF Stored, Value
  <2> QED
    BY <1>1, <2>1, <2>3, <2>4, <2>5, <2>6
       DEF IsWrite, Stored, Value, Answers, Pending, CanWrite, Atomic!Write,
           Atomic!Asked, Atomic!Pending
<1> QED
  BY <1>2, <1>3

(* A read of the IIO dummy takes effect with its last load, for nobody has *)
(* changed the words before; the mutex changes no value.                   *)
LEMMA DummyTakesEffect ==
  ASSUME IInv, NEW u \in Users, DummyStep(u), UNCHANGED <<ints, vlVars>>
  PROVE  \/ Atomic!Read(u) \/ Atomic!Write(u) \/ Atomic!Refuse(u) \/ Atomic!Reply(u)
         \/ UNCHANGED Atomic!vars
<1> DEFINE f == req[u].file
<1>0. ShapeInv /\ Only(u)
  BY OneCallMoves DEF IInv, Inside
<1>1. CASE DummyLock(u)
  <2>1. st' = st /\ req' = req /\ ret' = ret
    BY <1>1 DEF DummyLock, Goto
  <2> QED
    BY <2>1, SameValues, AbstractSame DEF vlVars, Answers, Settled
<1>2. CASE DummyLoad(u)
  <2>1. st' = st /\ Values' = Values
    BY <1>2, SameValues DEF DummyLoad, dummyVars, vlVars
  <2>2. IsRead(u) /\ f \in DummyFiles /\ ret[u].err = "pending"
    BY <1>2, DummyLoads
  <2>3. CASE Answer(u, [err |-> "pending", words |-> <<st[f][1]>>], "load")
    <3>1. Settled(u)' = Pending /\ Settled(u) = Pending
      BY <1>0, <2>2, <2>3, SettledIs DEF Answer, ShapeInv, Settled
    <3> QED
      BY <1>0, <2>1, <2>3, <3>1, OneAnswer, AbstractSame DEF Answer
  <2>4. CASE Answer(u, Value(st[f]), "unlock")
    <3>1. /\ Answers[u] = Pending /\ req' = req
          /\ Answers' = [Answers EXCEPT ![u] = Value(st[f])]
      BY <1>0, <2>2, <2>4, AnswerSettles DEF Value
    <3>2. Values[f] = st[f]
      BY <2>2, ValueOf
    <3> QED
      BY <2>1, <2>2, <3>1, <3>2
         DEF IsRead, Value, Answers, Pending, Atomic!Read, Atomic!Asked, Atomic!Pending
  <2> QED
    BY <1>2, <2>3, <2>4, DummyLoads
<1>3. CASE DummyStore(u)
  BY <1>3, DummyStoreTakesEffect
<1>4. CASE DummyUnlock(u)
  <2>1. st' = st /\ Back(u) /\ pc[u] = "unlock" /\ DummyCall(u)
    BY <1>4, DummyAt DEF DummyUnlock, At
  <2>2. ret[u].err # "pending"
    BY <2>1 DEF DummyCall
  <2> QED
    BY <1>0, <2>1, <2>2, SameValues, BackReplies DEF vlVars
<1> QED
  BY <1>1, <1>2, <1>3, <1>4 DEF DummyStep

(* An error of the sensor's callback is a failed read.                     *)
LEMMA DistanceFails ==
  ASSUME ShapeInv, NEW u \in Users, DistanceCall(u), Unanswered(u),
         Values' = Values,
         NEW e \in {"EIO", "EREMOTEIO", "ETIMEDOUT"}, Answer(u, Error(e), "return")
  PROVE  Atomic!Fail(u)
<1>1. /\ Answers[u] = Pending /\ req' = req
      /\ Answers' = [Answers EXCEPT ![u] = [err |-> e, words |-> << >>]]
  BY AnswerSettles DEF Error, Unanswered, Pending
<1> QED
  BY <1>1 DEF DistanceCall, IsRead, Answers, Pending, Atomic!Fail, Atomic!Asked,
              Atomic!Pending

(* A read of the sensor takes effect where it fetches or fails.            *)
LEMMA DistanceTakesEffect ==
  ASSUME IInv, NEW u \in Users, DistanceStep(u), UNCHANGED <<dummyVars, ints>>
  PROVE  Atomic!Read(u) \/ Atomic!Fail(u) \/ UNCHANGED Atomic!vars
<1>0. ShapeInv /\ DistanceCall(u) /\ Unanswered(u) /\ Values' = Values
  <2>1. chip'.result = chip.result
    BY DistanceMoves DEF ChipStarts, IInv, SensorInv
  <2> QED
    BY <2>1, DistanceMoves, SameValues DEF IInv, dummyVars
<1>1. ASSUME req' = req, ret' = ret PROVE UNCHANGED Atomic!vars
  BY <1>0, <1>1, AbstractSame DEF Answers, Settled
<1>2. CASE Start(u) \/ LookComplete(u)
  BY <1>1, <1>2 DEF Start, LookComplete, Goto
<1>3. CASE TransferFails(u)
  BY <1>0, <1>3, DistanceFails DEF TransferFails
<1>4. CASE LookAgain(u)
  BY <1>0, <1>1, <1>4, DistanceFails DEF LookAgain, callVars
<1>5. CASE Fetch(u)
  <2>1. CASE Answer(u, Value(<<chip.result>>), "return")
    <3>1. /\ Answers[u] = Pending /\ req' = req
          /\ Answers' = [Answers EXCEPT ![u] = Value(<<chip.result>>)]
      BY <1>0, <2>1, AnswerSettles DEF Value, Unanswered, Pending
    <3> QED
      BY <1>0, <3>1, ValueOf
         DEF DistanceCall, IsRead, Value, Answers, Pending, Atomic!Read, Atomic!Asked,
             Atomic!Pending
  <2>2. CASE Answer(u, Error("EREMOTEIO"), "return")
    BY <1>0, <2>2, DistanceFails
  <2> QED
    BY <1>5, <2>1, <2>2 DEF Fetch
<1> QED
  BY <1>2, <1>3, <1>4, <1>5 DEF DistanceStep

(* The end of a measurement gives the sensor its next value.               *)
LEMMA SensorTakesEffect ==
  ASSUME IInv, Sensor PROVE Atomic!Sense("distance") \/ UNCHANGED Atomic!vars
<1>0. st' = st /\ ints' = ints /\ req' = req /\ ret' = ret
  BY DEF Sensor, callVars, dummyVars
<1>1. Answers' = Answers
  BY <1>0 DEF Answers, Settled
<1>2. CASE Probe \/ Remove \/ Removed
  BY <1>0, <1>1, <1>2, SameValues, AbstractSame DEF Probe, Remove, Removed
<1>3. CASE ChipCompletes
  <2>1. PICK s \in Samples :
          chip' = [busy |-> FALSE, complete |-> TRUE, result |-> s]
    BY <1>3 DEF ChipCompletes
  <2>2. /\ Values' = [Values EXCEPT !["distance"] = Values'["distance"]]
        /\ Values'["distance"] = <<s>>
    BY <1>0, <2>1, FilesApart DEF Values, Files
  <2>3. <<s>> \in Legal["distance"]
    BY DistanceWords
  <2> QED
    BY <1>0, <1>1, <2>2, <2>3 DEF Atomic!Sense, Answers
<1> QED
  BY <1>2, <1>3 DEF Sensor

(* Every step of the drivers is a step of AtomicFiles or changes nothing   *)
(* there.                                                                  *)
LEMMA AtomicStep ==
  ASSUME IInv, [Next]_vars PROVE Atomic!Next \/ UNCHANGED Atomic!vars
<1>1. ASSUME NEW u \in Users, Return(u) PROVE Atomic!Reply(u)
  <2>1. ShapeInv /\ CallOf(u) /\ pc[u] = "return" /\ Back(u)
    BY <1>1 DEF Return, IInv, CallInv
  <2>2. ret[u].err # "pending"
    BY <2>1 DEF CallOf, NoCall, DummyCall, KdemoCall, DistanceCall
  <2>3. Values' = Values
    BY <1>1, SameValues DEF Return, dummyVars, vlVars
  <2> QED
    BY <2>1, <2>2, <2>3, BackReplies
<1>2. CASE UNCHANGED vars
  BY <1>2, SameValues, AbstractSame
     DEF vars, callVars, dummyVars, vlVars, Answers, Settled
<1>3. ASSUME NEW u \in Users, Enters(u) \/ Inside(u)
      PROVE  Atomic!Next \/ UNCHANGED Atomic!vars
  <2>1. CASE Enters(u)
    BY <2>1, EnterAsks DEF Atomic!Next
  <2>2. CASE DummyStep(u) /\ UNCHANGED <<ints, vlVars>>
    BY <2>2, DummyTakesEffect DEF Atomic!Next
  <2>3. CASE KdemoStep(u) /\ UNCHANGED <<dummyVars, vlVars>>
    BY <2>3, KdemoTakesEffect DEF Atomic!Next
  <2>4. CASE DistanceStep(u) /\ UNCHANGED <<dummyVars, ints>>
    BY <2>4, DistanceTakesEffect DEF Atomic!Next
  <2>5. CASE Return(u)
    BY <1>1, <2>5 DEF Atomic!Next
  <2> QED
    BY <1>3, <2>1, <2>2, <2>3, <2>4, <2>5 DEF Inside
<1>4. ASSUME Sensor PROVE Atomic!Next \/ UNCHANGED Atomic!vars
  BY <1>4, SensorTakesEffect, ValueOf DEF Atomic!Next
<1> QED
  BY <1>2, <1>3, <1>4 DEF Next

(* Every call on a file looks as if it took effect at one moment between   *)
(* its begin and its end: a scale that is read word by word while others   *)
(* write it is a pair that it was, and an accepted write stores what was   *)
(* given, or the nearest legal value.                                      *)
THEOREM CallsAreAtomic == Spec => ImplementsAtomicFiles
BY AtomicInit, AtomicStep, Invariant, PTL DEF Spec, ImplementsAtomicFiles, Atomic!Spec
=============================================================================
