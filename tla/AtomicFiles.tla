---------------------------- MODULE AtomicFiles ----------------------------
(***************************************************************************)
(* What a user expects of the files in sysfs, whatever driver is behind    *)
(* them: a read or a write takes effect at one moment between its call and *)
(* its return.  A read returns the whole of one value that the file had; a *)
(* write stores what it was given if that is a legal value of the file,    *)
(* and otherwise is refused or stores the nearest legal number.            *)
(***************************************************************************)
EXTENDS Integers

CONSTANTS
  Users,     \* processes
  Files,     \* the files
  Writable,  \* those whose value a write may change
  Sensors,   \* those whose value changes by itself
  Legal      \* per file: the values it may have, each a tuple of words

VARIABLES
  val,  \* per file: its value
  req,  \* per user: the request under way
  ret   \* per user: what it will return, or Pending

vars == <<val, req, ret>>

NoReq   == [file |-> "none", op |-> "none", arg |-> << >>]
Pending == [err |-> "pending", words |-> << >>]

Init ==
  /\ DOMAIN val = Files
  /\ \A f \in Files : val[f] \in Legal[f]
  /\ req = [u \in Users |-> NoReq]
  /\ ret = [u \in Users |-> Pending]

Ask(u) ==
  /\ req[u] = NoReq
  /\ req'[u] # NoReq /\ req'[u].file \in Files
  /\ req' = [req EXCEPT ![u] = req'[u]]
  /\ UNCHANGED <<val, ret>>

Asked(u, op) == req[u].op = op /\ ret[u] = Pending

Read(u) ==
  /\ Asked(u, "read")
  /\ ret' = [ret EXCEPT ![u] = [err |-> "none", words |-> val[req[u].file]]]
  /\ UNCHANGED <<val, req>>

Away(v, x) == IF v[1] < x[1] THEN x[1] - v[1] ELSE v[1] - x[1]
Nearest(v, x, legal) == \A w \in legal : Away(v, x) <= Away(w, x)

Write(u) ==
  LET f == req[u].file
      x == req[u].arg
  IN  /\ Asked(u, "write") /\ f \in Writable
      /\ ret' = [ret EXCEPT ![u] = [err |-> "none", words |-> << >>]]
      /\ val'[f] \in Legal[f]
      /\ IF x \in Legal[f] THEN val'[f] = x ELSE Nearest(val'[f], x, Legal[f])
      /\ val' = [val EXCEPT ![f] = val'[f]]
      /\ UNCHANGED req

Refuse(u) ==
  LET f == req[u].file
  IN  /\ Asked(u, "write")
      /\ f \notin Writable \/ req[u].arg \notin Legal[f]
      /\ ret' = [ret EXCEPT ![u] = [err |-> "EINVAL", words |-> << >>]]
      /\ UNCHANGED <<val, req>>

Fail(u) ==
  /\ Asked(u, "read") /\ req[u].file \in Sensors
  /\ \E e \in {"EIO", "EREMOTEIO", "ETIMEDOUT"} :
       ret' = [ret EXCEPT ![u] = [err |-> e, words |-> << >>]]
  /\ UNCHANGED <<val, req>>

Sense(f) ==
  /\ f \in Sensors
  /\ val'[f] \in Legal[f]
  /\ val' = [val EXCEPT ![f] = val'[f]]
  /\ UNCHANGED <<req, ret>>

Reply(u) ==
  /\ ret[u] # Pending
  /\ req' = [req EXCEPT ![u] = NoReq]
  /\ ret' = [ret EXCEPT ![u] = Pending]
  /\ UNCHANGED val

Next ==
  \/ \E u \in Users : Ask(u) \/ Read(u) \/ Write(u) \/ Refuse(u) \/ Fail(u) \/ Reply(u)
  \/ \E f \in Files : Sense(f)

Spec == Init /\ [][Next]_vars
=============================================================================
