----------------------------- MODULE SysfsCalls -----------------------------
(***************************************************************************)
(* User processes inside the callbacks of files in sysfs.  Each has one    *)
(* call under way at most; any number of them may be in the same callback, *)
(* for sysfs serializes only the calls on one open file.                   *)
(*                                                                         *)
(* A value is the tuple of the words a callback reads or writes one by     *)
(* one; << >> stands for text that is no number.                           *)
(***************************************************************************)
EXTENDS Integers, Sequences

CONSTANT Users   \* processes, each with a file of its own open

VARIABLES
  pc,   \* per user: where it is in a callback, or "idle"
  req,  \* per user: its file, "read" or "write", and what it writes
  ret   \* per user: the error, or "pending", and the words read so far

callVars == <<pc, req, ret>>

NoReq   == [file |-> "none", op |-> "none", arg |-> << >>]
Pending == [err |-> "pending", words |-> << >>]
Value(w) == [err |-> "none", words |-> w]
Stored   == Value(<< >>)
Error(e) == [err |-> e, words |-> << >>]

InitCalls ==
  /\ pc = [u \in Users |-> "idle"]
  /\ req = [u \in Users |-> NoReq]
  /\ ret = [u \in Users |-> Pending]

\* User u enters a callback at p.
Call(u, f, op, arg, p) ==
  /\ pc[u] = "idle"
  /\ pc' = [pc EXCEPT ![u] = p]
  /\ req' = [req EXCEPT ![u] = [file |-> f, op |-> op, arg |-> arg]]
  /\ UNCHANGED ret

Goto(u, p) == pc' = [pc EXCEPT ![u] = p] /\ UNCHANGED <<req, ret>>

\* What the callback will return is settled; it goes on at p.
Answer(u, a, p) ==
  /\ pc' = [pc EXCEPT ![u] = p]
  /\ ret' = [ret EXCEPT ![u] = a]
  /\ UNCHANGED req

\* The callback returns.
Back(u) ==
  /\ pc' = [pc EXCEPT ![u] = "idle"]
  /\ req' = [req EXCEPT ![u] = NoReq]
  /\ ret' = [ret EXCEPT ![u] = Pending]

At(u, files, p) == pc[u] = p /\ req[u].file \in files
=============================================================================
