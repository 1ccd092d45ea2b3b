------------------------------- MODULE Kdemo -------------------------------
(***************************************************************************)
(* The three files of the kobject demo, kobject/kdemo.c, and the variables *)
(* behind them.  Nothing is locked.  How the files come and go is in       *)
(* ModuleLoad.                                                             *)
(***************************************************************************)
EXTENDS SysfsCalls

CONSTANTS
  KdemoFiles,  \* the files in use, of "foo", "baz" and "bar"
  KdemoArgs    \* what users write to them

ASSUME KdemoAssumption ==
  /\ KdemoFiles \subseteq {"foo", "baz", "bar"}
  /\ \A x \in KdemoArgs : x = << >> \/ x \in [1..1 -> Int]

VARIABLE ints  \* foo, baz and bar

InitKdemo == ints = [f \in KdemoFiles |-> <<0>>]

KdemoRead(u) ==
  /\ \E f \in KdemoFiles : Call(u, f, "read", << >>, "show")
  /\ UNCHANGED ints

KdemoWrite(u) ==
  /\ \E f \in KdemoFiles, x \in KdemoArgs : Call(u, f, "write", x, "kstrtoint")
  /\ UNCHANGED ints

\* The variable by the name of the file; to the callbacks that baz and bar
\* share, what is not "baz" is "bar".
Var(f) == IF f \in {"foo", "baz"} THEN f ELSE "bar"

KdemoShow(u) ==
  /\ At(u, KdemoFiles, "show")
  /\ Answer(u, Value(ints[Var(req[u].file)]), "return")
  /\ UNCHANGED ints

\* kstrtoint() stores what it finds, and only if it finds a number.
KdemoStore(u) ==
  /\ At(u, KdemoFiles, "kstrtoint")
  /\ IF req[u].arg = << >> THEN Answer(u, Error("EINVAL"), "return") /\ UNCHANGED ints
     ELSE /\ Answer(u, Stored, "return")
          /\ ints' = [ints EXCEPT ![Var(req[u].file)] = req[u].arg]

KdemoStep(u) == KdemoShow(u) \/ KdemoStore(u)
=============================================================================
