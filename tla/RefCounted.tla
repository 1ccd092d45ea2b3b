----------------------------- MODULE RefCounted -----------------------------
(***************************************************************************)
(* What a reference-counted driver object promises, whatever counter,      *)
(* locks and callbacks implement it.                                       *)
(*                                                                         *)
(* An object is created by its owner, which holds it from then on.  As     *)
(* long as the owner still holds it, users may come and hold it too; after *)
(* the owner has let go nobody new may.  The memory of the object goes     *)
(* back in the very step in which the last holder lets go, never earlier   *)
(* (a holder would use freed memory) and never later (a leak).             *)
(*                                                                         *)
(* struct stm32leds with its kref (usb/stm32leds_driver.c) implements this *)
(* specification: see StmLeds, property ImplementsRefCounted.              *)
(***************************************************************************)

CONSTANTS Objs,   (* the memory blocks an object can occupy           *)
          Users,  (* whoever may come to hold an object besides owner *)
          Owner   (* who creates the objects                          *)

VARIABLES live,    (* the blocks that currently are objects *)
          holders  (* who holds a reference to which object *)

vars == <<live, holders>>

TypeOK ==
  /\ live \in SUBSET Objs
  /\ holders \in [Objs -> SUBSET (Users \cup {Owner})]

Init ==
  /\ live = {}
  /\ holders = [o \in Objs |-> {}]

(* The owner makes an object out of an unused block. *)
Create(o) ==
  /\ o \notin live
  /\ live' = live \cup {o}
  /\ holders' = [holders EXCEPT ![o] = {Owner}]

(* A user joins the holders, which only the owner's reference permits. *)
Acquire(o, u) ==
  /\ Owner \in holders[o]
  /\ u \notin holders[o]
  /\ holders' = [holders EXCEPT ![o] = @ \cup {u}]
  /\ UNCHANGED live

(* A holder lets go; the last one takes the object with it. *)
Drop(o, h) ==
  /\ h \in holders[o]
  /\ holders' = [holders EXCEPT ![o] = @ \ {h}]
  /\ live' = IF holders[o] = {h} THEN live \ {o} ELSE live

Next ==
  \E o \in Objs :
    \/ Create(o)
    \/ \E u \in Users : Acquire(o, u)
    \/ \E h \in Users \cup {Owner} : Drop(o, h)

Spec == Init /\ [][Next]_vars

=============================================================================
