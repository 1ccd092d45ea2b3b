---------------------------- MODULE MCSysfsFiles ----------------------------
(* Two processes at one or two files of each kind of each driver. *)
EXTENDS SysfsFiles

MCDummyArgs ==
  [accel_calibscale |-> {<<733, 13>>, <<0, 13>>}, activity_running |-> {<<-1>>}]
MCKdemoArgs == {<<1>>, << >>}
=============================================================================
