----------------------------- MODULE MCCommands -----------------------------
(* Two browser tabs on a computer.  An election of another device is here the
   same as none: either way these tabs must not answer. *)
EXTENDS Commands

CONSTANTS t1, t2, computer

TwoTabs == {t1, t2}
OneDevice == {computer}
DeviceOf == [t \in TwoTabs |-> computer]
Depths == [t \in TwoTabs |-> IF t = t1 THEN 2 ELSE 1]
Singles == [t \in TwoTabs |-> 1]
=============================================================================
