------------------------------ MODULE MCPS2Port ------------------------------
(***************************************************************************)
(* One PS/2 port and one caller.  Two command bytes: one the device        *)
(* answers with ACK alone (like 0xF4, enable scanning), one it follows     *)
(* with a data byte (like 0xF2, identify).  MCPS2Port.cfg sets the ring    *)
(* size, the retry limit and the bounds.                                   *)
(***************************************************************************)
EXTENDS PS2Port, TLC

CONSTANTS k1, a1, a2

MCCallers == {k1}
MCCmds == {a1, a2}
MCRespCmds == {a2}
====
