------------------------------ MODULE Privilege ------------------------------
(***************************************************************************)
(* What the two modes of execution promise: a user moves neither the       *)
(* window of the MMU nor the supervisor stack pointer and cannot halt the  *)
(* machine, and nothing but a return from an exception or a reboot changes *)
(* the mode.                                                               *)
(***************************************************************************)
CONSTANTS Windows, Pointers

VARIABLES
  mode,       (* "supervisor", "user", "halted" or "failed"                *)
  window,     (* what the MMU lets through                                 *)
  pointer,    (* the supervisor stack pointer                              *)
  event       (* the kind of the last step                                 *)

pvars == <<mode, window, pointer, event>>

Modes == {"supervisor", "user"}

PInit ==
  /\ mode = "supervisor"
  /\ window \in Windows
  /\ pointer \in Pointers
  /\ event = "ordinary"

UserStep ==
  /\ mode = "user"
  /\ event' = "ordinary"
  /\ UNCHANGED <<mode, window, pointer>>

SupervisorStep ==
  /\ mode = "supervisor"
  /\ event' = "ordinary"
  /\ window' \in Windows
  /\ pointer' \in Pointers
  /\ UNCHANGED mode

(* The flags are popped off one of the stacks: any mode may follow.        *)
Return ==
  /\ mode \in Modes
  /\ event' = "return"
  /\ mode' \in Modes
  /\ pointer' \in Pointers
  /\ UNCHANGED window

(* A supervisor restarts the machine.                                      *)
Restart ==
  /\ mode = "supervisor"
  /\ event' = "restart"
  /\ mode' \in Modes
  /\ pointer' \in Pointers
  /\ UNCHANGED window

HaltNow ==
  /\ mode = "supervisor"
  /\ event' = "ordinary"
  /\ mode' = "halted"
  /\ UNCHANGED <<window, pointer>>

(* Anyone can make an error, which ends the run where it happened: after   *)
(* the window moved, when a supervisor's argument could not be stored.     *)
Error ==
  /\ mode \in Modes
  /\ event' \in {"ordinary", "return", "restart"}
  /\ mode' = "failed"
  /\ pointer' \in Pointers
  /\ window' \in Windows
  /\ mode = "user" => window' = window

PNext ==
  UserStep \/ SupervisorStep \/ Return \/ Restart \/ HaltNow \/ Error

PSpec == PInit /\ [][PNext]_pvars
=============================================================================
