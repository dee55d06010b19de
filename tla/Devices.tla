------------------------------- MODULE Devices -------------------------------
(***************************************************************************)
(* The devices a guest reaches through PUT and GET: the chipset itself     *)
(* (number 0) and the character terminal (number 1), in the order the      *)
(* constructor of Chipset pushes them.  What is printed is left out.       *)
(***************************************************************************)
EXTENDS Integers

Device    == {0, 1}
Readiness == {"false", "true", "error"}
NewDevice == [resp |-> 0, ready |-> "false"]

COMP_TYPE         == 0
COMP_GET_FEATURES == 1
COMP_SET_FEATURES == 2

COMP_CHAR    == 1
COMP_CONSOLE == 16

Says(resp, ready) == [resp |-> resp, ready |-> ready]

(* Chipset::put: a feature it does not know leaves the old response.       *)
ChipsetPut(d, request, arg) ==
  IF request = COMP_TYPE THEN Says(COMP_CHAR, "true")
  ELSE IF request = COMP_GET_FEATURES
    THEN Says(IF arg = 0 THEN 2 ELSE d.resp, "true")
  ELSE IF request = COMP_SET_FEATURES THEN Says(d.resp, "error")
  ELSE d

(* CharTerminal::put, and Component::put behind its default case.          *)
TerminalPut(d, request) ==
  IF request = COMP_TYPE THEN Says(COMP_CONSOLE, "true")
  ELSE IF request = COMP_SET_FEATURES THEN Says(1, "true")
  ELSE IF request = COMP_GET_FEATURES THEN Says(d.resp, "error")
  ELSE d

Put(devices, n, request, arg) ==
  [devices EXCEPT ![n] =
     IF n = 0 THEN ChipsetPut(@, request, arg) ELSE TerminalPut(@, request)]

(* Component::get: the response stays, and may be read again.              *)
Get(devices, n) == [devices EXCEPT ![n].ready = "false"]
=============================================================================
