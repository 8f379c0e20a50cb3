------------------------- MODULE SystemInterface -------------------------
(***************************************************************************)
(* The SystemInterface atomic model (atomics/system_interface.hpp): every  *)
(* system call, and every end of an I/O operation, is passed on under the  *)
(* port name its receiver listens to.  As in Kernel, a number appended to  *)
(* a port name is the value of the message, and armed is the flag that     *)
(* next_internal is 0 and not infinity.                                    *)
(***************************************************************************)
EXTENDS Handling

InitialInterface == [out_put |-> <<>>, armed |-> FALSE]

\* The port under which each call is passed on.
PassedOnAs ==
  [ writeSCI |-> "WriteFunction",
    readSCI  |-> "ReadFunction",
    doneIO   |-> "IOApp",
    exitSCI  |-> "processComplete",
    forkSCI  |-> "processFork" ]

\* Mutant: the call is queued without scheduling the output.
InterfaceReceive_NotArmed(s, msg) ==
  IF msg.port \notin DOMAIN PassedOnAs THEN s
  ELSE [s EXCEPT !.out_put =
                     Append(@, [msg EXCEPT !.port = PassedOnAs[msg.port]])]

\* One message of the bag; a port the interface does not know is ignored.
InterfaceReceive(s, msg) ==
  IF msg.port \notin DOMAIN PassedOnAs THEN s
  ELSE [s EXCEPT !.armed = TRUE,
                 !.out_put =
                     Append(@, [msg EXCEPT !.port = PassedOnAs[msg.port]])]

\* external, and confluence, which only calls external.
InterfaceExternal(s, bag) == HandleAll(InterfaceReceive, s, bag)

InterfaceInternal(s) == [s EXCEPT !.out_put = <<>>, !.armed = FALSE]
============================================================================
