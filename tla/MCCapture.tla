------------------------------ MODULE MCCapture ------------------------------
(***************************************************************************)
(* Small instances of Capture: messages that are empty, shorter than link  *)
(* header and offset (-O) of one byte each together, as long, and longer   *)
(* than snapLength (3).                                                    *)
(***************************************************************************)
EXTENDS Capture

MCLinkHeader == [l \in LinkTypes |-> IF l = "DLT_EN10MB" THEN 1 ELSE 0]
AllTypes == Sockets \cup Pcaps \cup {"TYPE_FILE"}
=============================================================================
