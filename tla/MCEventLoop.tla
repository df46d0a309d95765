---------------------------- MODULE MCEventLoop ----------------------------
(***************************************************************************)
(* A node that is promoted, and then sees two more changes of elders with  *)
(* a client's request between them.                                        *)
(***************************************************************************)
EXTENDS EventLoop

MCKind == <<"promoted", "elders", "client", "elders">>
MCKey == <<1, 2, 1, 3>>
=============================================================================
