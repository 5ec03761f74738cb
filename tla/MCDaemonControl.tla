-------------------------- MODULE MCDaemonControl --------------------------
(***************************************************************************)
(* Two commands at a time; requests the CLI makes and others do: one peer  *)
(* asks for more and for silence, the other for the usual level.           *)
(***************************************************************************)
EXTENDS DaemonControl

MCRequests ==
  LET Eager == CHOOSE c \in Clients : TRUE IN
    [c \in Clients |-> IF c = Eager THEN {SetLevel(Loud), Silence} ELSE {SetLevel(Quiet)}]
=============================================================================
