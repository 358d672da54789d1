---------------------------- MODULE MCTransfer ----------------------------
(***************************************************************************)
(* An operator at a terminal and a service.  The service has a limit on    *)
(* the whole transfer, the operator's configuration one on slow transfers. *)
(***************************************************************************)
EXTENDS Transfer

CONSTANTS operator, service

MCTty   == [p \in Procs |-> IF p = operator THEN BOOLEAN ELSE {FALSE}]
MCShows == [p \in Procs |-> IF p = operator THEN {TRUE} ELSE {FALSE}]
MCtransfer_timeout == [p \in Procs |-> IF p = service THEN 30 ELSE 0]
MClow_speed == [p \in Procs |-> IF p = operator THEN 5 ELSE 0]

\* The second version is shorter than the first.
MCSizes == <<2, 1>>
MCBytes == <<5, 50>>
=============================================================================
