---------------------------- MODULE MCWriterLock ----------------------------
(* Two processes, one of them with two writing threads. *)
EXTENDS WriterLock

CONSTANTS shell, service, s1, v1, v2

MCProcs == {shell, service}
MCWriters == {s1, v1, v2}
MCProcOf == [w \in MCWriters |-> IF w = s1 THEN shell ELSE service]
=============================================================================
