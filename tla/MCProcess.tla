----------------------------- MODULE MCProcess -----------------------------
(* Instances of Process for TLC: the two programs of the disk image.       *)
EXTENDS Process

CONSTANTS shell, clock, huge

MCPagesOf == [p \in Programs |-> IF p = huge THEN PROCESS_PAGE_FRAME_COUNT_MAX + 1 ELSE 2]
=============================================================================
