------------------------------ MODULE MCShell ------------------------------
(* Instances of Shell for TLC. *)
EXTENDS Shell

CONSTANTS shell, clock, large, huge

MCPagesOf ==
    [p \in Programs |-> CASE p \in {shell, clock} -> 2
                          [] p = large -> PROCESS_PAGE_FRAME_COUNT_MAX
                          [] p = huge  -> PROCESS_PAGE_FRAME_COUNT_MAX + 1]
=============================================================================
