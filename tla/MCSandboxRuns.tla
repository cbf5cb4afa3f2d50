--------------------------- MODULE MCSandboxRuns ---------------------------
(***************************************************************************)
(* SandboxRuns for TLC: two runs over a spool of two lines.                *)
(***************************************************************************)
EXTENDS SandboxRuns

CONSTANTS r1, r2

TwoRuns   == {r1, r2}
TwoLogs   == {r1, Boot}
AllEvents == {"injected", "executed", "rejected"} \X {r1, r2}

\* executor.toml refuses the command by its preset.  The administrator lists
\* it, which makes a row that lets it pass, and sets patterns that refuse it,
\* one after the other or the patterns at once.
Strict  == [preset |-> "strict", listed |-> FALSE, danger |-> FALSE]
Barring == {[preset |-> "balanced", listed |-> TRUE, danger |-> TRUE]}

=============================================================================
