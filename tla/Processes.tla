------------------------------ MODULE Processes ------------------------------
(***************************************************************************)
(* The two ways to run commands in a sandbox: Commands, with its polling   *)
(* loop (CommandPoll), and persistent shells (ShellSessions).              *)
(***************************************************************************)
EXTENDS CommandPoll, ShellSessions

VARIABLE kind          \* bound: which of the two this behaviour has

CommandVars == <<vars, kind>>
ShellVars == <<sessions, running, kind>>

ProcessInit == Init /\ ShellInit /\ kind \in {"command", "shell"}

ProcessNext ==
    \/ kind = "command" /\ Next /\ UNCHANGED ShellVars
    \/ kind = "shell" /\ ShellNext /\ UNCHANGED CommandVars

ProcessSpec == ProcessInit /\ [][ProcessNext]_<<vars, ShellVars>>
=============================================================================
