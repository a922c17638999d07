------------------------------ MODULE MC_CmdSM ------------------------------
(***************************************************************************)
(* Model-checking instance of CmdSM.  The frame capacity is scaled from 64 *)
(* to 1 so that a line of MaxLine = 4 bytes ("H00\n") overflows it.       *)
(***************************************************************************)
EXTENDS CmdSM

\* 'H', 'I': commands; 'A': empty slot of the table; 'J': the slot read
\* past the table; 'Z': beyond the table; '0': argument; '#': invalid;
\* ' ': separator; LF ends a line.
MC_HostBytes == {72, 73, 65, 74, 90, 48, 35, 32, 10}

\* ... plus '@' (the error-report code) typed by the host
MC_HostBytesAt == {64, 72, 48, 35, 10}

\* ... plus 'J', the code just past the handler table
MC_HostBytesJ == {74, 72, 10}
=============================================================================
