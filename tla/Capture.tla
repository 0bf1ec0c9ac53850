------------------------------ MODULE Capture -------------------------------
(***************************************************************************)
(* The three ways in which the repository writes down what it sees: the    *)
(* packet log, the sniffer and the log of the hooks.  They are programs of *)
(* their own that share no state; a behaviour is one of one of them.       *)
(***************************************************************************)
EXTENDS PacketLog, Sniffer, LogFile

VARIABLE program

cvars == <<program, pvars, svars, lvars>>

CInit ==
    /\ program \in {"packets", "sniffer", "log"}
    /\ PacketInit /\ SnifferInit /\ LogInit
    /\ program # "sniffer" => xml = <<>>

CNext ==
    \/ program = "packets" /\ PacketNext /\ UNCHANGED <<program, svars, lvars>>
    \/ program = "sniffer" /\ SnifferNext /\ UNCHANGED <<program, pvars, lvars>>
    \/ program = "log" /\ LogNext /\ UNCHANGED <<program, pvars, svars>>

CSpec == CInit /\ [][CNext]_cvars
=============================================================================
