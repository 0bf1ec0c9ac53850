------------------------------ MODULE Sniffer -------------------------------
(***************************************************************************)
(* sniffer/sniffer.cpp: it looks the user id of a package up in            *)
(* packages.xml, appends three iptables rules that mark and log that       *)
(* user's connections, and runs tcpdump on the log.  The rules stay.       *)
(***************************************************************************)
EXTENDS Integers, Sequences, FiniteSets

CONSTANTS
    Package,
    Uid,
    Shared,    \* a package without an id of its own (it has a sharedUserId)
    MaxRun     \* bound: runs of the program

ASSUME SnifferAssumption == MaxRun \in Nat /\ Shared \notin Uid

VARIABLES
    xml,       \* the <package> elements: sequence of [name, userId]
    sniffer,   \* [pc, package, uid]
    rules,     \* the rules in force, in order: <<chain, target, uid>>
    failed,    \* the user ids for which some command has failed
    sniffs     \* runs so far

svars == <<xml, sniffer, rules, failed, sniffs>>

SnifferInit ==
    /\ xml \in UNION {[1..n -> [name: Package, userId: Uid \cup {Shared}]] : n \in 0..2}
    /\ sniffer = [pc |-> "exit", package |-> "none", uid |-> "none"]
    /\ rules = <<>>
    /\ failed = {}
    /\ sniffs = 0

-----------------------------------------------------------------------------
\* The right number of arguments, or nothing happens.
main(package) ==
    /\ sniffer.pc = "exit" /\ sniffs < MaxRun
    /\ sniffs' = sniffs + 1
    /\ sniffer' = [pc |-> "load", package |-> package, uid |-> "none"]
    /\ UNCHANGED <<xml, rules, failed>>

load_error ==
    /\ sniffer.pc = "load"
    /\ sniffer' = [sniffer EXCEPT !.pc = "exit"]
    /\ UNCHANGED <<xml, rules, failed, sniffs>>

\* The loop runs to the end of the list.
Matches(package) == {i \in DOMAIN xml : xml[i].name = package}

\* The string is assigned a null pointer when the attribute is missing.
find_userid ==
    /\ sniffer.pc = "load"
    /\ LET m == Matches(sniffer.package)
           last == CHOOSE i \in m : \A j \in m : j <= i
       IN  sniffer' = CASE m = {} -> [sniffer EXCEPT !.pc = "exit"]
                        [] \E i \in m : xml[i].userId = Shared -> [sniffer EXCEPT !.pc = "crash"]
                        [] OTHER -> [sniffer EXCEPT !.pc = "mark", !.uid = xml[last].userId]
    /\ UNCHANGED <<xml, rules, failed, sniffs>>

\* Mistake: nothing logs what is sent.
Command_input_only(pc) ==
    CASE pc = "mark" -> [rule |-> <<"OUTPUT", "CONNMARK">>, next |-> "input"]
      [] pc = "input" -> [rule |-> <<"INPUT", "NFLOG">>, next |-> "capture"]

\* The commands in order, what each appends, and what follows.
Command(pc) ==
    CASE pc = "mark" -> [rule |-> <<"OUTPUT", "CONNMARK">>, next |-> "input"]
      [] pc = "input" -> [rule |-> <<"INPUT", "NFLOG">>, next |-> "output"]
      [] pc = "output" -> [rule |-> <<"OUTPUT", "NFLOG">>, next |-> "capture"]

\* system_call throws when the command fails, and main ends.
AfterFailure(pc) == "exit"

system_call(done) ==
    /\ sniffer.pc \in {"mark", "input", "output"}
    /\ IF done
       THEN /\ rules' = Append(rules, Command(sniffer.pc).rule \o <<sniffer.uid>>)
            /\ sniffer' = [sniffer EXCEPT !.pc = Command(sniffer.pc).next]
            /\ UNCHANGED failed
       ELSE /\ sniffer' = [sniffer EXCEPT !.pc = AfterFailure(sniffer.pc)]
            /\ failed' = failed \cup {sniffer.uid}
            /\ UNCHANGED rules
    /\ UNCHANGED <<xml, sniffs>>

tcpdump_ends ==
    /\ sniffer.pc = "capture"
    /\ sniffer' = [sniffer EXCEPT !.pc = "exit"]
    /\ UNCHANGED <<xml, rules, failed, sniffs>>

SnifferNext ==
    \/ \E p \in Package : main(p)
    \/ load_error
    \/ find_userid
    \/ \E b \in BOOLEAN : system_call(b)
    \/ tcpdump_ends

-----------------------------------------------------------------------------
(* Properties.                                                             *)

Position(rule) == {i \in DOMAIN rules : rules[i] = rule}

\* tcpdump runs only while both directions of the user's connections are logged,
\* the connection being marked before the first of its packets reaches a log rule
\* of the same chain.
CaptureComplete ==
    sniffer.pc = "capture" =>
        LET uid == sniffer.uid
            marks == Position(<<"OUTPUT", "CONNMARK", uid>>)
            logs == Position(<<"OUTPUT", "NFLOG", uid>>)
        IN  /\ Position(<<"INPUT", "NFLOG", uid>>) # {}
            /\ logs # {} /\ \E i \in marks : \A j \in logs : i < j

\* Only a failed command leaves the connections of a user marked but not logged
\* after the program has ended, however often it ran.
MarkedIsLogged ==
    \A uid \in Uid \ failed :
        (sniffer.pc = "exit" \/ sniffer.uid # uid) =>
            Cardinality(Position(<<"OUTPUT", "CONNMARK", uid>>))
              = Cardinality(Position(<<"OUTPUT", "NFLOG", uid>>))

\* The rules of iptables are those a capture needs while it runs, and are in balance
\* after it.
RulesRight == CaptureComplete /\ MarkedIsLogged
=============================================================================
