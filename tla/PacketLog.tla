----------------------------- MODULE PacketLog ------------------------------
(***************************************************************************)
(* The packet log of hook_ssl/main.cpp: JNI_OnLoad, and unsslpinning       *)
(* again, look for libnms.so among the mapped modules; hook_pangle opens a *)
(* file_writer and patches the module's strlen, and every thread that      *)
(* calls it from then on writes its text and a line break.                 *)
(***************************************************************************)
EXTENDS Integers, Sequences, FiniteSets

CONSTANTS
    Caller,     \* threads that call the strlen of libnms.so
    MaxPangle,  \* bound: how often libnms.so is met
    MaxRecord   \* bound: records written

ASSUME PacketAssumption == MaxPangle \in Nat /\ MaxRecord \in Nat

VARIABLES
    loader,       \* where hook_pangle is
    packet_file,  \* the writer in use, 0 before the first
    writers,      \* for each file_writer made, whether its file is open
    patched,      \* strlen is hooked
    file,         \* what was appended to packet.txt: <<record, part>>
    thr,          \* thread -> [pc, rec, w]
    records,      \* records begun
    overlapped,   \* those during which another record or hook_pangle was under way
    unwritten,    \* history: those of which a part could not be written
    packetCrash

pvars == <<loader, packet_file, writers, patched, file, thr, records, overlapped,
           unwritten, packetCrash>>

Idle == [pc |-> "idle", rec |-> 0, w |-> 0]

PacketInit ==
    /\ loader = "idle"
    /\ packet_file = 0
    /\ writers = <<>>
    /\ patched = FALSE
    /\ file = <<>>
    /\ thr = [t \in Caller |-> Idle]
    /\ records = 0
    /\ overlapped = {}
    /\ unwritten = {}
    /\ packetCrash = FALSE

Writing == {t \in Caller : thr[t].pc # "idle"}

-----------------------------------------------------------------------------
\* "a+": what is in the file stays.
Opened == file

Latest(ws) == Len(ws)

\* The old writer is neither closed nor deleted.
hook_pangle(opens) ==
    /\ loader = "idle" /\ Len(writers) < MaxPangle
    /\ writers' = Append(writers, opens)
    /\ packet_file' = Latest(writers')
    /\ file' = IF opens THEN Opened ELSE file
    /\ overlapped' = overlapped \cup {thr[t].rec : t \in Writing}
    /\ loader' = "opened"
    /\ UNCHANGED <<patched, thr, records, unwritten, packetCrash>>

fake_dlopen(found) ==
    /\ loader = "opened"
    /\ loader' = IF found THEN "found" ELSE "idle"
    /\ UNCHANGED <<packet_file, writers, patched, file, thr, records, overlapped, unwritten,
                   packetCrash>>

\* Refused when strlen is patched already.
DobbyHook ==
    /\ loader = "found"
    /\ patched' = TRUE
    /\ loader' = "idle"
    /\ UNCHANGED <<packet_file, writers, file, thr, records, overlapped, unwritten, packetCrash>>

-----------------------------------------------------------------------------
hook_pangle_strlen(t) ==
    /\ patched /\ thr[t].pc = "idle" /\ records < MaxRecord
    /\ records' = records + 1
    /\ thr' = [thr EXCEPT ![t] = [pc |-> "text", rec |-> records + 1, w |-> 0]]
    /\ overlapped' = IF Writing = {} THEN overlapped
                     ELSE overlapped \cup {records + 1} \cup {thr[u].rec : u \in Writing}
    /\ UNCHANGED <<loader, packet_file, writers, patched, file, unwritten, packetCrash>>

\* packet_file->write(...): the pointer is read, for each part anew.
load_writer(t) ==
    /\ thr[t].pc \in {"text", "break"} /\ thr[t].w = 0
    /\ IF packet_file = 0
       THEN packetCrash' = TRUE /\ UNCHANGED thr
       ELSE thr' = [thr EXCEPT ![t].w = packet_file] /\ UNCHANGED packetCrash
    /\ UNCHANGED <<loader, packet_file, writers, patched, file, records, overlapped, unwritten>>

\* Mistake: the line break comes first.
Part_reversed(pc) == IF pc = "text" THEN "break" ELSE "text"
Part(pc) == pc

\* Under the writer's lock the part is appended and flushed; nothing is written when
\* the file did not open, and nobody asks whether fwrite and fflush succeed.  (What a
\* failed one leaves of its part is not counted as the part.)
write(t) ==
    /\ thr[t].w # 0
    /\ \E ok \in BOOLEAN :
        LET open == writers[thr[t].w]
        IN  /\ file' = IF open /\ ok THEN Append(file, <<thr[t].rec, Part(thr[t].pc)>>) ELSE file
            /\ unwritten' = IF open /\ ~ok THEN unwritten \cup {thr[t].rec} ELSE unwritten
    /\ thr' = [thr EXCEPT ![t] = IF @.pc = "text" THEN [@ EXCEPT !.pc = "break", !.w = 0]
                                                  ELSE Idle]
    /\ UNCHANGED <<loader, packet_file, writers, patched, records, overlapped, packetCrash>>

PacketNext ==
    /\ ~packetCrash
    /\ \/ \E b \in BOOLEAN : hook_pangle(b)
       \/ \E b \in BOOLEAN : fake_dlopen(b)
       \/ DobbyHook
       \/ \E t \in Caller : hook_pangle_strlen(t)
       \/ \E t \in Caller : load_writer(t)
       \/ \E t \in Caller : write(t)

-----------------------------------------------------------------------------
(* Properties.                                                             *)

\* Types, and each record is written by one thread.
PacketTypeOK ==
    /\ loader \in {"idle", "opened", "found"}
    /\ packet_file \in 0..Len(writers)
    /\ \A t \in Caller : thr[t].w \in 0..Len(writers) /\ thr[t].rec \in 0..records
    /\ \A t, u \in Writing : thr[t].rec = thr[u].rec => t = u

\* No thread reaches hook_pangle_strlen before there is a writer for it.
NoNullWriter == ~packetCrash

Finished == 1..records \ {thr[t].rec : t \in Writing}
At(r, part) == {i \in DOMAIN file : file[i] = <<r, part>>}

\* Records are broken up only by records made at the same time, by a change of the
\* writer or by a failing write: any other one is in the file, its line break
\* directly behind it, or is not there at all.
RecordsWhole ==
    \A r \in Finished \ (overlapped \cup unwritten) :
        \/ At(r, "text") = {} /\ At(r, "break") = {}
        \/ \E i \in At(r, "text") : At(r, "break") = {i + 1}

\* A record is lost only if the file could not be opened or written.
RecordsKept ==
    \A r \in Finished \ unwritten : At(r, "text") = {} => \E w \in DOMAIN writers : ~writers[w]

\* The packet log: the state is well formed, there is a writer whenever one is
\* needed, and records are kept, and whole, but for the exceptions of the parts.
RecordsRight == PacketTypeOK /\ NoNullWriter /\ RecordsWhole /\ RecordsKept
=============================================================================
