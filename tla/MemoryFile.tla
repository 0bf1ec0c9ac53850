----------------------------- MODULE MemoryFile -----------------------------
(***************************************************************************)
(* memory_file of hook_libc: the filter that answers reads and writes from *)
(* a buffer, as file_hook drives it through fread, fwrite, fputs, fgets,   *)
(* fseek and rewind.  An access outside the allocated buffer ends the      *)
(* behaviour, as nothing is known of what comes after it.                  *)
(***************************************************************************)
EXTENDS Integers, Sequences, FiniteSets

CONSTANTS
    Byte, Zero, NewLine,
    EmptyCap,   \* capacity of a file made without data (2048 in the code)
    Limit,      \* bound: offsets in use are below it
    MaxIO       \* bound: bytes in one call

ASSUME ByteAssumption == Zero \in Byte /\ NewLine \in Byte
ASSUME CapacityAssumption ==
    EmptyCap \in Nat /\ Limit \in Nat /\ MaxIO \in Nat /\ EmptyCap <= Limit

VARIABLES
    share_data,
    alloc,      \* bytes really allocated for share_data
    alllen,     \* capacity the code reckons with
    len,
    off,
    out,        \* what the last call gave to the program
    stuck,      \* the last call was a write of some bytes that stored none
    broken      \* which call left the buffer

memvars == <<share_data, alloc, alllen, len, off, out, stuck, broken>>

Offset == 0..(Limit - 1)
Position == (-1)..Limit
Data == UNION {[1..n -> Byte] : n \in 0..MaxIO}

\* The three constructors: data copied, a buffer of the caller adopted as it is,
\* and no data.  len * 1.5 is truncated.
MemInit ==
    /\ \/ \E n \in 0..Limit :
             /\ len = n
             /\ alllen = n + n \div 2
             /\ alloc \in {alllen, n}
       \/ len = 0 /\ alllen = EmptyCap /\ alloc = EmptyCap
    /\ alllen <= Limit
    /\ share_data \in [Offset -> Byte]
    /\ \A i \in Offset : i >= len => share_data[i] = Zero
    /\ off = 0
    /\ out = <<>>
    /\ stuck = FALSE
    /\ broken = "no"

-----------------------------------------------------------------------------
Breaks(call) ==
    /\ broken' = call
    /\ UNCHANGED <<share_data, alloc, alllen, len, off, out, stuck>>

\* [off, off + k) lies outside the buffer.
Outside(k, room) == k > 0 /\ (off < 0 \/ off + k > room)

Slice(k) == [i \in 1..k |-> share_data[off + i - 1]]

ReadLen(n) == IF off >= len THEN 0 ELSE IF len - off > n THEN n ELSE len - off

read(n) ==
    \/ /\ Outside(ReadLen(n), alloc)
       /\ Breaks("read")
    \/ /\ ~Outside(ReadLen(n), alloc)
       /\ out' = Slice(ReadLen(n))
       /\ off' = off + ReadLen(n)
       /\ stuck' = FALSE
       /\ UNCHANGED <<share_data, alloc, alllen, len, broken>>

\* The line breaks that the loop of fgets may stop at: those of the buffer, or
\* else whatever lies behind it.
LineEnds ==
    LET within == {i \in Offset : off <= i /\ i < alloc /\ share_data[i] = NewLine}
    IN  IF within # {} THEN {i \in within : \A j \in within : i <= j}
        ELSE {i \in 0..Limit : i >= alloc}

\* Mistake: the line is given out whole.
LineLen_whole(e, max_count) == e - off

LineLen(e, max_count) == IF e - off > max_count THEN max_count ELSE e - off

\* The break is left in place, and as the offset is passed for "update" the
\* position stays where it is at the beginning of the file.
fgets(max_count) ==
    \/ /\ off >= len
       /\ out' = <<>>
       /\ stuck' = FALSE
       /\ UNCHANGED <<share_data, alloc, alllen, len, off, broken>>
    \/ /\ off < 0
       /\ off < len
       /\ Breaks("scan")
    \/ /\ 0 <= off /\ off < len
       /\ \A i \in Offset : (off <= i /\ i < alloc) => share_data[i] # NewLine
       /\ Breaks("scan")
    \/ /\ 0 <= off /\ off < len
       /\ \E e \in LineEnds :
            LET k == ReadLen(LineLen(e, max_count)) IN
            /\ e >= off
            /\ ~Outside(k, alloc)
            /\ out' = Slice(k)
            /\ off' = IF off # 0 THEN off + k ELSE off
            /\ stuck' = FALSE
            /\ UNCHANGED <<share_data, alloc, alllen, len, broken>>

-----------------------------------------------------------------------------
\* Mistake: an offset one past the capacity still has room.
Room_late(cap, w) == IF cap - off < 0 \/ cap - off >= w THEN w ELSE cap - off + 1

\* The bytes that fit: the difference is compared as unsigned, so that a
\* negative one is larger than any w.
Room(cap, w) == IF cap - off < 0 \/ cap - off > w THEN w ELSE cap - off

Grown(cap) == cap + cap \div 2

\* Mistake: the old contents are not copied.
Moved_empty == [i \in Offset |-> Zero]

Moved == [i \in Offset |-> IF i < len THEN share_data[i] ELSE Zero]

NewLen(end) == IF end >= len THEN end ELSE len

write(b) ==
    LET grows == Room(alllen, Len(b)) = 0
        cap == IF grows THEN Grown(alllen) ELSE alllen
        space == IF grows THEN cap ELSE alloc
        buf == IF grows THEN Moved ELSE share_data
        k == Room(cap, Len(b))
        overrun == Outside(k, space) \/ (grows /\ (len > alloc \/ len > cap))
    IN
    /\ cap <= Limit
    /\ \/ /\ overrun
          /\ Breaks("write")
       \/ /\ ~overrun
          /\ share_data' = [i \in Offset |-> IF off <= i /\ i < off + k THEN b[i - off + 1]
                                             ELSE buf[i]]
          /\ alloc' = space
          /\ alllen' = cap
          /\ off' = off + k
          /\ len' = NewLen(off + k)
          /\ out' = <<>>
          /\ stuck' = (Len(b) > 0 /\ k = 0)
          /\ UNCHANGED broken

\* fseek, after it has worked the new offset out, and rewind.
on_set_pos(p) ==
    /\ p \in Position
    /\ off' = p
    /\ out' = <<>>
    /\ stuck' = FALSE
    /\ UNCHANGED <<share_data, alloc, alllen, len, broken>>

\* SEEK_SET and rewind, SEEK_CUR, and SEEK_END, which counts from the last byte
\* of the capacity.
fseek(offset) ==
    \/ on_set_pos(offset)
    \/ on_set_pos(off + offset)
    \/ on_set_pos(alllen - 1 + offset)

MemNext ==
    /\ broken = "no"
    /\ \/ \E n \in 0..MaxIO : read(n) \/ fgets(n)
       \/ \E b \in Data : write(b)
       \/ \E offset \in Position : fseek(offset)

MemSpec == MemInit /\ [][MemNext]_memvars

-----------------------------------------------------------------------------
(* Properties.                                                             *)

MemTypeOK ==
    /\ share_data \in [Offset -> Byte]
    /\ alloc \in 0..Limit
    /\ alllen \in 0..Limit
    /\ len \in 0..Limit
    /\ off \in Position
    /\ out \in Data
    /\ stuck \in BOOLEAN
    /\ broken \in {"no", "read", "write", "scan"}

\* memory_file is a file of bytes: reads give what was written, growing keeps
\* it, a gap left by a seek reads as zeros, and what is beyond the end is never
\* given out, up to the call that leaves the buffer.
File == INSTANCE ByteFile WITH bytes <- share_data, size <- len, pos <- off
ImplementsByteFile == File!Spec

\* read and write leave the buffer only when it was adopted with less than the
\* capacity computed for it, or after a seek in front of it or past its capacity:
\* growing by half of the capacity is enough in every other case.
OverrunOnlyFromOutside ==
    (broken \in {"read", "write"}) =>
        \/ alloc < alllen
        \/ off < 0 \/ off > alllen
        \/ len > alllen

\* A write of at least one byte stores at least one, so that a program that
\* writes the rest again comes to an end, unless the capacity is so small that
\* half of it is nothing.
WriteStores == stuck => alllen < 2

\* The capacity that write computes is enough, and leaves room for progress.
BufferRight == OverrunOnlyFromOutside /\ WriteStores
=============================================================================
