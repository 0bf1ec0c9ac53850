------------------------------ MODULE ByteFile ------------------------------
(***************************************************************************)
(* What a file in memory promises to the program that has it open: an      *)
(* array of bytes that reads as zero where nothing was written, a size and *)
(* a position.  Reads give all there is; a write may store only a part of  *)
(* its bytes, from the first on.                                           *)
(***************************************************************************)
EXTENDS Integers, Sequences

CONSTANTS Byte, Zero,
          Limit,    \* bound: offsets in use are below it
          MaxIO     \* bound: bytes in one call

VARIABLES bytes, size, pos,
          out       \* what the last operation gave to the program

vars == <<bytes, size, pos, out>>

Offset == 0..(Limit - 1)
Position == (-1)..Limit
Data == UNION {[1..n -> Byte] : n \in 0..MaxIO}

Init ==
    /\ size \in 0..Limit
    /\ bytes \in [Offset -> Byte]
    /\ \A i \in Offset : i >= size => bytes[i] = Zero
    /\ pos = 0
    /\ out = <<>>

\* The number of bytes that a read of n yields at the position.
Available(n) == IF pos >= size THEN 0 ELSE IF size - pos > n THEN n ELSE size - pos

Slice(k) == [i \in 1..k |-> bytes[pos + i - 1]]

Read(n) ==
    /\ Available(n) > 0 => pos >= 0
    /\ out' = Slice(Available(n))
    /\ pos' = pos + Available(n)
    /\ UNCHANGED <<bytes, size>>

\* Part of a line, with or without moving past it.
ReadLine(n) ==
    \E k \in 0..n :
        /\ k <= Available(n)
        /\ k > 0 => pos >= 0
        /\ out' = Slice(k)
        /\ pos' \in {pos, pos + k}
        /\ UNCHANGED <<bytes, size>>

\* The first k bytes of b are stored; what lies between the end and the
\* position becomes part of the file.
Write(b) ==
    \E k \in 0..Len(b) :
        /\ k > 0 => pos >= 0 /\ pos + k <= Limit
        /\ bytes' = [i \in Offset |-> IF pos <= i /\ i < pos + k THEN b[i - pos + 1]
                                      ELSE bytes[i]]
        /\ pos' = pos + k
        /\ size' = IF pos + k >= size THEN pos + k ELSE size
        /\ out' = <<>>

Seek(p) ==
    /\ pos' = p
    /\ out' = <<>>
    /\ UNCHANGED <<bytes, size>>

Next ==
    \/ \E n \in 0..MaxIO : Read(n) \/ ReadLine(n)
    \/ \E b \in Data : Write(b)
    \/ \E p \in Position : Seek(p)

Spec == Init /\ [][Next]_vars
=============================================================================
