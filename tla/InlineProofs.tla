---------------------------- MODULE InlineProofs ----------------------------
(***************************************************************************)
(* What init_jni_hook does to each function it hooks in native code: it is *)
(* found by its name (Dlfcn), then its first words are replaced (Dobby).   *)
(*                                                                         *)
(* fake_dlopen and its companions, for any set of libraries, any layout of *)
(* their files and any number of loads and unloads meanwhile: what a call  *)
(* holds is handed back, a scan of the maps misses nothing that stays      *)
(* where it is, and when the address of a symbol is right.                 *)
(*                                                                         *)
(* DobbyHook, for any number of modules, functions and hooking threads:    *)
(* the blocks of executable memory stay apart, what is opened is closed    *)
(* again, and a write meets a closed page only when two threads patch.     *)
(***************************************************************************)
EXTENDS Dlfcn, Dobby, TLAPS, WellFoundedInduction, FiniteSetTheorems

\* Where a call stands that has found a line, and where it has not.
Located == {"open", "map", "sections", "ready", "found", "closed"}
NotYet == {"idle", "scan", "enumerate", "stopped", "enumerated"}

\* Addresses: libraries that are loaded are at bases of their own.
LoaderInv ==
    /\ shape \in Layouts
    /\ at \in [Lib -> Bases \cup {0}]
    /\ \A k, l \in Lib : at[k] = at[l] /\ at[k] # 0 => k = l
    /\ moved \subseteq Lib

\* Types of what the call keeps.
CallInv ==
    /\ dpc \in Located \cup NotYet \cup {"null"}
    /\ pos \in Nat
    /\ section \in Nat \ {0}
    /\ handle \in [bias : Nat, dynsym : BOOLEAN, dynstr : BOOLEAN]
    /\ stray \in BOOLEAN
    /\ line.addr \in Nat /\ (line.addr # 0 => line.lib \in Lib)
    /\ dpc \in Located \/ stray => line.addr # 0
    /\ dpc \in NotYet => line.addr = 0
    /\ dpc \in {"idle", "scan", "enumerate"} => ~stray

\* What the call holds is settled by where it stands and by the tables it has read.
ReadTables == (IF handle.dynsym THEN {"dynsym"} ELSE {}) \cup (IF handle.dynstr THEN {"dynstr"} ELSE {})
Opened(h) == h \ {"full_path"}
HeldInv ==
    /\ dpc \in {"idle", "null", "closed", "stopped", "enumerated"} => Opened(held) = {}
    /\ dpc = "scan" => Opened(held) = {"info", "maps"}
    /\ dpc = "open" => Opened(held) = {"info"}
    /\ dpc = "map" => Opened(held) = {"info", "fd"}
    /\ dpc = "sections" => Opened(held) = {"info", "map"} \cup ReadTables
    /\ dpc \in {"ready", "found"} => Opened(held) = {"info", "dynsym", "dynstr"}
    /\ dpc = "enumerate" => Opened(held) = {"maps"}

\* The buffer of full_path is there from the line on, and nothing frees it.
PathInv == "full_path" \in held <=> line.addr # 0 /\ ~shape[line.lib].brief

\* A code section behind both tables, among the first n sections.
Behind(s, k, t) == \E i \in 1..(k - 1) : s.sections[i] = t
IsCode(s, k) ==
    s.sections[k] \in {"rodata", "text"} /\ Behind(s, k, "dynsym") /\ Behind(s, k, "strtab")

\* The section headers read so far: the tables that were met are the ones the handle
\* has, no code section behind both was passed, and the first of them gave the bias.
SectionInv ==
    /\ dpc \in {"idle", "scan", "open", "map"} => section = 1 /\ handle = NoInfo
    /\ dpc = "sections" =>
        LET s == shape[line.lib]
            n == Len(s.sections)
        IN  \/ /\ section <= n + 1 /\ handle.bias = 0
               /\ handle.dynsym <=> Behind(s, section, "dynsym")
               /\ handle.dynstr <=> Behind(s, section, "strtab")
               /\ \A k \in 1..(section - 1) : ~IsCode(s, k)
            \/ /\ section = n + 1 /\ handle.dynsym /\ handle.dynstr
               /\ handle.bias = FirstCode(s)
    /\ dpc \in {"ready", "found", "closed"} => handle.bias = FirstCode(shape[line.lib])
    /\ stray => ~({"dynsym", "strtab"} \subseteq Range(AllSections))

\* The libraries that stayed where they were since the call began, and those whose
\* line has the text.
Staying == {l \in Lib \ moved : at[l] # 0}
HasText(l) == shape[l].match /\ ~shape[l].long

\* What lies at or below the line read last was seen.
ScanInv ==
    /\ dpc = "idle" => pos = 0 /\ reported = {}
    /\ dpc = "scan" =>
        \A l \in Staying : \A v \in Executable(l) : at[l] + v <= pos => ~HasText(l)
    /\ dpc = "enumerate" =>
        \A l \in Staying : \A v \in Executable(l) : at[l] + v <= pos => l \in reported
    /\ dpc = "enumerated" =>
        \A l \in Staying : \A v \in Executable(l) : l \in reported
    /\ line.addr # 0 =>
        /\ line.addr >= Spacing /\ HasText(line.lib)
        /\ line.lib \in moved \/ (/\ line.lib \in Staying
                                  /\ \E v \in Executable(line.lib) : line.addr = at[line.lib] + v)
        /\ \A l \in Staying : \A v \in Executable(l) : HasText(l) => line.addr <= at[l] + v

\* The answer is computed from the line, the table and the bias.
AnswerInv ==
    dpc \in {"found", "closed"} =>
        \E n \in Symbol :
            /\ wanted = {n}
            /\ answer = IF Named(line.lib, {n}) = {} THEN 0
                        ELSE Address(Min(Named(line.lib, {n})))

DlInv == LoaderInv /\ CallInv /\ HeldInv /\ PathInv /\ SectionInv /\ ScanInv /\ AnswerInv

-----------------------------------------------------------------------------
(* Facts about sets of numbers, layouts and lines.                         *)

LEMMA Smallest ==
    ASSUME NEW S, S \subseteq Nat, S # {}
    PROVE  \E i \in S : \A j \in S : i <= j
  <1> DEFINE R == OpToRel(<, Nat)
  <1>1. \E x \in S : \A y \in S : ~ (<<y, x>> \in R)
    BY WFMin, NatLessThanWellFounded, Zenon
  <1>2. \A x, y \in Nat : y < x => <<y, x>> \in R
    BY DEF OpToRel
  <1> HIDE DEF R
  <1>3. PICK x \in S : \A y \in S : ~ (<<y, x>> \in R)
    BY <1>1
  <1>4. \A y \in S : x \in Nat /\ y \in Nat /\ ~ (y < x)
    BY <1>2, <1>3
  <1> QED
    BY <1>4

LEMMA MinIsLeast ==
    ASSUME NEW S, S \subseteq Nat, S # {}
    PROVE  Min(S) \in S /\ \A y \in S : Min(S) <= y
  <1>1. \E x \in S : \A y \in S : x <= y
    BY Smallest
  <1> QED
    BY <1>1, Zenon DEF Min

LEMMA MinIs ==
    ASSUME NEW S, S \subseteq Nat, NEW x \in S, \A y \in S : x <= y
    PROVE  Min(S) = x
  <1>1. Min(S) \in S /\ \A y \in S : Min(S) <= y
    BY MinIsLeast
  <1>2. Min(S) <= x /\ x <= Min(S) /\ x \in Nat /\ Min(S) \in Nat
    BY <1>1
  <1> QED
    BY <1>2

LEMMA InSeq ==
    ASSUME NEW T, NEW s \in Seq(T)
    PROVE  /\ Len(s) \in Nat /\ DOMAIN s = 1..Len(s)
           /\ \A i \in 1..Len(s) : s[i] \in T
           /\ \A i \in DOMAIN s : s[i] \in T
  OBVIOUS

LEMMA LayoutType ==
    ASSUME shape \in Layouts, NEW l \in Lib
    PROVE  /\ shape[l].segs \in Seq([v : 0..(Spacing - 1), x : BOOLEAN])
           /\ shape[l].sections \in Seq(Sections)
           /\ shape[l].bias \in 0..(Spacing - 1)
           /\ shape[l].syms \in Seq([name : Symbol, value : 0..(Spacing - 1), def : BOOLEAN])
           /\ shape[l].match \in BOOLEAN /\ shape[l].long \in BOOLEAN
  BY LayoutAssumption

LEMMA ExecutableType ==
    ASSUME shape \in Layouts, NEW l \in Lib
    PROVE  Executable(l) \subseteq 0..(Spacing - 1)
  <1>1. \A t \in Range(shape[l].segs) : t.v \in 0..(Spacing - 1)
    <2>1. PICK s \in Seq([v : 0..(Spacing - 1), x : BOOLEAN]) : s = shape[l].segs
      BY LayoutType
    <2>2. \A i \in DOMAIN s : s[i] \in [v : 0..(Spacing - 1), x : BOOLEAN]
      BY InSeq
    <2> QED
      BY <2>1, <2>2 DEF Range
  <1> QED
    BY <1>1 DEF Executable

\* Load addresses lie further apart than any library reaches.
LEMMA BasesApart ==
    /\ Bases \subseteq Nat
    /\ \A b \in Bases : b >= Spacing
    /\ \A b, c \in Bases : b < c => b + Spacing <= c
  <1>1. Cardinality(Lib) \in Nat /\ Spacing \in Nat /\ Spacing > 0
    BY LibAssumption, FS_CardinalityType
  <1>2. \A k \in Nat \ {0} : k * Spacing \in Nat /\ k * Spacing >= Spacing
    BY <1>1
  <1>3. ASSUME NEW j \in Nat, NEW k \in Nat, j * Spacing < k * Spacing
        PROVE  j * Spacing + Spacing <= k * Spacing
    <2>1. j < k
      <3>1. SUFFICES ASSUME k <= j PROVE k * Spacing <= j * Spacing
        BY <1>1, <1>3
      <3>2. (j - k) * Spacing >= 0 /\ (j - k) * Spacing = j * Spacing - k * Spacing
        BY <1>1, <3>1
      <3> QED
        BY <1>1, <3>2
    <2>2. (k - j - 1) * Spacing >= 0 /\ (k - j - 1) * Spacing = k * Spacing - j * Spacing - Spacing
      BY <1>1, <2>1
    <2> QED
      BY <1>1, <2>2
  <1>4. \A b \in Bases : \E k \in Nat \ {0} : b = k * Spacing
    BY <1>1 DEF Bases
  <1> QED
    BY <1>1, <1>2, <1>3, <1>4

LEMMA InLines ==
    ASSUME NEW n
    PROVE  n \in Lines <=> \E l \in Lib : /\ at[l] # 0
                                          /\ \E v \in Executable(l) : n = [lib |-> l, addr |-> at[l] + v]
  <1> DEFINE Code(l) == {t \in Range(shape[l].segs) : t.x}
             Of(l) == {[lib |-> l, addr |-> at[l] + s.v] : s \in Code(l)}
  <1>1. n \in Lines <=> \E l \in Lib : at[l] # 0 /\ n \in Of(l)
    BY Zenon DEF Lines
  <1>2. \A l \in Lib : n \in Of(l) <=> \E s \in Code(l) : n = [lib |-> l, addr |-> at[l] + s.v]
    OBVIOUS
  <1>3. \A l \in Lib : \A v : v \in Executable(l) <=> \E s \in Code(l) : v = s.v
    BY DEF Executable
  <1> HIDE DEF Code, Of
  <1> QED
    BY <1>1, <1>2, <1>3

\* The line that fgets gives next: the lowest mapping above the last one, and no other
\* library has one at the same address.
LEMMA NextLineIs ==
    ASSUME LoaderInv, pos \in Nat, Below # {}
    PROVE  \E l \in Lib : \E v \in Executable(l) :
              /\ at[l] # 0 /\ v \in Nat /\ at[l] \in Nat
              /\ NextLine = [lib |-> l, addr |-> at[l] + v]
              /\ at[l] + v > pos /\ at[l] + v >= Spacing
              /\ \A k \in Lib : \A u \in Executable(k) :
                    at[k] # 0 /\ at[k] + u > pos =>
                        at[l] + v <= at[k] + u /\ (at[l] + v = at[k] + u => k = l)
  <1>1. \A k \in Lib : at[k] # 0 => at[k] \in Bases
    BY DEF LoaderInv
  <1>2. \A k \in Lib : Executable(k) \subseteq 0..(Spacing - 1)
    BY ExecutableType DEF LoaderInv
  <1>3. Spacing \in Nat
    BY LibAssumption
  <1>4. ASSUME NEW n \in Below PROVE n.addr \in Nat
    <2>1. PICK l \in Lib : at[l] # 0 /\ \E v \in Executable(l) : n = [lib |-> l, addr |-> at[l] + v]
      BY InLines DEF Below
    <2>2. PICK v \in Executable(l) : n = [lib |-> l, addr |-> at[l] + v]
      BY <2>1
    <2>3. at[l] \in Nat /\ v \in 0..(Spacing - 1)
      BY <1>1, <1>2, <2>1, BasesApart
    <2> QED
      BY <1>3, <2>2, <2>3
  <1>5. \E n \in Below : \A o \in Below : n.addr <= o.addr
    <2> DEFINE A == {n.addr : n \in Below}
    <2>1. PICK a \in A : \A b \in A : a <= b
      BY <1>4, Smallest
    <2> QED
      BY <2>1
  <1>6. NextLine \in Below /\ \A o \in Below : NextLine.addr <= o.addr
    BY <1>5, Zenon DEF NextLine
  <1>7. PICK l \in Lib : at[l] # 0 /\ \E v \in Executable(l) : NextLine = [lib |-> l, addr |-> at[l] + v]
    BY <1>6, InLines DEF Below
  <1>8. PICK v \in Executable(l) : NextLine = [lib |-> l, addr |-> at[l] + v]
    BY <1>7
  <1>9. at[l] + v > pos
    BY <1>6, <1>8 DEF Below
  <1>10. v \in 0..(Spacing - 1) /\ at[l] \in Bases /\ at[l] \in Nat /\ at[l] >= Spacing
    BY <1>1, <1>2, <1>7, BasesApart
  <1>11. ASSUME NEW k \in Lib, NEW u \in Executable(k), at[k] # 0, at[k] + u > pos
         PROVE  at[l] + v <= at[k] + u /\ (at[l] + v = at[k] + u => k = l)
    <2>1. [lib |-> k, addr |-> at[k] + u] \in Below
      BY <1>11, InLines DEF Below
    <2>2. at[l] + v <= at[k] + u
      BY <1>6, <1>8, <2>1
    <2>3. u \in 0..(Spacing - 1) /\ at[k] \in Bases /\ at[k] \in Nat
      BY <1>1, <1>2, <1>11, BasesApart
    <2>4. at[l] + v = at[k] + u => at[l] = at[k]
      BY <1>3, <1>10, <2>3, BasesApart
    <2>5. at[l] = at[k] => k = l
      BY <1>7 DEF LoaderInv
    <2> QED
      BY <2>2, <2>4, <2>5
  <1> QED
    BY <1>3, <1>7, <1>8, <1>9, <1>10, <1>11
-----------------------------------------------------------------------------
(* What leaves each part of the invariant alone.                           *)

\* Nothing about the libraries changes.
LEMMA LoaderKept ==
    ASSUME LoaderInv, shape' = shape, at' = at, moved' \in {moved, {}}
    PROVE  LoaderInv'
  BY DEF LoaderInv

\* The scan is not concerned: what stayed still stands where it stood, and the call
\* does not enter the scan.
LEMMA ScanKept ==
    ASSUME ScanInv, shape' = shape, pos' = pos, line' = line, reported' = reported,
           Staying' \subseteq Staying, \A l \in Staying' : at'[l] = at[l],
           line.lib \in Staying => line.lib \in Staying' \cup moved', moved \subseteq moved',
           dpc' = dpc \/ dpc' \notin {"idle", "scan", "enumerate", "enumerated"}
    PROVE  ScanInv'
  <1>1. \A l : Executable(l)' = Executable(l) /\ HasText(l)' = HasText(l)
    BY DEF Executable, HasText
  <1>2. (dpc = "idle" => pos = 0 /\ reported = {})'
    BY DEF ScanInv
  <1>3. (dpc = "scan" =>
          \A l \in Staying : \A v \in Executable(l) : at[l] + v <= pos => ~HasText(l))'
    BY <1>1 DEF ScanInv
  <1>4. (dpc = "enumerate" =>
          \A l \in Staying : \A v \in Executable(l) : at[l] + v <= pos => l \in reported)'
    BY <1>1 DEF ScanInv
  <1>5. (dpc = "enumerated" => \A l \in Staying : \A v \in Executable(l) : l \in reported)'
    BY <1>1 DEF ScanInv
  <1>6. ASSUME line.addr # 0
        PROVE  (/\ line.addr >= Spacing /\ HasText(line.lib)
                /\ line.lib \in moved \/ (/\ line.lib \in Staying
                                          /\ \E v \in Executable(line.lib) : line.addr = at[line.lib] + v)
                /\ \A l \in Staying : \A v \in Executable(l) : HasText(l) => line.addr <= at[l] + v)'
    <2>1. (line.addr >= Spacing /\ HasText(line.lib))'
      BY <1>1, <1>6 DEF ScanInv
    <2>2. (line.lib \in moved \/ (/\ line.lib \in Staying
                                  /\ \E v \in Executable(line.lib) : line.addr = at[line.lib] + v))'
      BY <1>1, <1>6 DEF ScanInv
    <2>3. (\A l \in Staying : \A v \in Executable(l) : HasText(l) => line.addr <= at[l] + v)'
      BY <1>1, <1>6 DEF ScanInv
    <2> QED
      BY <2>1, <2>2, <2>3
  <1> QED
    BY <1>2, <1>3, <1>4, <1>5, <1>6 DEF ScanInv

LEMMA ScanSame ==
    ASSUME ScanInv, shape' = shape, at' = at, moved' = moved, pos' = pos, line' = line,
           reported' = reported,
           dpc' = dpc \/ dpc' \notin {"idle", "scan", "enumerate", "enumerated"}
    PROVE  ScanInv'
  <1>1. Staying' = Staying
    BY DEF Staying
  <1> QED
    BY <1>1, ScanKept

\* The sections are not concerned.
LEMMA SectionKept ==
    ASSUME SectionInv, shape' = shape, line' = line, section' = section, handle' = handle,
           stray' = stray,
           dpc' = dpc \/ (dpc' \in {"scan", "open", "map"} /\ dpc \in {"idle", "scan", "open", "map"})
               \/ (dpc' \in {"found", "closed"} /\ dpc \in {"ready", "found"})
               \/ dpc' \in {"null", "enumerate", "stopped", "enumerated"}
    PROVE  SectionInv'
  <1>1. AllSections' = AllSections
    BY DEF AllSections
  <1>2. FirstCode(shape[line.lib])' = FirstCode(shape[line.lib])
    BY DEF FirstCode, Bias
  <1>3. \A k, t : Behind(shape[line.lib], k, t)' <=> Behind(shape[line.lib], k, t)
    BY DEF Behind
  <1>4. \A k : IsCode(shape[line.lib], k)' <=> IsCode(shape[line.lib], k)
    BY <1>3 DEF IsCode
  <1> QED
    BY <1>1, <1>2, <1>3, <1>4 DEF SectionInv

LEMMA AnswerKept ==
    ASSUME AnswerInv, shape' = shape, line' = line, handle' = handle, wanted' = wanted,
           answer' = answer, dpc' \in {"found", "closed"} => dpc \in {"found", "closed"}
    PROVE  AnswerInv'
  <1>1. \A l, n : Named(l, n)' = Named(l, n)
    BY DEF Named
  <1>2. \A k : Address(k)' = Address(k)
    BY DEF Address
  <1> QED
    BY <1>1, <1>2 DEF AnswerInv
-----------------------------------------------------------------------------
(* Every step keeps the invariant.                                         *)

LEMMA PathKept ==
    ASSUME PathInv, UNCHANGED <<shape, line>>, "full_path" \in held' <=> "full_path" \in held
    PROVE  PathInv'
  BY DEF PathInv

LEMMA InitDlInv ==
    DlInit => DlInv
  <1> SUFFICES ASSUME DlInit PROVE DlInv
    OBVIOUS
  <1> USE DEF DlInit, DlStart
  <1>1. LoaderInv
    <2>1. at \in [Lib -> Bases] /\ \A k, l \in Lib : at[k] = at[l] => k = l
      OBVIOUS
    <2> QED
      BY <2>1 DEF LoaderInv
  <1>2. CallInv
    <2>1. line.addr = 0 /\ handle \in [bias : Nat, dynsym : BOOLEAN, dynstr : BOOLEAN]
      BY DEF None, NoInfo
    <2>2. dpc = "idle" /\ pos \in Nat /\ section \in Nat \ {0}
      OBVIOUS
    <2>3. stray \in BOOLEAN /\ ~stray
      BY Zenon
    <2>4. dpc \notin Located /\ dpc \in NotYet
      BY <2>2 DEF Located, NotYet
    <2> QED
      BY ONLY <2>1, <2>2, <2>3, <2>4 DEF CallInv
  <1>3. HeldInv /\ PathInv
    BY DEF HeldInv, PathInv, Opened, None
  <1>4. SectionInv
    BY DEF SectionInv
  <1>5. ScanInv
    BY DEF ScanInv, None
  <1>6. AnswerInv
    BY DEF AnswerInv
  <1> QED
    BY <1>1, <1>2, <1>3, <1>4, <1>5, <1>6 DEF DlInv

\* A load or an unload puts the library among those that moved.
LEMMA MoveStep ==
    ASSUME DlInv, NEW l \in Lib, load(l) \/ unload(l)
    PROVE  DlInv'
  <1>1. UNCHANGED <<shape, dpc, pos, line, section, handle, held, stray, wanted, answer, reported>>
    BY DEF load, unload
  <1>2. PICK b \in Bases \cup {0} : /\ at' = [at EXCEPT ![l] = b]
                                    /\ b # 0 => b \notin Range(at)
    BY DEF load, unload
  <1>3. moved' = moved \cup {l}
    BY DEF load, unload
  <1>4. \A k \in Lib : at'[k] = IF k = l THEN b ELSE at[k]
    BY <1>2 DEF DlInv, LoaderInv
  <1>5. LoaderInv'
    <2>1. shape' \in Layouts /\ at' \in [Lib -> Bases \cup {0}] /\ moved' \subseteq Lib
      BY <1>1, <1>2, <1>3 DEF DlInv, LoaderInv
    <2>2. \A k \in Lib : b # 0 => at[k] # b
      BY <1>2 DEF DlInv, LoaderInv, Range
    <2>3. \A j, k \in Lib : at'[j] = at'[k] /\ at'[j] # 0 => j = k
      BY <1>4, <2>2 DEF DlInv, LoaderInv
    <2> QED
      BY <2>1, <2>3 DEF LoaderInv
  <1>6. Staying' = Staying \ {l} /\ \A k \in Staying' : at'[k] = at[k]
    BY <1>3, <1>4 DEF Staying
  <1>7. ScanInv'
    BY <1>1, <1>3, <1>6, ScanKept DEF DlInv
  <1>8. CallInv'
    BY <1>1 DEF DlInv, CallInv
  <1>9. HeldInv' /\ PathInv'
    BY <1>1 DEF DlInv, HeldInv, PathInv, ReadTables
  <1>10. SectionInv' /\ AnswerInv'
    BY <1>1, SectionKept, AnswerKept DEF DlInv
  <1> QED
    BY <1>5, <1>7, <1>8, <1>9, <1>10 DEF DlInv

\* The error exit, with h what is held when it is taken.
LEMMA FatalStep ==
    ASSUME DlInv, NEW h, Opened(h) \subseteq {"fd", "map", "info", "dynsym", "dynstr"},
           "full_path" \in h <=> "full_path" \in held, Fatal(h)
    PROVE  DlInv'
  <1>1. UNCHANGED <<shape, at, moved, pos, line, section, handle, stray, wanted, answer, reported>>
    BY DEF Fatal, loader
  <1>2. dpc' = "null" /\ Opened(held') = {} /\ ("full_path" \in held' <=> "full_path" \in held)
    BY DEF Fatal, err_exit, Opened
  <1>3. LoaderInv' /\ ScanInv' /\ SectionInv' /\ AnswerInv'
    BY <1>1, <1>2, LoaderKept, ScanSame, SectionKept, AnswerKept DEF DlInv
  <1>4. CallInv'
    BY <1>1, <1>2 DEF DlInv, CallInv, Located, NotYet
  <1>5. HeldInv' /\ PathInv'
    BY <1>1, <1>2, PathKept DEF DlInv, HeldInv
  <1> QED
    BY <1>3, <1>4, <1>5 DEF DlInv

\* The first line is not read yet, and no library lies at address 0.
LEMMA NothingBelow ==
    ASSUME LoaderInv, NEW l \in Lib, at[l] # 0, NEW v \in Executable(l)
    PROVE  at[l] + v \in Nat /\ at[l] + v > 0
  <1>1. at[l] \in Bases
    BY DEF LoaderInv
  <1>2. v \in 0..(Spacing - 1) /\ at[l] \in Nat /\ at[l] >= Spacing /\ Spacing \in Nat \ {0}
    BY <1>1, ExecutableType, BasesApart, LibAssumption DEF LoaderInv
  <1> QED
    BY <1>2

LEMMA OpenStep ==
    ASSUME DlInv, fake_dlopen
    PROVE  DlInv'
  <1>0. dpc = "idle" => "full_path" \notin held
    BY DEF DlInv, PathInv, CallInv, NotYet
  <1>1. CASE dpc = "idle" /\ \E h \in {{}, {"info"}} : Fatal(h)
    <2>1. PICK h \in {{}, {"info"}} : Fatal(h)
      BY <1>1
    <2>2. Opened(h) \subseteq {"fd", "map", "info", "dynsym", "dynstr"} /\ "full_path" \notin h
      BY <2>1 DEF Opened
    <2> QED
      BY <1>0, <1>1, <2>1, <2>2, FatalStep
  <1>2. CASE /\ dpc = "idle" /\ held' = {"info", "maps"} /\ dpc' = "scan" /\ moved' = {}
             /\ UNCHANGED <<loader, pos, line, section, handle, stray, wanted, answer, reported>>
    <2>1. UNCHANGED <<shape, at, pos, line, section, handle, stray, wanted, answer, reported>>
      BY <1>2 DEF loader
    <2>2. LoaderInv' /\ SectionInv' /\ AnswerInv'
      BY <1>2, <2>1, LoaderKept, SectionKept, AnswerKept DEF DlInv
    <2>3. CallInv'
      BY <1>2, <2>1 DEF DlInv, CallInv, Located, NotYet
    <2>4. HeldInv' /\ PathInv'
      <3>1. Opened(held') = {"info", "maps"} /\ "full_path" \notin held'
        BY <1>2 DEF Opened
      <3> QED
        BY <1>0, <1>2, <2>1, <3>1, PathKept DEF DlInv, HeldInv
    <2>5. \A l \in Staying' : \A v \in Executable(l)' : at'[l] + v \in Nat /\ at'[l] + v > 0
      <3>1. \A l : Executable(l)' = Executable(l)
        BY <2>1 DEF Executable
      <3>2. \A l \in Staying' : l \in Lib /\ at[l] # 0
        BY <2>1 DEF Staying
      <3> QED
        BY <2>1, <3>1, <3>2, NothingBelow DEF DlInv
    <2>6. pos' = 0 /\ line'.addr = 0
      BY <1>2, <2>1 DEF DlInv, ScanInv, CallInv, NotYet
    <2>7. ScanInv'
      BY <1>2, <2>5, <2>6 DEF ScanInv
    <2> QED
      BY <2>2, <2>3, <2>4, <2>7 DEF DlInv
  <1> QED
    BY <1>1, <1>2 DEF fake_dlopen

LEMMA ScanStep ==
    ASSUME DlInv, scan_line
    PROVE  DlInv'
  <1>1. LoaderInv /\ pos \in Nat /\ line.addr = 0
    BY DEF DlInv, CallInv, scan_line, NotYet
  <1>2. UNCHANGED <<shape, at, moved, section, handle, stray, wanted, answer, reported>>
    BY DEF scan_line, loader
  <1>3. PICK l \in Lib : \E v \in Executable(l) :
              /\ at[l] # 0 /\ v \in Nat /\ at[l] \in Nat
              /\ NextLine = [lib |-> l, addr |-> at[l] + v]
              /\ at[l] + v > pos /\ at[l] + v >= Spacing
              /\ \A k \in Lib : \A u \in Executable(k) :
                    at[k] # 0 /\ at[k] + u > pos =>
                        at[l] + v <= at[k] + u /\ (at[l] + v = at[k] + u => k = l)
    BY <1>1, NextLineIs DEF scan_line
  <1>4. PICK v \in Executable(l) :
              /\ at[l] # 0 /\ v \in Nat /\ at[l] \in Nat
              /\ NextLine = [lib |-> l, addr |-> at[l] + v]
              /\ at[l] + v > pos /\ at[l] + v >= Spacing
              /\ \A k \in Lib : \A u \in Executable(k) :
                    at[k] # 0 /\ at[k] + u > pos =>
                        at[l] + v <= at[k] + u /\ (at[l] + v = at[k] + u => k = l)
    BY <1>3
  <1> DEFINE a == at[l] + v
  <1>5. a \in Nat /\ a > pos /\ a >= Spacing /\ a # 0 /\ pos' = a
    BY <1>1, <1>4 DEF scan_line
  <1>6. ASSUME NEW k \in Staying, NEW u \in Executable(k), at[k] + u <= a, k # l
        PROVE  ~HasText(k)
    <2>1. k \in Lib /\ at[k] # 0 /\ at[k] + u \in Int
      BY <1>1, <1>6, NothingBelow DEF Staying
    <2>2. ~(at[k] + u > pos)
      BY <1>4, <1>5, <1>6, <2>1
    <2> QED
      BY <1>1, <2>1, <2>2 DEF DlInv, ScanInv, scan_line
  <1>7. \A k : Executable(k)' = Executable(k) /\ HasText(k)' = HasText(k)
    BY <1>2 DEF Executable, HasText
  <1>8. Staying' = Staying
    BY <1>2 DEF Staying
  <1>9. Matches(NextLine) <=> HasText(l)
    BY <1>4 DEF Matches, HasText
  <1>10. LoaderInv'
    BY <1>1, <1>2, LoaderKept
  <1>11. CASE HasText(l)
    <2>1. line' = [lib |-> l, addr |-> a] /\ dpc' = "open" /\ held' = (held \ {"maps"}) \cup Buffer(l)
      BY <1>4, <1>9, <1>11 DEF scan_line
    <2> HIDE DEF a
    <2>2. CallInv'
      BY <1>2, <1>5, <2>1 DEF DlInv, CallInv, Located, NotYet
    <2>3. HeldInv' /\ PathInv'
      <3>1. Opened(held) = {"info", "maps"} /\ "full_path" \notin held
        BY <1>1 DEF DlInv, HeldInv, PathInv, scan_line
      <3>2. Opened(held') = {"info"}
        BY <2>1, <3>1 DEF Buffer, Opened
      <3>3. "full_path" \in held' <=> ~shape[l].brief
        BY <2>1, <3>1 DEF Buffer
      <3> QED
        BY <1>2, <1>5, <2>1, <3>2, <3>3 DEF HeldInv, PathInv
    <2>4. SectionInv'
      BY <1>2, <2>1 DEF DlInv, SectionInv, CallInv, scan_line
    <2>5. AnswerInv'
      BY <2>1 DEF AnswerInv
    <2>6. l \in moved \/ l \in Staying
      BY <1>4 DEF Staying
    <2>7. ASSUME NEW k \in Staying, NEW u \in Executable(k), HasText(k)
          PROVE  a <= at[k] + u
      <3>1. k \in Lib /\ at[k] # 0 /\ at[k] + u \in Int
        BY <1>1, NothingBelow DEF Staying
      <3>2. at[k] + u > pos
        BY <1>1, <2>7, <3>1 DEF DlInv, ScanInv, scan_line
      <3> QED
        BY <1>4, <3>1, <3>2 DEF a
    <2>8. ScanInv'
      <3>1. line'.addr = a /\ line'.lib = l
        BY <2>1
      <3>2. (line.addr >= Spacing /\ HasText(line.lib))'
        BY <1>5, <1>7, <1>11, <3>1
      <3>3. (line.lib \in moved \/ (/\ line.lib \in Staying
                                    /\ \E w \in Executable(line.lib) : line.addr = at[line.lib] + w))'
        BY <1>2, <1>4, <1>7, <1>8, <2>6, <3>1 DEF a
      <3>4. (\A k \in Staying : \A u \in Executable(k) : HasText(k) => line.addr <= at[k] + u)'
        BY <1>2, <1>7, <1>8, <2>7, <3>1
      <3> QED
        BY <2>1, <3>2, <3>3, <3>4 DEF ScanInv
    <2> QED
      BY <1>10, <2>2, <2>3, <2>4, <2>5, <2>8 DEF DlInv
  <1>12. CASE ~HasText(l)
    <2>1. UNCHANGED <<line, dpc, held>>
      BY <1>9, <1>12 DEF scan_line
    <2>2. SectionInv' /\ AnswerInv'
      BY <1>2, <2>1, SectionKept, AnswerKept DEF DlInv
    <2> HIDE DEF a
    <2>3. CallInv'
      BY <1>2, <1>5, <2>1 DEF DlInv, CallInv
    <2>4. HeldInv' /\ PathInv'
      BY <1>2, <2>1, PathKept DEF DlInv, HeldInv, ReadTables
    <2>5. ScanInv'
      <3>1. dpc' = "scan"
        BY <2>1 DEF scan_line
      <3>2. (\A k \in Staying : \A u \in Executable(k) : at[k] + u <= pos => ~HasText(k))'
        BY <1>2, <1>5, <1>6, <1>7, <1>8, <1>12
      <3> QED
        BY <1>1, <2>1, <3>1, <3>2 DEF ScanInv
    <2> QED
      BY <1>10, <2>2, <2>3, <2>4, <2>5 DEF DlInv
  <1> QED
    BY <1>11, <1>12
LEMMA FileStep ==
    ASSUME DlInv, scan_end \/ open_file \/ map_file \/ section_fails
    PROVE  DlInv'
  <1> DEFINE Goes(h, to) ==
        /\ held' = h /\ dpc' = to
        /\ UNCHANGED <<loader, moved, pos, line, section, handle, stray, wanted, answer, reported>>
  <1>1. ASSUME NEW h, NEW to, Goes(h, to),
               (dpc = "open" /\ to = "map" /\ h = held \cup {"fd"})
                   \/ (dpc = "map" /\ to = "sections" /\ h = (held \ {"fd"}) \cup {"map"})
        PROVE  DlInv'
    <2>1. UNCHANGED <<shape, at, moved, pos, line, section, handle, stray, wanted, answer, reported>>
      BY <1>1 DEF loader
    <2>2. LoaderInv' /\ ScanInv' /\ AnswerInv'
      BY <1>1, <2>1, LoaderKept, ScanSame, AnswerKept DEF DlInv
    <2>3. CallInv'
      BY <1>1, <2>1 DEF DlInv, CallInv, Located, NotYet
    <2>4. HeldInv' /\ PathInv'
      <3>0. PathInv'
        <4>1. "full_path" \in held' <=> "full_path" \in held
          BY <1>1
        <4> QED
          BY <2>1, <4>1, PathKept DEF DlInv
      <3>1. CASE dpc = "open"
        <4>1. Opened(held) = {"info"} /\ dpc' = "map" /\ held' = held \cup {"fd"}
          BY <1>1, <3>1 DEF DlInv, HeldInv
        <4>2. Opened(held') = {"info", "fd"}
          BY <4>1 DEF Opened
        <4> QED
          BY <3>0, <4>1, <4>2 DEF HeldInv
      <3>2. CASE dpc = "map"
        <4>1. handle = NoInfo /\ Opened(held) = {"info", "fd"} /\ dpc' = "sections" /\ handle' = handle
          BY <1>1, <2>1, <3>2 DEF DlInv, HeldInv, SectionInv
        <4>2. ReadTables' = {}
          BY <4>1 DEF ReadTables, NoInfo
        <4>3. Opened(held') = {"info", "map"}
          BY <1>1, <3>2, <4>1 DEF Opened
        <4> QED
          BY <3>0, <4>1, <4>2, <4>3 DEF HeldInv
      <3> QED
        BY <1>1, <3>1, <3>2
    <2>5. SectionInv'
      <3>1. CASE dpc = "open"
        BY <1>1, <2>1, <3>1, SectionKept DEF DlInv
      <3>2. CASE dpc = "map"
        <4>1. handle' = NoInfo /\ section' = 1 /\ dpc' = "sections" /\ stray' = stray
          BY <1>1, <2>1, <3>2 DEF DlInv, SectionInv
        <4>2. PICK s : s = shape[line.lib]'
          OBVIOUS
        <4>3. line'.lib \in Lib /\ shape' \in Layouts
          BY <1>1, <2>1, <3>2 DEF DlInv, CallInv, LoaderInv, Located
        <4>4. s.sections \in Seq(Sections)
          BY <2>1, <4>2, <4>3, LayoutType DEF DlInv, LoaderInv
        <4>5. \A k, x : ~Behind(s, 1, x)
          BY DEF Behind
        <4>6. 1 <= Len(s.sections) + 1 /\ NoInfo.bias = 0 /\ NoInfo.dynsym = FALSE /\ NoInfo.dynstr = FALSE
          BY <4>4, InSeq DEF NoInfo
        <4>7. AllSections' = AllSections
          BY <2>1 DEF AllSections
        <4>8. \A k \in 1..(1 - 1) : ~IsCode(s, k)
          OBVIOUS
        <4> QED
          BY <2>1, <4>1, <4>2, <4>5, <4>6, <4>7, <4>8 DEF DlInv, SectionInv
      <3> QED
        BY <1>1, <3>1, <3>2
    <2> QED
      BY <2>2, <2>3, <2>4, <2>5 DEF DlInv
  <1>2. ASSUME NEW h, Opened(h) \subseteq {"fd", "map", "info", "dynsym", "dynstr"},
               "full_path" \in h <=> "full_path" \in held, Fatal(h)
        PROVE  DlInv'
    BY <1>2, FatalStep, Zenon
  <1>3. CASE scan_end
    <2>1. Opened(held) = {"info", "maps"} /\ Fatal(held \ {"maps"})
      BY <1>3 DEF scan_end, DlInv, HeldInv
    <2>2. PICK h : h = held \ {"maps"}
      OBVIOUS
    <2>3. Opened(h) = {"info"} /\ ("full_path" \in h <=> "full_path" \in held)
      BY <2>1, <2>2 DEF Opened
    <2>4. Opened(h) \subseteq {"fd", "map", "info", "dynsym", "dynstr"}
      BY <2>3
    <2>5. Fatal(h)
      BY <2>1, <2>2, Zenon
    <2> QED
      BY <1>2, <2>3, <2>4, <2>5, Zenon
  <1>4. CASE open_file
    <2>1. Opened(held) = {"info"} /\ dpc = "open"
      BY <1>4 DEF open_file, DlInv, HeldInv
    <2>2. Goes(held \cup {"fd"}, "map") \/ Fatal(held)
      BY <1>4 DEF open_file
    <2> HIDE DEF Goes
    <2> QED
      BY <1>1, <1>2, <2>1, <2>2
  <1>5. CASE map_file
    <2>1. Opened(held) = {"info", "fd"} /\ dpc = "map"
      BY <1>5 DEF map_file, DlInv, HeldInv
    <2>2. Goes((held \ {"fd"}) \cup {"map"}, "sections") \/ Fatal(held) \/ Fatal(held \ {"fd"})
      BY <1>5 DEF map_file
    <2>3. Opened(held \ {"fd"}) = {"info"}
      BY <2>1 DEF Opened
    <2> HIDE DEF Goes
    <2> QED
      BY <1>1, <1>2, <2>1, <2>2, <2>3
  <1>6. CASE section_fails
    <2>1. Opened(held) \subseteq {"fd", "map", "info", "dynsym", "dynstr"}
      BY <1>6 DEF section_fails, DlInv, HeldInv, ReadTables
    <2>2. Fatal(held)
      BY <1>6 DEF section_fails
    <2> QED
      BY <1>2, <2>1, <2>2
  <1> QED
    BY <1>3, <1>4, <1>5, <1>6
LEMMA BehindNext ==
    ASSUME NEW s, NEW k \in Nat \ {0}, NEW t
    PROVE  Behind(s, k + 1, t) <=> Behind(s, k, t) \/ s.sections[k] = t
  BY DEF Behind

Codes(s) == {k \in 1..Len(s.sections) : IsCode(s, k)}

LEMMA FirstCodeIs ==
    ASSUME NEW s
    PROVE  FirstCode(s) = IF Codes(s) = {} THEN 0 ELSE Bias(s, s.sections[Min(Codes(s))])
  BY DEF FirstCode, Codes, IsCode, Behind

\* The state of the loop over the section headers.
LEMMA InSections ==
    ASSUME DlInv, dpc = "sections"
    PROVE  \E s : /\ s = shape[line.lib] /\ s.sections = AllSections
                  /\ s.sections \in Seq(Sections) /\ Len(s.sections) \in Nat
                  /\ s.bias \in Nat
                  /\ line.lib \in Lib
  <1>1. line.lib \in Lib /\ shape \in Layouts
    BY DEF DlInv, CallInv, LoaderInv, Located
  <1>2. shape[line.lib].sections \in Seq(Sections) /\ shape[line.lib].bias \in 0..(Spacing - 1)
    BY <1>1, LayoutType
  <1> QED
    BY <1>1, <1>2, InSeq, LibAssumption DEF AllSections

LEMMA SectionStep ==
    ASSUME DlInv, read_section
    PROVE  DlInv'
  <1>1. UNCHANGED <<shape, at, moved, dpc, pos, line, stray, wanted, answer, reported>>
    BY DEF read_section, loader
  <1>2. dpc = "sections" /\ section <= Len(AllSections)
    BY DEF read_section
  <1>3. PICK s : /\ s = shape[line.lib] /\ s.sections = AllSections
                 /\ s.sections \in Seq(Sections) /\ Len(s.sections) \in Nat
                 /\ s.bias \in Nat
                 /\ line.lib \in Lib
    BY <1>2, InSections
  <1>4. PICK t : t = s.sections[section]
    OBVIOUS
  <1>5. section \in 1..Len(s.sections) /\ section \in Nat \ {0} /\ t \in Sections
    BY <1>2, <1>3, <1>4, InSeq DEF DlInv, CallInv
  <1>6. PICK d \in BOOLEAN, r \in BOOLEAN : d = handle.dynsym /\ r = handle.dynstr
    BY DEF DlInv, CallInv
  <1>7. /\ handle = [bias |-> 0, dynsym |-> d, dynstr |-> r]
        /\ d <=> Behind(s, section, "dynsym")
        /\ r <=> Behind(s, section, "strtab")
        /\ \A k \in 1..(section - 1) : ~IsCode(s, k)
    <2>1. /\ handle.bias = 0
          /\ handle.dynsym <=> Behind(s, section, "dynsym")
          /\ handle.dynstr <=> Behind(s, section, "strtab")
          /\ \A k \in 1..(section - 1) : ~IsCode(s, k)
      BY <1>2, <1>3, <1>5 DEF DlInv, SectionInv
    <2>2. handle \in [bias : Nat, dynsym : BOOLEAN, dynstr : BOOLEAN]
      BY DEF DlInv, CallInv
    <2> QED
      BY <1>6, <2>1, <2>2
  <1>8. LoaderInv' /\ ScanInv' /\ AnswerInv'
    <2>1. AnswerInv'
      BY <1>1, <1>2 DEF AnswerInv
    <2> QED
      BY <1>1, <2>1, LoaderKept, ScanSame DEF DlInv
  <1>9. Opened(held) = {"info", "map"} \cup (IF d THEN {"dynsym"} ELSE {}) \cup (IF r THEN {"dynstr"} ELSE {})
    BY <1>2, <1>6 DEF DlInv, HeldInv, ReadTables
  <1>10. ASSUME NEW e \in BOOLEAN, NEW q \in BOOLEAN, NEW b \in Nat, NEW m \in Nat \ {0},
                handle' = [bias |-> b, dynsym |-> e, dynstr |-> q], section' = m,
                Opened(held') = {"info", "map"} \cup (IF e THEN {"dynsym"} ELSE {})
                                                 \cup (IF q THEN {"dynstr"} ELSE {}),
                "full_path" \in held' <=> "full_path" \in held,
                \/ /\ m <= Len(s.sections) + 1 /\ b = 0
                   /\ e <=> Behind(s, m, "dynsym")
                   /\ q <=> Behind(s, m, "strtab")
                   /\ \A k \in 1..(m - 1) : ~IsCode(s, k)
                \/ m = Len(s.sections) + 1 /\ e /\ q /\ b = FirstCode(s)
         PROVE  DlInv'
    <2>1. handle'.bias = b /\ handle'.dynsym = e /\ handle'.dynstr = q
      BY <1>10
    <2>2. CallInv'
      <3>1. handle' \in [bias : Nat, dynsym : BOOLEAN, dynstr : BOOLEAN] /\ section' \in Nat \ {0}
        BY <1>10
      <3> QED
        BY <1>1, <3>1 DEF DlInv, CallInv
    <2>3. HeldInv' /\ PathInv'
      <3>1. ReadTables' = (IF e THEN {"dynsym"} ELSE {}) \cup (IF q THEN {"dynstr"} ELSE {})
        BY <2>1 DEF ReadTables
      <3> QED
        BY <1>1, <1>2, <1>10, <3>1, PathKept DEF DlInv, HeldInv
    <2>4. SectionInv'
      <3>1. shape'[line'.lib] = s /\ AllSections' = AllSections
        BY <1>1, <1>3 DEF AllSections
      <3>2. stray' => ~({"dynsym", "strtab"} \subseteq Range(AllSections'))
        BY <1>1, <3>1 DEF DlInv, SectionInv
      <3> QED
        BY <1>1, <1>2, <1>10, <2>1, <3>1, <3>2 DEF SectionInv
    <2> QED
      BY <1>8, <2>2, <2>3, <2>4 DEF DlInv
  <1>11. section + 1 \in Nat \ {0} /\ section + 1 <= Len(s.sections) + 1 /\ (section + 1) - 1 = section
    BY <1>3, <1>5
  <1>12. \A x : Behind(s, section + 1, x) <=> Behind(s, section, x) \/ t = x
    BY <1>4, <1>5, BehindNext
  <1>13. ~IsCode(s, section) => \A k \in 1..((section + 1) - 1) : ~IsCode(s, k)
    BY <1>5, <1>7
  <1>14. IsCode(s, section) <=> t \in {"rodata", "text"} /\ d /\ r
    BY <1>4, <1>7 DEF IsCode
  <1>15. CASE t = "dynsym" /\ ~d /\ handle' = [handle EXCEPT !.dynsym = TRUE]
              /\ held' = held \cup {"dynsym"} /\ section' = section + 1
    <2>1. handle' = [bias |-> 0, dynsym |-> TRUE, dynstr |-> r]
      BY <1>7, <1>15
    <2>2. /\ Opened(held') = {"info", "map"} \cup (IF TRUE THEN {"dynsym"} ELSE {})
                                              \cup (IF r THEN {"dynstr"} ELSE {})
          /\ "full_path" \in held' <=> "full_path" \in held
      BY <1>9, <1>15 DEF Opened
    <2>3. Behind(s, section + 1, "dynsym") /\ (r <=> Behind(s, section + 1, "strtab"))
      BY <1>7, <1>12, <1>15
    <2>4. \A k \in 1..((section + 1) - 1) : ~IsCode(s, k)
      BY <1>13, <1>14, <1>15
    <2> QED
      BY <1>10, <1>11, <1>15, <2>1, <2>2, <2>3, <2>4
  <1>16. CASE t = "strtab" /\ ~r /\ handle' = [handle EXCEPT !.dynstr = TRUE]
              /\ held' = held \cup {"dynstr"} /\ section' = section + 1
    <2>1. handle' = [bias |-> 0, dynsym |-> d, dynstr |-> TRUE]
      BY <1>7, <1>16
    <2>2. /\ Opened(held') = {"info", "map"} \cup (IF d THEN {"dynsym"} ELSE {})
                                              \cup (IF TRUE THEN {"dynstr"} ELSE {})
          /\ "full_path" \in held' <=> "full_path" \in held
      BY <1>9, <1>16 DEF Opened
    <2>3. Behind(s, section + 1, "strtab") /\ (d <=> Behind(s, section + 1, "dynsym"))
      BY <1>7, <1>12, <1>16
    <2>4. \A k \in 1..((section + 1) - 1) : ~IsCode(s, k)
      BY <1>13, <1>14, <1>16
    <2> QED
      BY <1>10, <1>11, <1>16, <2>1, <2>2, <2>3, <2>4
  <1>17. CASE t \in {"rodata", "text"} /\ d /\ r /\ handle' = [handle EXCEPT !.bias = Bias(s, t)]
              /\ section' = Len(s.sections) + 1 /\ held' = held
    <2>1. Bias(s, t) \in Nat
      BY <1>3 DEF Bias
    <2>2. handle' = [bias |-> Bias(s, t), dynsym |-> TRUE, dynstr |-> TRUE]
      BY <1>7, <1>17
    <2>3. Opened(held') = {"info", "map"} \cup (IF TRUE THEN {"dynsym"} ELSE {})
                                          \cup (IF TRUE THEN {"dynstr"} ELSE {})
      BY <1>9, <1>17
    <2>4. section \in Codes(s) /\ Codes(s) \subseteq Nat /\ \A k \in Codes(s) : section <= k
      BY <1>3, <1>5, <1>7, <1>14, <1>17 DEF Codes
    <2>5. Min(Codes(s)) = section
      BY <2>4, MinIs
    <2>6. Bias(s, t) = FirstCode(s)
      BY <1>4, <2>4, <2>5, FirstCodeIs
    <2>7. Len(s.sections) + 1 \in Nat \ {0}
      BY <1>3
    <2> QED
      BY <1>10, <1>17, <2>1, <2>2, <2>3, <2>6, <2>7
  <1>18. CASE /\ (t = "strtab" /\ r) \/ (t \in {"rodata", "text"} /\ ~(d /\ r))
              /\ section' = section + 1 /\ handle' = handle /\ held' = held
    <2>1. (r <=> Behind(s, section + 1, "strtab")) /\ (d <=> Behind(s, section + 1, "dynsym"))
      BY <1>7, <1>12, <1>18
    <2>2. \A k \in 1..((section + 1) - 1) : ~IsCode(s, k)
      BY <1>13, <1>14, <1>18
    <2> QED
      BY <1>7, <1>9, <1>10, <1>11, <1>18, <2>1, <2>2
  <1>19. CodeSection(t) <=> t \in {"rodata", "text"} /\ d /\ r
    BY <1>6 DEF CodeSection
  <1> QED
    BY <1>3, <1>4, <1>6, <1>15, <1>16, <1>17, <1>18, <1>19 DEF read_section

LEMMA SectionsEndStep ==
    ASSUME DlInv, sections_end
    PROVE  DlInv'
  <1>1. UNCHANGED <<shape, at, moved, pos, line, section, handle, wanted, answer, reported>>
    BY DEF sections_end, loader
  <1>2. dpc = "sections" /\ section > Len(AllSections) /\ section \in Nat
    BY DEF sections_end, DlInv, CallInv
  <1>3. PICK s : /\ s = shape[line.lib] /\ s.sections = AllSections
                 /\ s.sections \in Seq(Sections) /\ Len(s.sections) \in Nat
                 /\ s.bias \in Nat
                 /\ line.lib \in Lib
    BY <1>2, InSections
  <1>4. section = Len(s.sections) + 1
    BY <1>2, <1>3 DEF DlInv, SectionInv
  <1>5. shape'[line'.lib] = s /\ AllSections' = AllSections
    BY <1>1, <1>3 DEF AllSections
  <1>6. Opened(held) = {"info", "map"} \cup ReadTables
    BY <1>2 DEF DlInv, HeldInv
  <1>7. LoaderInv'
    BY <1>1, LoaderKept DEF DlInv
  <1>8. CASE handle.dynsym /\ handle.dynstr
    <2>1. held' = held \ {"map"} /\ dpc' = "ready" /\ stray' = stray
      BY <1>8 DEF sections_end
    <2>2. Opened(held') = {"info", "dynsym", "dynstr"} /\ ("full_path" \in held' <=> "full_path" \in held)
      BY <1>6, <1>8, <2>1 DEF Opened, ReadTables
    <2>3. handle.bias = FirstCode(s)
      <3>1. CASE handle.bias = 0 /\ \A k \in 1..(section - 1) : ~IsCode(s, k)
        <4>1. Codes(s) = {}
          BY <1>3, <1>4, <3>1 DEF Codes
        <4> QED
          BY <3>1, <4>1, FirstCodeIs
      <3> QED
        BY <1>2, <1>3, <3>1 DEF DlInv, SectionInv
    <2>4. SectionInv'
      <3>1. stray' => ~({"dynsym", "strtab"} \subseteq Range(AllSections'))
        BY <1>5, <2>1 DEF DlInv, SectionInv
      <3> QED
        BY <1>1, <1>5, <2>1, <2>3, <3>1 DEF SectionInv
    <2>5. CallInv'
      BY <1>1, <1>2, <2>1 DEF DlInv, CallInv, Located, NotYet
    <2>6. HeldInv' /\ PathInv'
      BY <1>1, <2>1, <2>2, PathKept DEF DlInv, HeldInv
    <2>7. ScanInv' /\ AnswerInv'
      BY <1>1, <1>2, <2>1, ScanSame, AnswerKept DEF DlInv
    <2> QED
      BY <1>7, <2>4, <2>5, <2>6, <2>7 DEF DlInv
  <1>9. CASE ~(handle.dynsym /\ handle.dynstr)
    <2>1. held' = err_exit(held \ {"map"}) /\ dpc' = "null" /\ stray' = TRUE
      BY <1>9 DEF sections_end
    <2>2. Opened(held') = {} /\ ("full_path" \in held' <=> "full_path" \in held)
      BY <1>6, <2>1 DEF err_exit, Opened, ReadTables
    <2>3. ~Behind(s, section, "dynsym") \/ ~Behind(s, section, "strtab")
      BY <1>2, <1>3, <1>9 DEF DlInv, SectionInv
    <2>4. \A x : x \in Range(AllSections) => Behind(s, section, x)
      BY <1>3, <1>4 DEF Range, Behind
    <2>5. SectionInv'
      BY <1>5, <2>1, <2>3, <2>4 DEF SectionInv
    <2>6. CallInv'
      <3>1. stray' \in BOOLEAN /\ line'.addr # 0
        BY <1>1, <1>2, <2>1 DEF DlInv, CallInv, Located
      <3> QED
        BY <1>1, <1>2, <2>1, <3>1 DEF DlInv, CallInv, Located, NotYet
    <2>7. HeldInv' /\ PathInv'
      BY <1>1, <2>1, <2>2, PathKept DEF DlInv, HeldInv
    <2>8. ScanInv' /\ AnswerInv'
      BY <1>1, <1>2, <2>1, ScanSame, AnswerKept DEF DlInv
    <2> QED
      BY <1>7, <2>5, <2>6, <2>7, <2>8 DEF DlInv
  <1> QED
    BY <1>8, <1>9
LEMMA AnswerStep ==
    ASSUME DlInv, (\E n \in Symbol : fake_dlsym(n)) \/ fake_dlclose
    PROVE  DlInv'
  <1>1. UNCHANGED <<shape, at, moved, pos, line, section, handle, stray, reported>>
    BY DEF fake_dlsym, fake_dlclose, loader
  <1>2. \/ dpc = "ready" /\ dpc' = "found" /\ held' = held
        \/ dpc = "found" /\ dpc' = "closed" /\ held' = held \ {"info", "dynsym", "dynstr"}
    BY DEF fake_dlsym, fake_dlclose
  <1>3. LoaderInv' /\ ScanInv' /\ SectionInv'
    BY <1>1, <1>2, LoaderKept, ScanSame, SectionKept DEF DlInv
  <1>4. CallInv'
    BY <1>1, <1>2 DEF DlInv, CallInv, Located, NotYet
  <1>5. HeldInv' /\ PathInv'
    <2>1. "full_path" \in held' <=> "full_path" \in held
      BY <1>2
    <2>2. CASE dpc' = "found"
      BY <1>1, <1>2, <2>1, <2>2, PathKept DEF DlInv, HeldInv
    <2>3. CASE dpc' = "closed"
      <3>1. Opened(held') = {}
        BY <1>2, <2>3 DEF DlInv, HeldInv, Opened
      <3> QED
        BY <1>1, <2>1, <2>3, <3>1, PathKept DEF DlInv, HeldInv
    <2> QED
      BY <1>2, <2>2, <2>3
  <1>6. AnswerInv'
    <2>1. CASE fake_dlclose
      BY <1>1, <1>2, <2>1, AnswerKept DEF DlInv, fake_dlclose
    <2>2. ASSUME NEW n \in Symbol, fake_dlsym(n) PROVE AnswerInv'
      <3>1. Named(line.lib, {n})' = Named(line.lib, {n})
        BY <1>1 DEF Named
      <3>2. \A k : Address(k)' = Address(k)
        BY <1>1 DEF Address
      <3> QED
        BY <2>2, <3>1, <3>2 DEF fake_dlsym, AnswerInv
    <2> QED
      BY <2>1, <2>2
  <1> QED
    BY <1>3, <1>4, <1>5, <1>6 DEF DlInv

LEMMA EnumerateStep ==
    ASSUME DlInv, fake_enumerate_module \/ enumerate_line \/ enumerate_end
    PROVE  DlInv'
  <1>1. UNCHANGED <<shape, at, line, section, handle, stray, wanted, answer>> /\ moved' \in {moved, {}}
    BY DEF fake_enumerate_module, enumerate_line, enumerate_end, loader
  <1>2. dpc \in {"idle", "enumerate"}
    BY DEF fake_enumerate_module, enumerate_line, enumerate_end
  <1>3. line.addr = 0 /\ ~stray /\ pos \in Nat
    BY <1>2 DEF DlInv, CallInv, NotYet
  <1>4. \/ dpc' = "enumerate" /\ held' = {"maps"}
        \/ dpc' \in {"null", "stopped", "enumerated"} /\ held' = {}
    <2>1. dpc = "enumerate" => held = {"maps"}
      BY <1>3 DEF DlInv, HeldInv, PathInv, Opened
    <2> QED
      BY <2>1 DEF fake_enumerate_module, enumerate_line, enumerate_end
  <1>5. LoaderInv' /\ SectionInv' /\ AnswerInv'
    BY <1>1, <1>4, LoaderKept, SectionKept, AnswerKept DEF DlInv
  <1>6. HeldInv' /\ PathInv'
    <2>1. "full_path" \notin held /\ "full_path" \notin held'
      BY <1>3, <1>4 DEF DlInv, PathInv
    <2>2. Opened(held') = held'
      BY <2>1 DEF Opened
    <2> QED
      BY <1>1, <1>4, <2>1, <2>2, PathKept DEF DlInv, HeldInv
  <1>7. \A l : Executable(l)' = Executable(l)
    BY <1>1 DEF Executable
  <1>8. ASSUME pos' \in Nat, ScanInv' PROVE DlInv'
    <2>1. CallInv'
      BY <1>1, <1>3, <1>4, <1>8 DEF DlInv, CallInv, Located, NotYet
    <2> QED
      BY <1>5, <1>6, <1>8, <2>1 DEF DlInv
  <1>9. CASE fake_enumerate_module
    <2>1. pos' = 0 /\ dpc' \in {"enumerate", "null"}
      BY <1>9 DEF fake_enumerate_module, DlInv, ScanInv
    <2>2. \A l \in Staying' : l \in Lib /\ at[l] # 0
      BY <1>1 DEF Staying
    <2>3. \A l \in Staying' : \A v \in Executable(l)' : at'[l] + v \in Nat /\ at'[l] + v > 0
      BY <1>1, <1>7, <2>2, NothingBelow DEF DlInv
    <2>4. ScanInv'
      BY <1>1, <1>3, <2>1, <2>3 DEF ScanInv
    <2> QED
      BY <1>8, <2>1, <2>4
  <1>10. CASE enumerate_line
    <2>1. PICK l \in Lib : \E v \in Executable(l) :
              /\ at[l] # 0 /\ v \in Nat /\ at[l] \in Nat
              /\ NextLine = [lib |-> l, addr |-> at[l] + v]
              /\ at[l] + v > pos /\ at[l] + v >= Spacing
              /\ \A k \in Lib : \A u \in Executable(k) :
                    at[k] # 0 /\ at[k] + u > pos =>
                        at[l] + v <= at[k] + u /\ (at[l] + v = at[k] + u => k = l)
      BY <1>3, <1>10, NextLineIs DEF enumerate_line, DlInv
    <2>2. PICK v \in Executable(l) :
              /\ at[l] # 0 /\ v \in Nat /\ at[l] \in Nat
              /\ NextLine = [lib |-> l, addr |-> at[l] + v]
              /\ at[l] + v > pos /\ at[l] + v >= Spacing
              /\ \A k \in Lib : \A u \in Executable(k) :
                    at[k] # 0 /\ at[k] + u > pos =>
                        at[l] + v <= at[k] + u /\ (at[l] + v = at[k] + u => k = l)
      BY <2>1
    <2>3. /\ pos' = at[l] + v /\ reported' = reported \cup {l} /\ moved' = moved
          /\ dpc = "enumerate" /\ dpc' \in {"enumerate", "stopped"}
      BY <1>10, <2>2 DEF enumerate_line
    <2>4. Staying' = Staying
      BY <1>1, <2>3 DEF Staying
    <2>5. ASSUME NEW k \in Staying, NEW u \in Executable(k), at[k] + u <= at[l] + v, k # l
          PROVE  k \in reported
      <3>1. k \in Lib /\ at[k] # 0 /\ at[k] + u \in Nat
        BY NothingBelow DEF Staying, DlInv
      <3>2. ~(at[k] + u > pos)
        BY <2>2, <2>5, <3>1
      <3> QED
        BY <1>3, <2>3, <3>1, <3>2 DEF DlInv, ScanInv
    <2>6. ScanInv'
      BY <1>1, <1>3, <1>7, <2>3, <2>4, <2>5 DEF ScanInv
    <2> QED
      BY <1>8, <2>2, <2>3, <2>6
  <1>11. CASE enumerate_end
    <2>1. Below = {} /\ dpc = "enumerate" /\ dpc' = "enumerated" /\ moved' = moved
          /\ pos' = pos /\ reported' = reported
      BY <1>11 DEF enumerate_end
    <2>2. Staying' = Staying
      BY <1>1, <2>1 DEF Staying
    <2>3. ASSUME NEW k \in Staying, NEW u \in Executable(k)
          PROVE  k \in reported
      <3>1. k \in Lib /\ at[k] # 0 /\ at[k] + u \in Nat
        BY NothingBelow DEF Staying, DlInv
      <3>2. [lib |-> k, addr |-> at[k] + u] \in Lines
        BY <3>1, InLines
      <3>3. ~(at[k] + u > pos)
        BY <2>1, <3>2 DEF Below
      <3> QED
        BY <1>3, <2>1, <3>1, <3>3 DEF DlInv, ScanInv
    <2>4. ScanInv'
      BY <1>1, <1>3, <1>7, <2>1, <2>2, <2>3 DEF ScanInv
    <2> QED
      BY <1>3, <1>8, <2>1, <2>4
  <1> QED
    BY <1>9, <1>10, <1>11

LEMMA NextDlInv ==
    DlInv /\ [DlNext]_dvars => DlInv'
  <1> SUFFICES ASSUME DlInv, [DlNext]_dvars PROVE DlInv'
    OBVIOUS
  <1>1. CASE UNCHANGED dvars
    <2>1. UNCHANGED <<shape, at, moved, dpc, pos, line, section, handle, held, stray, wanted,
                      answer, reported>>
      BY <1>1 DEF dvars, loader
    <2>2. LoaderInv' /\ ScanInv' /\ SectionInv' /\ AnswerInv'
      BY <2>1, LoaderKept, ScanSame, SectionKept, AnswerKept DEF DlInv
    <2>3. CallInv'
      BY <2>1 DEF DlInv, CallInv
    <2>4. HeldInv' /\ PathInv'
      BY <2>1, PathKept DEF DlInv, HeldInv, ReadTables
    <2> QED
      BY <2>2, <2>3, <2>4 DEF DlInv
  <1>2. CASE \E l \in Lib : load(l) \/ unload(l)
    BY <1>2, MoveStep
  <1>3. CASE fake_dlopen
    BY <1>3, OpenStep
  <1>4. CASE scan_line
    BY <1>4, ScanStep
  <1>5. CASE scan_end \/ open_file \/ map_file \/ section_fails
    BY <1>5, FileStep
  <1>6. CASE read_section
    BY <1>6, SectionStep
  <1>7. CASE sections_end
    BY <1>7, SectionsEndStep
  <1>8. CASE (\E n \in Symbol : fake_dlsym(n)) \/ fake_dlclose
    BY <1>8, AnswerStep
  <1>9. CASE fake_enumerate_module \/ enumerate_line \/ enumerate_end
    BY <1>9, EnumerateStep
  <1> QED
    BY <1>1, <1>2, <1>3, <1>4, <1>5, <1>6, <1>7, <1>8, <1>9 DEF DlNext

LEMMA DlInvAlways ==
    DlSpec => []DlInv
  <1>1. DlInit => DlInv
    BY InitDlInv
  <1>2. DlInv /\ [DlNext]_dvars => DlInv'
    BY NextDlInv
  <1> QED
    BY <1>1, <1>2, PTL DEF DlSpec

-----------------------------------------------------------------------------
(* What follows.                                                           *)

\* Whichever step of fake_dlopen or of the enumeration fails, and whatever the file
\* looks like, the call hands back what it opened, mapped and allocated but the buffer
\* of full_path, which it loses exactly when a line was found whose path needs one; the
\* second munmap of the error exit happens only for a file that lacks one of the tables.
THEOREM LookupHandsBack ==
    DlSpec => []HandsBack
  <1>1. ASSUME DlInv, dpc \in {"null", "closed", "stopped", "enumerated"}
        PROVE  held = IF line.addr # 0 THEN Buffer(line.lib) ELSE {}
    <2>1. Opened(held) = {} /\ ("full_path" \in held <=> line.addr # 0 /\ ~shape[line.lib].brief)
      BY <1>1 DEF DlInv, HeldInv, PathInv
    <2> QED
      BY <2>1 DEF Opened, Buffer
  <1>2. DlInv => HandsBack
    BY <1>1 DEF DlInv, SectionInv, HandsBack
  <1> QED
    BY <1>2, DlInvAlways, PTL

LEMMA ExecutableMin ==
    ASSUME shape \in Layouts, NEW l \in Lib, Executable(l) # {}
    PROVE  /\ Min(Executable(l)) \in Executable(l) /\ Min(Executable(l)) \in Nat
           /\ \A v \in Executable(l) : Min(Executable(l)) <= v
  <1>1. Executable(l) \subseteq Nat
    BY ExecutableType, LibAssumption
  <1> QED
    BY <1>1, MinIsLeast

\* However libraries come and go while the maps are read line by line: fake_dlopen takes
\* the lowest matching library of those that stayed, and fake_enumerate_module reports
\* every library that stayed.
THEOREM ScanMissesNothing ==
    DlSpec => []ScanRight
  <1>1. ASSUME DlInv PROVE FindsFirst
    <2>1. SUFFICES ASSUME line.addr # 0 PROVE
              /\ shape[line.lib].match /\ ~shape[line.lib].long
              /\ \A l \in Lib \ moved :
                  at[l] # 0 /\ shape[l].match /\ ~shape[l].long /\ Executable(l) # {} =>
                      line.addr <= at[l] + Min(Executable(l))
      BY DEF FindsFirst
    <2>2. shape[line.lib].match /\ ~shape[line.lib].long
      BY <1>1, <2>1 DEF DlInv, ScanInv, HasText
    <2>3. ASSUME NEW l \in Lib \ moved, at[l] # 0, shape[l].match, ~shape[l].long, Executable(l) # {}
          PROVE  line.addr <= at[l] + Min(Executable(l))
      <3>1. Min(Executable(l)) \in Executable(l)
        BY <1>1, <2>3, ExecutableMin DEF DlInv, LoaderInv
      <3> QED
        BY <1>1, <2>1, <2>3, <3>1 DEF DlInv, ScanInv, Staying, HasText
    <2> QED
      BY <2>2, <2>3
  <1>2. DlInv => EnumeratesAll
    BY DEF DlInv, ScanInv, Staying, EnumeratesAll
  <1>3. DlInv => ScanRight
    BY <1>1, <1>2 DEF ScanRight
  <1> QED
    BY <1>3, DlInvAlways, PTL

\* fake_dlsym gives 0 exactly for a name that is not in the table, and for a name that is
\* there the address of the symbol exactly when the first executable mapping lies as far
\* from the base as the first code section is moved: for every layout of every file.
THEOREM AnswersRight ==
    DlSpec => []AnswerRight
  <1>1. ASSUME DlInv, dpc \in {"found", "closed"}, line.lib \notin moved
        PROVE  LET s == shape[line.lib]
                   K == Named(line.lib, wanted)
               IN  /\ K = {} <=> answer = 0
                   /\ K # {} /\ s.syms[Min(K)].def =>
                         (answer = at[line.lib] + s.syms[Min(K)].value
                              <=> Min(Executable(line.lib)) = FirstCode(s))
    <2>1. PICK l : l = line.lib
      OBVIOUS
    <2>2. PICK K : K = Named(l, wanted)
      OBVIOUS
    <2>3. line.addr # 0 /\ l \in Lib /\ shape \in Layouts /\ line.addr \in Nat /\ handle.bias \in Nat
      BY <1>1, <2>1 DEF DlInv, CallInv, LoaderInv, Located
    <2>4. line.addr >= Spacing /\ Spacing \in Nat \ {0}
      BY <1>1, <2>3, LibAssumption DEF DlInv, ScanInv
    <2>5. shape[l].syms \in Seq([name : Symbol, value : 0..(Spacing - 1), def : BOOLEAN])
          /\ shape[l].bias \in 0..(Spacing - 1)
      BY <2>3, LayoutType
    <2>6. handle.bias = FirstCode(shape[l]) /\ handle.bias < Spacing
      <3>1. handle.bias = FirstCode(shape[l])
        BY <1>1, <2>1 DEF DlInv, SectionInv
      <3>2. FirstCode(shape[l]) \in {0, shape[l].bias}
        BY FirstCodeIs DEF Bias
      <3> QED
        BY <2>4, <2>5, <3>1, <3>2
    <2>7. answer = IF K = {} THEN 0 ELSE Address(Min(K))
      BY <1>1, <2>1, <2>2 DEF DlInv, AnswerInv
    <2>8. ASSUME K # {} PROVE shape[l].syms[Min(K)].value \in 0..(Spacing - 1)
      <3>1. K \subseteq 1..Len(shape[l].syms) /\ Len(shape[l].syms) \in Nat
        BY <2>2, <2>5, InSeq DEF Named
      <3>2. Min(K) \in 1..Len(shape[l].syms)
        <4>1. K \subseteq Nat
          BY <3>1
        <4> QED
          BY <2>8, <3>1, <4>1, MinIsLeast
      <3>3. shape[l].syms[Min(K)] \in [name : Symbol, value : 0..(Spacing - 1), def : BOOLEAN]
        BY <2>5, <3>2, InSeq
      <3> QED
        BY <3>3
    <2>9. K = {} <=> answer = 0
      BY <2>1, <2>3, <2>4, <2>6, <2>7, <2>8 DEF Address
    <2>10. at[l] \in Nat /\ line.addr = at[l] + Min(Executable(l)) /\ Min(Executable(l)) \in Nat
      <3>1. l \in Staying /\ HasText(l) /\ \E v \in Executable(l) : line.addr = at[l] + v
        BY <1>1, <2>1, <2>3 DEF DlInv, ScanInv
      <3>2. PICK v \in Executable(l) : line.addr = at[l] + v
        BY <3>1
      <3>3. Min(Executable(l)) \in Executable(l) /\ Min(Executable(l)) \in Nat
            /\ Min(Executable(l)) <= v /\ v \in Nat
        BY <2>3, ExecutableMin, ExecutableType, LibAssumption
      <3>4. line.addr <= at[l] + Min(Executable(l))
        BY <1>1, <2>3, <3>1, <3>3 DEF DlInv, ScanInv
      <3>5. at[l] \in Bases
        BY <1>1, <2>3, <3>1 DEF DlInv, LoaderInv, Staying
      <3>6. at[l] \in Nat
        BY <3>5, BasesApart
      <3> QED
        BY <3>2, <3>3, <3>4, <3>6
    <2>11. K # {} => (answer = at[l] + shape[l].syms[Min(K)].value
                          <=> Min(Executable(l)) = FirstCode(shape[l]))
      <3>1. SUFFICES ASSUME K # {} PROVE answer = at[l] + shape[l].syms[Min(K)].value
                          <=> Min(Executable(l)) = FirstCode(shape[l])
        OBVIOUS
      <3>2. PICK y : y = shape[l].syms[Min(K)].value
        OBVIOUS
      <3>3. y \in Nat
        BY <2>4, <2>8, <3>1, <3>2
      <3>4. answer = line.addr + y - handle.bias
        BY <2>1, <2>7, <3>1, <3>2 DEF Address
      <3>5. PICK b, m, c : b = handle.bias /\ m = Min(Executable(l)) /\ c = at[l]
        OBVIOUS
      <3>6. b \in Nat /\ m \in Nat /\ c \in Nat /\ answer = (c + m) + y - b
        BY <2>3, <2>10, <3>4, <3>5
      <3>7. answer = c + y <=> m = b
        BY <3>3, <3>6
      <3> QED
        BY <2>6, <3>2, <3>5, <3>7
    <2> QED
      BY <2>1, <2>2, <2>9, <2>11
  <1>2. DlInv => AnswerRight
    BY <1>1 DEF AnswerRight
  <1> QED
    BY <1>2, DlInvAlways, PTL
-----------------------------------------------------------------------------
(* Inline hooks.                                                           *)

Busy == {"read", "bump", "open", "copy", "close", "store", "add"}

\* The words are those of one image; nothing of this ever changes.
ModuleInv ==
    /\ \E m \in Image : pristine = m.text /\ entry = m.entry
    /\ near \in Reach

Fields == {"at", "f", "what", "done", "addr", "words"}

\* What a thread carries through DobbyHook.
Carried(h, r) ==
    /\ DOMAIN r = Fields
    /\ r.at \in Busy /\ r.f \in Func /\ Owner[r.f] = h
    /\ r.what \in {"block", "entry"} /\ r.done \in Nat /\ r.addr \in Nat
    /\ Len(r.words) \in 1..MaxBlock
    /\ r.at \in {"read", "bump", "store"} => r.what = "block"
    /\ r.at = "add" => r.what = "entry"
    /\ r.at = "open" \/ (r.at = "copy" /\ r.what = "block") => r.done = 0
    /\ r.at = "copy" => r.done < Len(r.words)
    /\ r.what = "entry" => r.addr = entry[r.f] /\ Len(r.words) = Len(Trampoline(r.f))
HookInv ==
    /\ hk = [h \in Hooker |-> hk[h]]
    /\ \A h \in Hooker : hk[h] = Idle \/ Carried(h, hk[h])

\* The arenas are a page each, and their cursors in them.
ArenaInv ==
    /\ code_arenas \in Seq([addr : Nat, cursor : Nat])
    /\ \A i \in 1..Len(code_arenas) :
        LET a == code_arenas[i]
        IN  /\ \E p \in Free : a.addr = p * PageWords
            /\ a.addr <= a.cursor /\ a.cursor <= a.addr + PageWords
    /\ \A i, j \in 1..Len(code_arenas) : i # j => code_arenas[i].addr # code_arenas[j].addr

\* The block that a thread has, or is about to get.
BlockOf(r) == r.addr..(r.addr + Len(r.words) - 1)
GivenOut(i) == code_arenas[i].addr..(code_arenas[i].cursor - 1)
BlockInv ==
    /\ blocks = [f \in Func |-> blocks[f]]
    /\ \A f \in Func : blocks[f] = {} \/ \E i \in 1..Len(code_arenas) : blocks[f] \subseteq GivenOut(i)
    /\ \A f, g \in Func : f # g => blocks[f] \cap blocks[g] = {}
    /\ \A f \in Func : blocks[f] # {} =>
        f \in entries \/ \E h \in Hooker : /\ hk[h].at \in Busy \ {"read", "bump"}
                                          /\ hk[h].f = f
    /\ \A h \in Hooker : hk[h].at \in {"open", "copy", "close", "store"} /\ hk[h].what = "block" =>
        blocks[hk[h].f] = BlockOf(hk[h])
    /\ \A h \in Hooker : hk[h].at \in Busy => hk[h].f \notin entries
    /\ \A h \in Hooker : hk[h].at = "bump" =>
        /\ hk[h].done \in 1..Len(code_arenas)
        /\ hk[h].addr = code_arenas[hk[h].done].cursor
        /\ hk[h].addr + Len(hk[h].words) <= code_arenas[hk[h].done].addr + PageWords
    /\ ~raced => \A g, h \in Hooker : hk[g].at = "bump" /\ hk[h].at = "bump" => g = h

\* What has been written.
MemInv ==
    /\ DOMAIN pristine \subseteq DOMAIN mem
    /\ DOMAIN mem \subseteq DOMAIN pristine \cup UNION {blocks[f] : f \in Func}
    /\ entries \subseteq patched /\ patched \subseteq Func
    /\ origin = [f \in Func |-> origin[f]] /\ \A f \in Func : origin[f] \in Nat
    /\ fault \in BOOLEAN /\ met \in BOOLEAN /\ raced \in BOOLEAN
    /\ ~fault => \A h \in Hooker : hk[h].at \in {"close", "add"} /\ hk[h].what = "entry" =>
                    hk[h].f \in patched

\* The pages: one that is not as it was mapped is being patched, or is the one behind a
\* trampoline or a block that ends at the end of its page, or an mprotect of it failed.
Mapped == {Page(a) : a \in DOMAIN pristine} \cup Foreign
            \cup {Page(code_arenas[i].addr) : i \in 1..Len(code_arenas)}
Pages(r) == PatchPages(r.addr, Len(r.words))
Settled(p) == p \in denied \/ perm[p] = Before(p) \/ (perm[p] = "rx" /\ PageBehind(p))
AtWork(p) == \E h \in Hooker : Patching(h) /\ p \in Pages(hk[h])
Excuse == met \/ \E h \in Hooker : Patching(h) /\ Pages(hk[h]) \cap denied # {}
Perms == {"none", "rx", "rw", "rwx"}
PermInv ==
    /\ DOMAIN perm = Mapped /\ denied \subseteq Mapped
    /\ \A p \in Mapped : perm[p] \in Perms
    /\ \A p \in Mapped : Settled(p) \/ AtWork(p)
    /\ ~met => \A h \in Hooker : hk[h].at = "copy" =>
                  \A a \in BlockOf(hk[h]) : perm[Page(a)] = "rwx" \/ Page(a) \in denied
    /\ fault => Excuse

DobbyInv == ModuleInv /\ HookInv /\ ArenaInv /\ BlockInv /\ MemInv /\ PermInv
-----------------------------------------------------------------------------
(* Pages and arenas.                                                       *)

LEMMA PageBounds ==
    ASSUME NEW a \in Nat
    PROVE  /\ Page(a) \in Nat
           /\ Page(a) * PageWords <= a /\ a < Page(a) * PageWords + PageWords
  <1>1. PageWords \in Nat \ {0}
    BY MapAssumption DEF MaxBlock
  <1> QED
    BY <1>1 DEF Page

LEMMA PageIs ==
    ASSUME NEW a \in Nat, NEW k \in Nat, k * PageWords <= a, a < k * PageWords + PageWords
    PROVE  Page(a) = k
  <1>1. PICK q \in Nat : q = Page(a) /\ q * PageWords <= a /\ a < q * PageWords + PageWords
    BY PageBounds
  <1>2. PageWords \in Nat
    BY MapAssumption
  <1>3. ~(q < k)
    <2>1. SUFFICES ASSUME q < k PROVE FALSE
      OBVIOUS
    <2>2. (k - q - 1) * PageWords >= 0 /\ (k - q - 1) * PageWords = k * PageWords - q * PageWords - PageWords
      BY <1>1, <1>2, <2>1
    <2> QED
      BY <1>1, <1>2, <2>2
  <1>4. ~(k < q)
    <2>1. SUFFICES ASSUME k < q PROVE FALSE
      OBVIOUS
    <2>2. (q - k - 1) * PageWords >= 0 /\ (q - k - 1) * PageWords = q * PageWords - k * PageWords - PageWords
      BY <1>1, <1>2, <2>1
    <2> QED
      BY <1>1, <1>2, <2>2
  <1> QED
    BY <1>1, <1>3, <1>4

LEMMA PageMonotone ==
    ASSUME NEW a \in Nat, NEW b \in Nat, a <= b
    PROVE  Page(a) <= Page(b)
  <1>1. PICK p \in Nat, q \in Nat : p = Page(a) /\ q = Page(b)
    BY PageBounds
  <1>2. p * PageWords <= a /\ b < q * PageWords + PageWords /\ PageWords \in Nat
    BY <1>1, PageBounds, MapAssumption
  <1>3. SUFFICES ASSUME q < p PROVE FALSE
    BY <1>1
  <1>4. (p - q - 1) * PageWords >= 0 /\ (p - q - 1) * PageWords = p * PageWords - q * PageWords - PageWords
    BY <1>1, <1>2, <1>3
  <1> QED
    BY <1>1, <1>2, <1>4

\* The words of an arena are on its page, which is none of a module's.
LEMMA ArenaPage ==
    ASSUME NEW k \in Free, NEW b, b = k * PageWords,
           NEW a \in Nat, b <= a, a < b + PageWords
    PROVE  Page(a) = k /\ Page(b) = k /\ b \in Nat
  <1>1. PageWords \in Nat \ {0} /\ k \in Nat
    BY MapAssumption DEF MaxBlock
  <1>2. b \in Nat
    BY <1>1
  <1>3. k * PageWords <= b /\ b < k * PageWords + PageWords
    BY <1>1, <1>2
  <1>4. Page(a) = k
    BY <1>1, PageIs
  <1>5. Page(b) = k
    BY <1>1, <1>2, <1>3, PageIs
  <1> QED
    BY <1>2, <1>4, <1>5

LEMMA TextApart ==
    ASSUME ModuleInv, NEW c \in DOMAIN pristine
    PROVE  c \in Nat /\ Page(c) \notin Free /\ Page(c) \notin Foreign
  BY MapAssumption DEF ModuleInv

\* Different pages do not overlap.
LEMMA ArenasApart ==
    ASSUME NEW j \in Nat, NEW k \in Nat, j < k
    PROVE  j * PageWords + PageWords <= k * PageWords
  <1>1. PageWords \in Nat
    BY MapAssumption
  <1>2. (k - j - 1) * PageWords >= 0
        /\ (k - j - 1) * PageWords = k * PageWords - j * PageWords - PageWords
    BY <1>1
  <1>3. k * PageWords \in Nat /\ j * PageWords \in Nat
    BY <1>1
  <1> QED
    BY <1>1, <1>2, <1>3
-----------------------------------------------------------------------------
(* How long the generated code is.                                         *)

IsSeq(s) == \E T : s \in Seq(T)

LEMMA FunctionIsSeq ==
    ASSUME NEW n \in Nat, NEW f, DOMAIN f = 1..n, f = [i \in 1..n |-> f[i]]
    PROVE  IsSeq(f) /\ Len(f) = n
  <1> DEFINE T == {f[i] : i \in 1..n}
  <1>1. f \in [1..n -> T]
    OBVIOUS
  <1>2. f \in Seq(T)
    BY <1>1
  <1>3. IsSeq(f)
    BY <1>2 DEF IsSeq
  <1>4. Len(f) = n
    <2>1. Len(f) \in Nat /\ DOMAIN f = 1..Len(f)
      BY <1>2
    <2>2. PICK m \in Nat : m = Len(f)
      BY <2>1
    <2>3. \A i \in Nat : i \in 1..m <=> i \in 1..n
      BY <2>1, <2>2
    <2>4. m = n
      <3>1. (m \in 1..m <=> m \in 1..n) /\ (n \in 1..m <=> n \in 1..n)
        BY <2>3
      <3> QED
        BY ONLY <3>1, m \in Nat, n \in Nat
    <2> QED
      BY <2>2, <2>4
  <1> QED
    BY <1>3, <1>4

LEMMA ConcatIsSeq ==
    ASSUME NEW s, NEW t, IsSeq(s), IsSeq(t)
    PROVE  IsSeq(s \o t) /\ Len(s \o t) = Len(s) + Len(t) /\ Len(s) \in Nat /\ Len(t) \in Nat
  <1>1. PICK S : s \in Seq(S)
    BY DEF IsSeq
  <1>2. PICK T : t \in Seq(T)
    BY DEF IsSeq
  <1>3. s \in Seq(S \cup T) /\ t \in Seq(S \cup T)
    BY <1>1, <1>2
  <1>4. s \o t \in Seq(S \cup T) /\ Len(s \o t) = Len(s) + Len(t)
    BY <1>3
  <1> QED
    BY <1>1, <1>2, <1>4 DEF IsSeq

LEMMA ShortSeqs ==
    /\ IsSeq(<<>>) /\ Len(<<>>) = 0
    /\ \A x : IsSeq(<<x>>) /\ Len(<<x>>) = 1
    /\ \A x, y : IsSeq(<<x, y>>) /\ Len(<<x, y>>) = 2
    /\ \A x, y, z : IsSeq(<<x, y, z>>) /\ Len(<<x, y, z>>) = 3
  <1>1. <<>> \in Seq({})
    OBVIOUS
  <1>2. \A x : <<x>> \in Seq({x})
    OBVIOUS
  <1>3. \A x, y : <<x, y>> \in Seq({x, y})
    OBVIOUS
  <1>4. \A x, y, z : <<x, y, z>> \in Seq({x, y, z})
    OBVIOUS
  <1> QED
    BY <1>1, <1>2, <1>3, <1>4 DEF IsSeq

LEMMA MovLength ==
    ASSUME NEW rd, NEW v
    PROVE  IsSeq(Mov(rd, v)) /\ Len(Mov(rd, v)) = 4
  <1>1. PICK x : x = [op |-> "mov", rd |-> rd, v |-> v]
    OBVIOUS
  <1>2. PICK s : s = [i \in 1..3 |-> [op |-> "movk"]]
    OBVIOUS
  <1>3. IsSeq(s) /\ Len(s) = 3
    BY <1>2, FunctionIsSeq
  <1>4. Mov(rd, v) = <<x>> \o s
    BY <1>1, <1>2 DEF Mov
  <1>5. IsSeq(<<x>>) /\ Len(<<x>>) = 1
    BY ShortSeqs
  <1>6. IsSeq(<<x>> \o s) /\ Len(<<x>> \o s) = Len(<<x>>) + Len(s)
    BY <1>3, <1>5, ConcatIsSeq
  <1> QED
    BY <1>3, <1>4, <1>5, <1>6

LEMMA WordLength ==
    ASSUME NEW w, NEW a, NEW n
    PROVE  /\ IsSeq(RelocateWord(w, a, n)) /\ IsSeq(Labels(w, a))
           /\ Len(RelocateWord(w, a, n)) \in Nat /\ Len(Labels(w, a)) \in Nat
           /\ Len(RelocateWord(w, a, n)) + 4 * Len(Labels(w, a)) <= 7
  <1>1. CASE w.op \in {"b", "bl"}
    <2>1. PICK x, y : RelocateWord(w, a, n) = <<x, y>>
      BY <1>1 DEF RelocateWord
    <2>2. PICK z : Labels(w, a) = <<z>>
      BY <1>1 DEF Labels
    <2>3. IsSeq(<<x, y>>) /\ Len(<<x, y>>) = 2 /\ IsSeq(<<z>>) /\ Len(<<z>>) = 1
      BY ShortSeqs
    <2> QED
      BY <2>1, <2>2, <2>3
  <1>2. CASE w.op = "cond"
    <2>1. PICK x, y, u : RelocateWord(w, a, n) = <<x, y, u>>
      BY <1>2 DEF RelocateWord
    <2>2. PICK z : Labels(w, a) = <<z>>
      BY <1>2 DEF Labels
    <2>3. IsSeq(<<x, y, u>>) /\ Len(<<x, y, u>>) = 3 /\ IsSeq(<<z>>) /\ Len(<<z>>) = 1
      BY ShortSeqs
    <2> QED
      BY <2>1, <2>2, <2>3
  <1>3. CASE w.op \notin {"b", "bl", "cond"}
    <2>1. Labels(w, a) = <<>>
      BY <1>3 DEF Labels
    <2>2. IsSeq(<<>>) /\ Len(<<>>) = 0
      BY ShortSeqs
    <2>3. CASE w.op = "ldr"
      <3>1. PICK x, v : RelocateWord(w, a, n) = Mov("x17", v) \o <<x>>
        BY <2>3 DEF RelocateWord
      <3>2. IsSeq(<<x>>) /\ Len(<<x>>) = 1 /\ IsSeq(Mov("x17", v)) /\ Len(Mov("x17", v)) = 4
        BY ShortSeqs, MovLength
      <3> QED
        BY <2>1, <2>2, <3>1, <3>2, ConcatIsSeq
    <2>4. CASE w.op \in {"adr", "adrp"}
      <3>1. PICK v : RelocateWord(w, a, n) = Mov(w.rd, v)
        BY <2>4 DEF RelocateWord
      <3>2. IsSeq(Mov(w.rd, v)) /\ Len(Mov(w.rd, v)) = 4
        BY MovLength
      <3> QED
        BY <2>1, <2>2, <3>1, <3>2
    <2>5. CASE w.op \notin {"ldr", "adr", "adrp"}
      <3>1. RelocateWord(w, a, n) = <<w>>
        BY <1>3, <2>5 DEF RelocateWord
      <3> QED
        BY <2>1, <2>2, <3>1, ShortSeqs
    <2> QED
      BY <2>3, <2>4, <2>5
  <1> QED
    BY <1>1, <1>2, <1>3

LEMMA BindLength ==
    ASSUME NEW code, NEW labels, NEW rounds \in {1, 2}, Len(code) \in Nat, Len(labels) \in Nat
    PROVE  /\ IsSeq(RelocBind(code, labels, rounds))
           /\ Len(RelocBind(code, labels, rounds)) = Len(code) + 2 * Len(labels) * rounds
  <1>1. PICK f : f = RelocBind(code, labels, rounds)
    OBVIOUS
  <1>2. PICK n \in Nat : n = Len(code) + (2 * Len(labels)) * rounds
    OBVIOUS
  <1>3. DOMAIN f = 1..n /\ f = [i \in 1..n |-> f[i]]
    BY <1>1, <1>2 DEF RelocBind
  <1>4. IsSeq(f) /\ Len(f) = n
    BY <1>3, FunctionIsSeq
  <1> QED
    BY <1>1, <1>2, <1>4

\* A function that collects the words of at most four entries exists: its values can
\* be written down one by one.
LEMMA CollectExists ==
    ASSUME NEW W, NEW n \in {3, 4}
    PROVE  \E L : L = [i \in 0..n |-> IF i = 0 THEN <<>> ELSE L[i - 1] \o W[i]]
  <1>1. PICK l0, l1, l2, l3, l4 :
            l0 = <<>> /\ l1 = l0 \o W[1] /\ l2 = l1 \o W[2] /\ l3 = l2 \o W[3] /\ l4 = l3 \o W[4]
    OBVIOUS
  <1>2. PICK F : F = [i \in 0..n |-> IF i = 0 THEN l0 ELSE IF i = 1 THEN l1 ELSE IF i = 2 THEN l2
                                     ELSE IF i = 3 THEN l3 ELSE l4]
    OBVIOUS
  <1>3. /\ 0 \in 0..n /\ 1 \in 0..n /\ 2 \in 0..n /\ 3 \in 0..n /\ (n = 4 => 4 \in 0..n)
        /\ \A i \in 0..n : i \in {0, 1, 2, 3} \/ (i = 4 /\ n = 4)
    OBVIOUS
  <1>4. F[0] = l0 /\ F[1] = l1 /\ F[2] = l2 /\ F[3] = l3 /\ (n = 4 => F[4] = l4)
    BY <1>2, <1>3
  <1>5. ASSUME NEW i \in 0..n PROVE F[i] = IF i = 0 THEN <<>> ELSE F[i - 1] \o W[i]
    <2>1. F[0] = <<>> /\ F[1] = F[0] \o W[1] /\ F[2] = F[1] \o W[2] /\ F[3] = F[2] \o W[3]
      BY <1>1, <1>4, Zenon
    <2>2. n = 4 => F[4] = F[3] \o W[4]
      BY <1>1, <1>4, Zenon
    <2>3. \/ i = 0 \/ (i = 1 /\ i - 1 = 0) \/ (i = 2 /\ i - 1 = 1) \/ (i = 3 /\ i - 1 = 2)
          \/ (i = 4 /\ i - 1 = 3 /\ n = 4)
      BY <1>3
    <2>4. i # 0 => F[i] = F[i - 1] \o W[i]
      BY <2>1, <2>2, <2>3, Zenon
    <2> QED
      BY <2>1, <2>4, Zenon
  <1>6. F = [i \in 0..n |-> IF i = 0 THEN <<>> ELSE F[i - 1] \o W[i]]
    BY <1>2, <1>5
  <1> QED
    BY <1>6

LEMMA LabelsOfIs ==
    ASSUME NEW m, NEW a \in Nat, NEW n \in {3, 4}
    PROVE  \A i \in 0..n : LabelsOf(m, a, n)[i] =
              IF i = 0 THEN <<>> ELSE LabelsOf(m, a, n)[i - 1] \o Labels(m[a + i - 1], a + i - 1)
  <1> DEFINE Eq(L) == L = [i \in 0..n |-> IF i = 0 THEN <<>>
                                          ELSE L[i - 1] \o Labels(m[a + i - 1], a + i - 1)]
  <1>1. LabelsOf(m, a, n) = CHOOSE L : Eq(L)
    BY DEF LabelsOf
  <1>2. \E L : Eq(L)
    <2>1. PICK W : W = [i \in 1..n |-> Labels(m[a + i - 1], a + i - 1)]
      OBVIOUS
    <2>2. PICK L : L = [i \in 0..n |-> IF i = 0 THEN <<>> ELSE L[i - 1] \o W[i]]
      BY CollectExists
    <2>3. \A i \in 0..n : i # 0 => W[i] = Labels(m[a + i - 1], a + i - 1)
      BY <2>1
    <2>4. Eq(L)
      BY <2>2, <2>3
    <2> QED
      BY <2>4
  <1> HIDE DEF Eq
  <1>3. Eq(LabelsOf(m, a, n))
    BY <1>1, <1>2, Zenon
  <1> QED
    BY <1>3 DEF Eq

LEMMA CodeOfIs ==
    ASSUME NEW m, NEW a \in Nat, NEW n \in {3, 4}
    PROVE  \A i \in 0..n : CodeOf(m, a, n)[i] =
              IF i = 0 THEN <<>>
              ELSE CodeOf(m, a, n)[i - 1]
                     \o RelocateWord(m[a + i - 1], a + i - 1, Len(LabelsOf(m, a, n)[i - 1]))
  <1> DEFINE Eq(L) == L = [i \in 0..n |-> IF i = 0 THEN <<>>
                                          ELSE L[i - 1] \o RelocateWord(m[a + i - 1], a + i - 1,
                                                                Len(LabelsOf(m, a, n)[i - 1]))]
  <1>1. CodeOf(m, a, n) = CHOOSE L : Eq(L)
    BY DEF CodeOf
  <1>2. \E L : Eq(L)
    <2>1. PICK W : W = [i \in 1..n |-> RelocateWord(m[a + i - 1], a + i - 1, Len(LabelsOf(m, a, n)[i - 1]))]
      OBVIOUS
    <2>2. PICK L : L = [i \in 0..n |-> IF i = 0 THEN <<>> ELSE L[i - 1] \o W[i]]
      BY CollectExists
    <2>3. \A i \in 0..n : i # 0 =>
              W[i] = RelocateWord(m[a + i - 1], a + i - 1, Len(LabelsOf(m, a, n)[i - 1]))
      BY <2>1
    <2>4. Eq(L)
      BY <2>2, <2>3
    <2> QED
      BY <2>4
  <1> HIDE DEF Eq
  <1>3. Eq(CodeOf(m, a, n))
    BY <1>1, <1>2, Zenon
  <1> QED
    BY <1>3 DEF Eq

LEMMA WordsBound ==
    ASSUME NEW x \in Nat, NEW y \in Nat, y + 4 * x <= 28
    PROVE  y + 2 + 2 * (x + 1) * 2 \in 1..MaxBlock
  BY DEF MaxBlock

\* A block has at most MaxBlock words.
LEMMA BlockLength ==
    ASSUME NEW m, NEW a \in Nat, NEW n \in {3, 4}
    PROVE  Len(relo_relocate(m, a, n)) \in 1..MaxBlock
  <1> DEFINE L(i) == LabelsOf(m, a, n)[i]
             C(i) == CodeOf(m, a, n)[i]
             Short(i) == /\ IsSeq(L(i)) /\ IsSeq(C(i)) /\ Len(L(i)) \in Nat /\ Len(C(i)) \in Nat
                         /\ Len(C(i)) + 4 * Len(L(i)) <= 7 * i
  <1>1. Short(0)
    <2>1. 0 \in 0..n
      OBVIOUS
    <2>2. L(0) = IF 0 = 0 THEN <<>> ELSE LabelsOf(m, a, n)[0 - 1] \o Labels(m[a + 0 - 1], a + 0 - 1)
      BY <2>1, LabelsOfIs, Zenon
    <2>3. C(0) = IF 0 = 0 THEN <<>>
                 ELSE CodeOf(m, a, n)[0 - 1]
                        \o RelocateWord(m[a + 0 - 1], a + 0 - 1, Len(LabelsOf(m, a, n)[0 - 1]))
      BY <2>1, CodeOfIs, Zenon
    <2>4. L(0) = <<>> /\ C(0) = <<>>
      BY <2>2, <2>3, Zenon
    <2> QED
      BY <2>4, ShortSeqs
  <1>2. ASSUME NEW i \in 1..n, Short(i - 1) PROVE Short(i)
    <2>1. PICK u, v : /\ u = Labels(m[a + i - 1], a + i - 1)
                      /\ v = RelocateWord(m[a + i - 1], a + i - 1, Len(L(i - 1)))
      OBVIOUS
    <2>2. IsSeq(u) /\ IsSeq(v) /\ Len(u) \in Nat /\ Len(v) \in Nat /\ Len(v) + 4 * Len(u) <= 7
      BY <2>1, WordLength
    <2>3. i \in 0..n /\ i # 0
      OBVIOUS
    <2>4. L(i) = L(i - 1) \o u
      BY <2>1, <2>3, LabelsOfIs, Zenon
    <2>5. C(i) = C(i - 1) \o v
      BY <2>1, <2>3, CodeOfIs, Zenon
    <2>6. PICK s, t : s = L(i - 1) /\ t = C(i - 1)
      OBVIOUS
    <2>7. /\ IsSeq(s) /\ IsSeq(t) /\ Len(s) \in Nat /\ Len(t) \in Nat
          /\ Len(t) + 4 * Len(s) <= 7 * (i - 1)
      BY <1>2, <2>6
    <2>8. /\ IsSeq(s \o u) /\ Len(s \o u) = Len(s) + Len(u)
          /\ IsSeq(t \o v) /\ Len(t \o v) = Len(t) + Len(v)
      BY <2>2, <2>7, ConcatIsSeq
    <2>9. PICK x, y : x = L(i) /\ y = C(i)
      OBVIOUS
    <2>10. x = s \o u /\ y = t \o v
      BY <2>4, <2>5, <2>6, <2>9, Zenon
    <2>11. /\ IsSeq(x) /\ IsSeq(y) /\ Len(x) \in Nat /\ Len(y) \in Nat
           /\ Len(y) + 4 * Len(x) <= 7 * i
      BY <2>2, <2>7, <2>8, <2>10
    <2> QED
      BY <2>9, <2>11
  <1> HIDE DEF Short
  <1>3. Short(n)
    <2>1. Short(1) /\ Short(2) /\ Short(3)
      BY <1>1, <1>2
    <2> QED
      BY <1>2, <2>1
  <1>4. PICK s, t : s = L(n) /\ t = C(n)
    OBVIOUS
  <1>5. IsSeq(s) /\ IsSeq(t) /\ Len(s) \in Nat /\ Len(t) \in Nat /\ Len(t) + 4 * Len(s) <= 28
    <2>1. /\ IsSeq(s) /\ IsSeq(t) /\ Len(s) \in Nat /\ Len(t) \in Nat
          /\ Len(t) + 4 * Len(s) <= 7 * n
      BY <1>3, <1>4, Zenon DEF Short
    <2>2. 7 * n <= 28 /\ 7 * n \in Nat
      OBVIOUS
    <2>3. PICK x \in Nat, y \in Nat : x = Len(s) /\ y = Len(t)
      BY <2>1
    <2>4. y + 4 * x <= 28
      BY <2>1, <2>2, <2>3
    <2> QED
      BY <2>1, <2>3, <2>4
  <1>6. PICK all, end : all = Append(s, a + n) /\ end = <<LdrLabel(Len(all)), Br17>>
    OBVIOUS
  <1>7. Len(all) = Len(s) + 1
    <2>1. PICK S : s \in Seq(S)
      BY <1>5 DEF IsSeq
    <2>2. s \in Seq(S \cup {a + n})
      BY <2>1
    <2> QED
      BY <1>6, <2>2
  <1>8. Len(t \o end) = Len(t) + 2
    BY <1>5, <1>6, ShortSeqs, ConcatIsSeq
  <1>9. Len(RelocBind(t \o end, all, 2)) = Len(t) + 2 + 2 * (Len(s) + 1) * 2
    <2>1. PICK c : c = t \o end
      OBVIOUS
    <2>2. Len(c) = Len(t) + 2 /\ Len(c) \in Nat /\ Len(all) \in Nat
      BY <1>5, <1>7, <1>8, <2>1
    <2>3. Len(RelocBind(c, all, 2)) = Len(c) + 2 * Len(all) * 2
      BY <2>2, BindLength
    <2> QED
      BY <1>7, <2>1, <2>2, <2>3
  <1>10. relo_relocate(m, a, n) = RelocBind(t \o end, all, 2)
    BY <1>4, <1>6 DEF relo_relocate
  <1>11. PICK x \in Nat, y \in Nat : x = Len(s) /\ y = Len(t) /\ y + 4 * x <= 28
    BY <1>5
  <1>12. y + 2 + 2 * (x + 1) * 2 \in 1..MaxBlock
    BY <1>11, WordsBound
  <1> QED
    BY <1>9, <1>10, <1>11, <1>12

LEMMA TrampolineLength ==
    ASSUME NEW from, NEW to, NEW isNear \in BOOLEAN
    PROVE  Len(GenerateNormalTrampolineBuffer(from, to, isNear)) = IF isNear THEN 3 ELSE 4
  <1>1. CASE isNear
    <2>1. PICK x, y, z : GenerateNormalTrampolineBuffer(from, to, isNear) = <<x, y, z>>
      BY <1>1 DEF GenerateNormalTrampolineBuffer
    <2> QED
      BY <1>1, <2>1, ShortSeqs
  <1>2. CASE ~isNear
    <2>1. PICK s, t : s = <<LdrLabel(1), Br17>> /\ t = <<to>>
      OBVIOUS
    <2>2. Len(s) = 2 /\ Len(t) = 1
      BY <2>1, ShortSeqs
    <2>3. GenerateNormalTrampolineBuffer(from, to, isNear) = RelocBind(s, t, 1)
      BY <1>2, <2>1 DEF GenerateNormalTrampolineBuffer
    <2>4. Len(RelocBind(s, t, 1)) = Len(s) + 2 * Len(t) * 1
      <3>1. Len(s) \in Nat /\ Len(t) \in Nat /\ 1 \in {1, 2}
        BY <2>2
      <3> QED
        BY <3>1, BindLength
    <2> QED
      BY <1>2, <2>2, <2>3, <2>4
  <1> QED
    BY <1>1, <1>2
-----------------------------------------------------------------------------
(* What the modules look like, and which pages are patched.                *)

Words(f) == entry[f]..(entry[f] + Len(Trampoline(f)) - 1)

LEMMA ModuleFacts ==
    ASSUME ModuleInv, NEW f \in Func
    PROVE  /\ DOMAIN pristine \subseteq Nat
           /\ entry[f] \in DOMAIN pristine /\ entry[f] \in Nat
           /\ Len(Trampoline(f)) \in {3, 4}
           /\ Words(f) \subseteq DOMAIN pristine
           /\ \A a \in Words(f) : \E g \in Func : Page(entry[g]) = Page(a)
           /\ \A a \in Words(f), g \in Func : Owner[g] # Owner[f] => Page(entry[g]) # Page(a)
  <1>1. PICK m \in Image : pristine = m.text /\ entry = m.entry
    BY DEF ModuleInv
  <1>2. near \in Reach /\ near[f] \in BOOLEAN
    BY MapAssumption DEF ModuleInv
  <1>3. Words(f) = Prologue(m, near, f)
    BY <1>1 DEF Words, Prologue, Trampoline
  <1>4. /\ Prologue(m, near, f) \subseteq DOMAIN m.text
        /\ \A a \in Prologue(m, near, f) : \E g \in Func : Page(m.entry[g]) = Page(a)
        /\ \A a \in Prologue(m, near, f), g \in Func : Owner[g] # Owner[f] => Page(m.entry[g]) # Page(a)
    BY <1>2, ModuleAssumption
  <1>5. DOMAIN m.text \subseteq Nat /\ m.entry[f] \in DOMAIN m.text
    BY MapAssumption
  <1>6. Len(Trampoline(f)) \in {3, 4}
    <2>1. Len(Trampoline(f)) = IF near[f] THEN 3 ELSE 4
      BY <1>2, TrampolineLength DEF Trampoline
    <2> QED
      BY <2>1
  <1>7. entry[f] \in Nat
    BY <1>1, <1>5
  <1> QED
    BY <1>1, <1>3, <1>4, <1>5, <1>6, <1>7

LEMMA BeforeIs ==
    ASSUME NEW p
    PROVE  Before(p) = IF p \in {Page(a) : a \in DOMAIN pristine} \cup Foreign
                            /\ ~ \E f \in Func : Page(entry[f]) = p
                       THEN "rw" ELSE "rx"
  BY DEF Before, InitialPerm

\* A page of the modules that holds code, and a page of an arena.
LEMMA BeforeEntry ==
    ASSUME NEW f \in Func
    PROVE  Before(Page(entry[f])) = "rx"
  BY BeforeIs

LEMMA BeforeArena ==
    ASSUME ModuleInv, NEW k \in Free
    PROVE  Before(k) = "rx"
  <1>1. \A c \in DOMAIN pristine : Page(c) # k
    BY TextApart
  <1>2. k \notin Foreign
    BY MapAssumption
  <1> QED
    BY <1>1, <1>2, BeforeIs

LEMMA CarriedFacts ==
    ASSUME NEW h, NEW r, Carried(h, r)
    PROVE  /\ r.at \in Busy /\ r.f \in Func /\ Owner[r.f] = h /\ r.what \in {"block", "entry"}
           /\ r.done \in Nat /\ r.addr \in Nat
           /\ Len(r.words) \in Nat /\ Len(r.words) >= 1 /\ Len(r.words) <= MaxBlock
           /\ r.what = "entry" => r.addr = entry[r.f] /\ Len(r.words) = Len(Trampoline(r.f))
  <1>1. /\ r.at \in Busy /\ r.f \in Func /\ Owner[r.f] = h /\ r.what \in {"block", "entry"}
        /\ r.done \in Nat /\ r.addr \in Nat
        /\ r.what = "entry" => r.addr = entry[r.f] /\ Len(r.words) = Len(Trampoline(r.f))
        /\ Len(r.words) \in 1..MaxBlock
    BY Zenon DEF Carried
  <1>2. \A n \in 1..34 : n \in Nat /\ n >= 1 /\ n <= 34
    OBVIOUS
  <1>3. MaxBlock = 34
    BY DEF MaxBlock
  <1> QED
    BY <1>1, <1>2, <1>3

LEMMA ArenaFacts ==
    ASSUME ArenaInv, NEW i \in 1..Len(code_arenas)
    PROVE  /\ i \in Nat \ {0} /\ code_arenas[i].addr \in Nat /\ code_arenas[i].cursor \in Nat
           /\ \E p \in Free : code_arenas[i].addr = p * PageWords
           /\ code_arenas[i].addr <= code_arenas[i].cursor
           /\ code_arenas[i].cursor <= code_arenas[i].addr + PageWords
           /\ code_arenas[i] \in [addr : Nat, cursor : Nat]
  <1>1. code_arenas[i] \in [addr : Nat, cursor : Nat]
    <2>1. code_arenas \in Seq([addr : Nat, cursor : Nat])
      BY Zenon DEF ArenaInv
    <2> QED
      BY <2>1, InSeq
  <1>2. /\ \E p \in Free : code_arenas[i].addr = p * PageWords
        /\ code_arenas[i].addr <= code_arenas[i].cursor
        /\ code_arenas[i].cursor <= code_arenas[i].addr + PageWords
    BY Zenon DEF ArenaInv
  <1>3. Len(code_arenas) \in Nat
    BY DEF ArenaInv
  <1> QED
    BY <1>1, <1>2, <1>3

\* The words that a thread writes are on mapped pages, which DobbyCodePatch has opened.
LEMMA PatchedPages ==
    ASSUME ModuleInv, HookInv, ArenaInv, BlockInv, NEW h \in Hooker,
           hk[h].at \in {"open", "copy", "close"}, NEW a \in BlockOf(hk[h])
    PROVE  a \in Nat /\ Page(a) \in Pages(hk[h]) /\ Page(a) \in Mapped
  <1>1. PICK r : r = hk[h]
    OBVIOUS
  <1>2. Carried(h, r)
    BY <1>1 DEF HookInv, Idle
  <1>3. r.addr \in Nat /\ Len(r.words) \in Nat /\ Len(r.words) <= MaxBlock /\ r.f \in Func
    BY <1>2, CarriedFacts
  <1>4. a \in Nat /\ a >= r.addr /\ a < r.addr + Len(r.words)
    BY <1>1, <1>3 DEF BlockOf
  <1>5. CASE r.what = "block"
    <2>1. blocks[r.f] = BlockOf(r) /\ r.addr \in BlockOf(r)
      BY <1>1, <1>2, <1>3, <1>4, <1>5 DEF BlockInv, BlockOf
    <2>2. PICK i \in 1..Len(code_arenas) : BlockOf(r) \subseteq GivenOut(i)
      BY <1>3, <2>1 DEF BlockInv
    <2>3. PICK b : b = code_arenas[i].addr
      OBVIOUS
    <2>4. PICK k \in Free : b = k * PageWords
      BY <2>3, ArenaFacts
    <2>5. code_arenas[i].cursor <= b + PageWords /\ b \in Nat /\ code_arenas[i].cursor \in Nat
      BY <2>3, ArenaFacts
    <2>6. a \in b..(code_arenas[i].cursor - 1) /\ r.addr \in b..(code_arenas[i].cursor - 1)
      BY <1>1, <2>1, <2>2, <2>3 DEF GivenOut
    <2>7. b <= a /\ a < b + PageWords /\ b <= r.addr /\ r.addr < b + PageWords /\ PageWords \in Nat
      BY <1>3, <1>4, <2>5, <2>6, MapAssumption
    <2>8. Page(a) = k /\ Page(r.addr) = k /\ Page(b) = k
      BY <1>3, <1>4, <2>4, <2>7, ArenaPage
    <2> QED
      BY <1>1, <1>4, <2>3, <2>8 DEF Pages, PatchPages, Mapped
  <1>6. CASE r.what = "entry"
    <2>1. r.addr = entry[r.f] /\ Len(r.words) = Len(Trampoline(r.f))
      BY <1>2, <1>6 DEF Carried
    <2>2. BlockOf(r) = Words(r.f)
      BY <2>1 DEF BlockOf, Words
    <2>3. a \in DOMAIN pristine
      BY <1>1, <1>3, <2>2, ModuleFacts
    <2>4. PICK n \in {3, 4} : n = Len(r.words)
      BY <1>3, <2>1, ModuleFacts
    <2>5. PICK p \in Nat, q \in Nat, z \in Nat : p = Page(r.addr) /\ q = Page(a) /\ z = Page(r.addr + n)
      <3>1. r.addr + n \in Nat
        BY <1>3, <2>4
      <3>2. Page(r.addr) \in Nat /\ Page(a) \in Nat /\ Page(r.addr + n) \in Nat
        BY <1>3, <1>4, <3>1, PageBounds
      <3> QED
        BY <3>2
    <2>6. p <= q /\ q <= z
      BY <1>3, <1>4, <2>4, <2>5, PageMonotone
    <2>7. z <= p + 1
      <3>1. PageWords \in Nat /\ PageWords >= 34
        BY MapAssumption DEF MaxBlock
      <3>2. r.addr < p * PageWords + PageWords /\ z * PageWords <= r.addr + n
        <4>1. r.addr + n \in Nat
          BY <1>3, <2>4
        <4> QED
          BY <1>3, <2>5, <4>1, PageBounds
      <3>3. SUFFICES ASSUME z > p + 1 PROVE FALSE
        OBVIOUS
      <3>4. (z - p - 2) * PageWords >= 0
            /\ (z - p - 2) * PageWords = z * PageWords - p * PageWords - 2 * PageWords
        BY <3>1, <3>3
      <3>5. z * PageWords \in Nat /\ p * PageWords \in Nat
        BY <3>1
      <3> QED
        BY <1>3, <3>1, <3>2, <3>4, <3>5
    <2>8. q = p \/ q = z
      BY <2>6, <2>7
    <2> QED
      BY <1>1, <1>4, <2>3, <2>4, <2>5, <2>8 DEF Pages, PatchPages, Mapped
  <1> QED
    BY <1>2, <1>5, <1>6 DEF Carried

\* An address that is not on the page of the one before it begins its page.
LEMMA PageAfter ==
    ASSUME NEW a \in Nat, NEW b \in Nat, a = b + 1, Page(a) # Page(b)
    PROVE  a = Page(a) * PageWords
  <1>1. PageWords \in Nat
    BY MapAssumption
  <1>2. PICK q \in Nat : q = Page(a) /\ q * PageWords <= a /\ a < q * PageWords + PageWords
    BY PageBounds
  <1>3. q * PageWords \in Nat
    BY <1>1
  <1>4. ~(q * PageWords <= b)
    <2>1. SUFFICES ASSUME q * PageWords <= b PROVE FALSE
      OBVIOUS
    <2>2. b < q * PageWords + PageWords
      BY <1>1, <1>2, <1>3
    <2>3. Page(b) = q
      BY <2>1, <2>2, PageIs
    <2> QED
      BY <1>2, <2>3
  <1> QED
    BY <1>2, <1>3, <1>4

\* When the pages are closed each is executable by right, or is the one behind the
\* trampoline or the block.
LEMMA ClosedRight ==
    ASSUME ModuleInv, HookInv, ArenaInv, BlockInv, NEW h \in Hooker, hk[h].at = "close",
           hk[h].what = "entry" => hk[h].f \in patched,
           NEW p \in Pages(hk[h])
    PROVE  Before(p) = "rx" \/ PageBehind(p)
  <1>1. PICK r : r = hk[h]
    OBVIOUS
  <1>2. Carried(h, r)
    BY <1>1 DEF HookInv, Idle
  <1>3. r.addr \in Nat /\ Len(r.words) \in Nat /\ Len(r.words) >= 1 /\ r.f \in Func
    BY <1>2, CarriedFacts
  <1>4. PICK n \in Nat : n = Len(r.words) /\ n >= 1
    BY <1>3
  <1>5. r.addr \in BlockOf(r) /\ (r.addr + n - 1) \in BlockOf(r)
    BY <1>3, <1>4 DEF BlockOf
  <1>6. p = Page(r.addr) \/ p = Page(r.addr + n)
    BY <1>1, <1>4 DEF Pages, PatchPages
  <1>7. PICK last \in Nat, next \in Nat : last = r.addr + n - 1 /\ next = last + 1 /\ next = r.addr + n
    <2>1. PICK x \in Nat : x = r.addr
      BY <1>3
    <2>2. x + n - 1 \in Nat /\ x + n \in Nat /\ x + n = (x + n - 1) + 1
      BY <1>4
    <2> QED
      BY <2>1, <2>2
  <1>8. p = Page(r.addr) \/ p = Page(last) \/ next = p * PageWords
    <2>1. SUFFICES ASSUME p # Page(r.addr), p # Page(last) PROVE next = p * PageWords
      OBVIOUS
    <2>2. p = Page(next)
      BY <1>6, <1>7, <2>1, Zenon
    <2>3. Page(next) # Page(last)
      BY <2>1, <2>2
    <2>4. next = Page(next) * PageWords
      BY <1>7, <2>3, PageAfter
    <2> QED
      BY <2>2, <2>4
  <1>9. CASE r.what = "block"
    <2>1. blocks[r.f] = BlockOf(r)
      BY <1>1, <1>9 DEF BlockInv
    <2>2. PICK i \in 1..Len(code_arenas) : BlockOf(r) \subseteq GivenOut(i)
      BY <1>3, <1>5, <2>1 DEF BlockInv
    <2>3. PICK b : b = code_arenas[i].addr
      OBVIOUS
    <2>4. PICK k \in Free : b = k * PageWords
      BY <2>3, ArenaFacts
    <2>5. code_arenas[i].cursor <= b + PageWords /\ b \in Nat /\ code_arenas[i].cursor \in Nat
      BY <2>3, ArenaFacts
    <2>6. r.addr \in b..(code_arenas[i].cursor - 1) /\ last \in b..(code_arenas[i].cursor - 1)
      BY <1>5, <1>7, <2>2, <2>3 DEF GivenOut
    <2>7. b <= r.addr /\ r.addr < b + PageWords /\ b <= last /\ last < b + PageWords
      <3>1. PICK c \in Nat, w \in Nat : c = code_arenas[i].cursor /\ w = PageWords /\ c <= b + w
        BY <2>5, MapAssumption
      <3>2. PICK x \in Nat : x = r.addr
        BY <1>3
      <3>3. x \in b..(c - 1) /\ last \in b..(c - 1)
        BY <2>6, <3>1, <3>2
      <3>4. b <= x /\ x < b + w /\ b <= last /\ last < b + w
        BY <1>7, <2>5, <3>1, <3>3
      <3> QED
        BY <3>1, <3>2, <3>4
    <2>8. Page(r.addr) = k /\ Page(last) = k
      BY <1>3, <1>7, <2>4, <2>7, ArenaPage
    <2>9. CASE p = k
      BY <2>9, BeforeArena
    <2>10. CASE next = p * PageWords
      <3>1. p * PageWords - 1 = last
        BY <1>7, <2>10
      <3>2. last \in blocks[r.f]
        BY <1>5, <1>7, <2>1
      <3> QED
        BY <1>3, <3>1, <3>2 DEF PageBehind
    <2> QED
      BY <1>8, <2>8, <2>9, <2>10
  <1>10. CASE r.what = "entry"
    <2>1. r.addr = entry[r.f] /\ n = Len(Trampoline(r.f))
      BY <1>2, <1>4, <1>10 DEF Carried
    <2>2. BlockOf(r) = Words(r.f)
      BY <1>4, <2>1 DEF BlockOf, Words
    <2>3. CASE p = Page(r.addr) \/ p = Page(last)
      <3>1. \E g \in Func : Page(entry[g]) = p
        BY <1>3, <1>5, <1>7, <2>2, <2>3, ModuleFacts
      <3> QED
        BY <3>1, BeforeEntry
    <2>4. CASE next = p * PageWords
      <3>1. entry[r.f] + Len(Trampoline(r.f)) = p * PageWords /\ r.f \in patched
        BY <1>1, <1>7, <1>10, <2>1, <2>4
      <3> QED
        BY <3>1 DEF PageBehind
    <2> QED
      BY <1>8, <2>3, <2>4
  <1> QED
    BY <1>2, <1>9, <1>10 DEF Carried
-----------------------------------------------------------------------------
(* What leaves each part of the invariant alone.                           *)

LEMMA ModuleKept ==
    ASSUME ModuleInv, pristine' = pristine, entry' = entry, near' = near
    PROVE  /\ ModuleInv'
           /\ \A f : Trampoline(f)' = Trampoline(f)
           /\ \A p : Before(p)' = Before(p)
  BY DEF ModuleInv, Trampoline, Before, InitialPerm

\* One thread goes on to r.
LEMMA HookKept ==
    ASSUME HookInv, entry' = entry, near' = near, NEW h \in Hooker, NEW r,
           hk' = [hk EXCEPT ![h] = r], r = Idle \/ Carried(h, r)
    PROVE  /\ HookInv'
           /\ hk'[h] = r
           /\ \A g \in Hooker : g # h => hk'[g] = hk[g]
  <1>1. hk = [g \in Hooker |-> hk[g]] /\ \A g \in Hooker : hk[g] = Idle \/ Carried(g, hk[g])
    BY Zenon DEF HookInv
  <1>2. hk' = [g \in Hooker |-> IF g = h THEN r ELSE hk[g]]
    BY <1>1
  <1>3. hk'[h] = r /\ \A g \in Hooker : g # h => hk'[g] = hk[g]
    BY <1>2
  <1>4. hk' = [g \in Hooker |-> hk'[g]]
    BY <1>2
  <1>5. ASSUME NEW g \in Hooker PROVE hk'[g] = Idle \/ Carried(g, hk[g])'
    <2>1. PICK x : x = hk'[g]
      OBVIOUS
    <2>2. x = Idle \/ Carried(g, x)
      BY <1>1, <1>3, <2>1, Zenon
    <2>3. \A f : Trampoline(f)' = Trampoline(f)
      BY DEF Trampoline
    <2>4. Carried(g, x) => Carried(g, x)'
      BY <2>3, Zenon DEF Carried
    <2>5. Carried(g, x)' <=> Carried(g, hk[g])'
      BY <2>1, Zenon DEF Carried
    <2> QED
      BY <2>1, <2>2, <2>4, <2>5, Zenon
  <1> QED
    BY <1>3, <1>4, <1>5, Zenon DEF HookInv, Idle

\* The threads are each at a function of their own.
LEMMA OwnFunctions ==
    ASSUME HookInv, NEW g \in Hooker, NEW h \in Hooker, hk[g].at \in Busy, hk[h].at \in Busy,
           hk[g].f = hk[h].f
    PROVE  g = h
  <1>1. Carried(g, hk[g]) /\ Carried(h, hk[h])
    BY DEF HookInv, Idle, Busy
  <1>2. Owner[hk[g].f] = g /\ Owner[hk[h].f] = h
    BY <1>1, CarriedFacts, Zenon
  <1> QED
    BY <1>2

\* The blocks are not concerned.
LEMMA BlockKept ==
    ASSUME BlockInv, HookInv', NEW h \in Hooker, NEW r, hk'[h] = r,
           \A g \in Hooker : g # h => hk'[g] = hk[g],
           UNCHANGED <<code_arenas, blocks, entries, raced>>,
           hk[h].at \in Busy \ {"read", "bump"} => r.at \in Busy \ {"read", "bump"} /\ r.f = hk[h].f,
           r.at \in {"open", "copy", "close", "store"} /\ r.what = "block" => blocks[r.f] = BlockOf(r),
           r.at \in Busy => r.f \notin entries,
           r.at # "bump"
    PROVE  BlockInv'
  <1>1. \A i : GivenOut(i)' = GivenOut(i)
    BY DEF GivenOut
  <1>2. (/\ blocks = [f \in Func |-> blocks[f]]
         /\ \A f \in Func : blocks[f] = {} \/ \E i \in 1..Len(code_arenas) : blocks[f] \subseteq GivenOut(i)
         /\ \A f, g \in Func : f # g => blocks[f] \cap blocks[g] = {})'
    BY <1>1 DEF BlockInv
  <1>3. (\A f \in Func : blocks[f] # {} =>
            f \in entries \/ \E g \in Hooker : hk[g].at \in Busy \ {"read", "bump"} /\ hk[g].f = f)'
    <2> SUFFICES ASSUME NEW f \in Func, blocks[f] # {}, f \notin entries
                 PROVE  \E g \in Hooker : hk'[g].at \in Busy \ {"read", "bump"} /\ hk'[g].f = f
      OBVIOUS
    <2>1. PICK g \in Hooker : hk[g].at \in Busy \ {"read", "bump"} /\ hk[g].f = f
      BY DEF BlockInv
    <2> QED
      BY <2>1
  <1>4. (\A g \in Hooker : hk[g].at \in {"open", "copy", "close", "store"} /\ hk[g].what = "block" =>
            blocks[hk[g].f] = BlockOf(hk[g]))'
    BY DEF BlockInv, BlockOf
  <1>5. (\A g \in Hooker : hk[g].at \in Busy => hk[g].f \notin entries)'
    BY DEF BlockInv
  <1>6. (\A g \in Hooker : hk[g].at = "bump" =>
            /\ hk[g].done \in 1..Len(code_arenas)
            /\ hk[g].addr = code_arenas[hk[g].done].cursor
            /\ hk[g].addr + Len(hk[g].words) <= code_arenas[hk[g].done].addr + PageWords)'
    BY DEF BlockInv
  <1>7. (~raced => \A g, k \in Hooker : hk[g].at = "bump" /\ hk[k].at = "bump" => g = k)'
    BY DEF BlockInv
  <1> QED
    BY <1>2, <1>3, <1>4, <1>5, <1>6, <1>7 DEF BlockInv

\* Nothing is written.
LEMMA MemKept ==
    ASSUME MemInv, NEW h \in Hooker, NEW r, hk'[h] = r,
           \A g \in Hooker : g # h => hk'[g] = hk[g],
           UNCHANGED <<pristine, mem, entries, origin, patched, blocks, fault>>,
           met' \in BOOLEAN, raced' \in BOOLEAN,
           ~fault /\ r.at \in {"close", "add"} /\ r.what = "entry" => r.f \in patched
    PROVE  MemInv'
  <1>1. (/\ DOMAIN pristine \subseteq DOMAIN mem
         /\ DOMAIN mem \subseteq DOMAIN pristine \cup UNION {blocks[f] : f \in Func}
         /\ entries \subseteq patched /\ patched \subseteq Func
         /\ origin = [f \in Func |-> origin[f]] /\ \A f \in Func : origin[f] \in Nat)'
    BY Zenon DEF MemInv
  <1>2. (fault \in BOOLEAN /\ met \in BOOLEAN /\ raced \in BOOLEAN)'
    BY Zenon DEF MemInv
  <1>3. (~fault => \A g \in Hooker : hk[g].at \in {"close", "add"} /\ hk[g].what = "entry" =>
                      hk[g].f \in patched)'
    BY DEF MemInv
  <1> QED
    BY <1>1, <1>2, <1>3, Zenon DEF MemInv

\* What is behind a trampoline or a block stays so.
LEMMA BehindKept ==
    ASSUME entry' = entry, near' = near, patched \subseteq patched',
           \A f \in Func : blocks[f] \subseteq blocks'[f], NEW p, PageBehind(p)
    PROVE  PageBehind(p)'
  <1>1. \A f : Trampoline(f)' = Trampoline(f)
    BY DEF Trampoline
  <1>2. CASE \E f \in patched : entry[f] + Len(Trampoline(f)) = p * PageWords
    BY <1>1, <1>2 DEF PageBehind
  <1>3. CASE \E f \in Func : p * PageWords - 1 \in blocks[f]
    BY <1>3 DEF PageBehind
  <1> QED
    BY <1>2, <1>3 DEF PageBehind

\* No page changes its permissions, and no thread opens or closes any.
LEMMA PermKept ==
    ASSUME PermInv, NEW h \in Hooker, NEW r, hk'[h] = r,
           \A g \in Hooker : g # h => hk'[g] = hk[g],
           UNCHANGED <<pristine, entry, near, perm, denied, met>>, fault' => Excuse',
           Mapped' = Mapped, patched \subseteq patched',
           \A f \in Func : blocks[f] \subseteq blocks'[f],
           Patching(h) => r.at \in {"copy", "close"} /\ r.addr = hk[h].addr /\ r.words = hk[h].words,
           r.at = "copy" => hk[h].at = "copy"
    PROVE  PermInv'
  <1>1. \A p : Before(p)' = Before(p)
    BY DEF Before, InitialPerm
  <1>2. \A p : PageBehind(p) => PageBehind(p)'
    BY BehindKept
  <1>3. ASSUME NEW g \in Hooker, Patching(g)
        PROVE  Patching(g)' /\ Pages(hk[g])' = Pages(hk[g])
    BY <1>3 DEF Patching, Pages, PatchPages
  <1>4. (DOMAIN perm = Mapped /\ denied \subseteq Mapped /\ \A p \in Mapped : perm[p] \in Perms)'
    BY Zenon DEF PermInv, Perms
  <1>5. ASSUME NEW p PROVE Settled(p) => Settled(p)'
    BY <1>1, <1>2, Zenon DEF Settled
  <1>6. ASSUME NEW p PROVE AtWork(p) => AtWork(p)'
    BY <1>3, Zenon DEF AtWork
  <1>7. (\A p \in Mapped : Settled(p) \/ AtWork(p))'
    BY <1>5, <1>6, Zenon DEF PermInv
  <1>8. (~met => \A g \in Hooker : hk[g].at = "copy" =>
                   \A a \in BlockOf(hk[g]) : perm[Page(a)] = "rwx" \/ Page(a) \in denied)'
    <2> SUFFICES ASSUME ~met, NEW g \in Hooker, hk'[g].at = "copy", NEW a \in BlockOf(hk[g])'
                 PROVE  perm[Page(a)] = "rwx" \/ Page(a) \in denied
      BY DEF Page
    <2>1. hk[g].at = "copy"
      OBVIOUS
    <2>2. a \in BlockOf(hk[g])
      BY <2>1 DEF BlockOf, Patching
    <2> QED
      BY <2>1, <2>2 DEF PermInv
  <1> QED
    BY <1>4, <1>7, <1>8, Zenon DEF PermInv
-----------------------------------------------------------------------------
(* Every step keeps the invariant.                                         *)

\* A thread's record, its fields given one by one.
Is(r, x, f, w, n, a, s) ==
    /\ DOMAIN r = Fields
    /\ r.at = x /\ r.f = f /\ r.what = w /\ r.done = n /\ r.addr = a /\ r.words = s

LEMMA CarriedIf ==
    ASSUME NEW h, NEW x \in Busy, NEW f \in Func, Owner[f] = h, NEW w \in {"block", "entry"},
           NEW n \in Nat, NEW a \in Nat, NEW s, Len(s) \in 1..MaxBlock,
           x \in {"read", "bump", "store"} => w = "block",
           x = "add" => w = "entry",
           x = "open" \/ (x = "copy" /\ w = "block") => n = 0,
           x = "copy" => n < Len(s),
           w = "entry" => a = entry[f] /\ Len(s) = Len(Trampoline(f)),
           NEW r, Is(r, x, f, w, n, a, s)
    PROVE  Carried(h, r)
  BY Zenon DEF Is, Carried

\* The pages for which the words of a thread are meant.
LEMMA CopyPages ==
    ASSUME DobbyInv, ~met, NEW g \in Hooker, hk[g].at = "copy", NEW a \in BlockOf(hk[g])
    PROVE  /\ perm[Page(a)] = "rwx" \/ Page(a) \in denied
           /\ Page(a) \in Mapped /\ Page(a) \in Pages(hk[g])
  <1>1. PermInv /\ ModuleInv /\ HookInv /\ ArenaInv /\ BlockInv
    BY DEF DobbyInv
  <1>2. perm[Page(a)] = "rwx" \/ Page(a) \in denied
    BY <1>1, Zenon DEF PermInv
  <1>3. Page(a) \in Mapped /\ Page(a) \in Pages(hk[g])
    BY <1>1, PatchedPages
  <1> QED
    BY <1>2, <1>3

\* The first mprotect of DobbyHook closes no page that another thread writes.
LEMMA EntryProtected ==
    ASSUME DobbyInv, ~fault, NEW h \in Hooker, hk[h] = Idle, NEW f \in Func, Owner[f] = h,
           Protect(Page(entry[f]), "rx"),
           NEW r, hk'[h] = r, r.at \notin {"copy", "close"},
           \A g \in Hooker : g # h => hk'[g] = hk[g],
           UNCHANGED <<pristine, entry, near, code_arenas, patched, blocks, met, fault>>
    PROVE  PermInv'
  <1> DEFINE e == Page(entry[f])
  <1>0. PermInv /\ ModuleInv /\ HookInv /\ ArenaInv /\ BlockInv
    BY DEF DobbyInv
  <1>1. DOMAIN perm = Mapped /\ Mapped' = Mapped /\ denied \subseteq Mapped
    BY <1>0, Zenon DEF PermInv, Mapped, Page
  <1>2. perm' = [q \in Mapped |-> IF q = e THEN "rx" ELSE perm[q]] /\ denied' = denied \ {e}
    BY <1>1 DEF Protect
  <1> HIDE DEF e
  <1>3. \A p : Before(p)' = Before(p)
    BY <1>0, ModuleKept
  <1>4. \A p : PageBehind(p) => PageBehind(p)'
    BY BehindKept
  <1>5. Before(e) = "rx"
    BY BeforeEntry DEF e
  <1>6. \A g \in Hooker : Patching(g) => g # h
    BY DEF Patching, Idle
  <1>7. ASSUME NEW g \in Hooker, g # h
        PROVE  Patching(g)' = Patching(g) /\ Pages(hk[g])' = Pages(hk[g])
    BY <1>7 DEF Patching, Pages, PatchPages
  <1>8. (DOMAIN perm = Mapped /\ denied \subseteq Mapped /\ \A p \in Mapped : perm[p] \in Perms)'
    <2>1. \A p \in Mapped : perm[p] \in Perms
      BY <1>0, Zenon DEF PermInv
    <2>2. "rx" \in Perms
      BY DEF Perms
    <2>3. DOMAIN perm' = Mapped /\ denied' \subseteq Mapped /\ \A p \in Mapped : perm'[p] \in Perms
      BY <1>1, <1>2, <2>1, <2>2
    <2> QED
      BY <1>1, <2>3 DEF Perms
  <1>9. ASSUME NEW p \in Mapped PROVE Settled(p)' \/ AtWork(p)'
    <2>1. CASE p = e
      BY <1>2, <1>3, <1>5, <2>1 DEF Settled
    <2>2. CASE p # e
      <3>1. perm'[p] = perm[p] /\ (p \in denied => p \in denied')
        BY <1>2, <2>2
      <3>2. Settled(p) \/ AtWork(p)
        BY <1>0, Zenon DEF PermInv
      <3>3. Settled(p) => Settled(p)'
        BY <1>3, <1>4, <3>1, Zenon DEF Settled
      <3>4. AtWork(p) => AtWork(p)'
        BY <1>6, <1>7, Zenon DEF AtWork
      <3> QED
        BY <3>2, <3>3, <3>4
    <2> QED
      BY <2>1, <2>2
  <1>10. ASSUME ~met, NEW g \in Hooker, hk'[g].at = "copy", NEW a \in BlockOf(hk[g])'
         PROVE  perm'[Page(a)] = "rwx" \/ Page(a) \in denied'
    <2>1. g # h /\ hk'[g] = hk[g] /\ hk[g].at = "copy"
      BY <1>10
    <2>2. a \in BlockOf(hk[g])
      BY <1>10, <2>1 DEF BlockOf
    <2>3. (perm[Page(a)] = "rwx" \/ Page(a) \in denied) /\ Page(a) \in Mapped
      BY <1>10, <2>1, <2>2, CopyPages
    <2>4. PICK x : x = hk[g]
      OBVIOUS
    <2>5. Carried(g, x)
      BY <1>0, <2>1, <2>4 DEF HookInv, Idle
    <2>6. x.f \in Func /\ Owner[x.f] = g /\ x.what \in {"block", "entry"}
      BY <2>5, CarriedFacts, Zenon
    <2>7. Page(a) # e
      <3>1. CASE x.what = "entry"
        <4>1. BlockOf(x) = Words(x.f)
          BY <2>5, <3>1, CarriedFacts DEF BlockOf, Words
        <4> QED
          BY <1>0, <2>1, <2>2, <2>4, <2>6, <4>1, ModuleFacts DEF e
      <3>2. CASE x.what = "block"
        <4>1. blocks[x.f] = BlockOf(x)
          BY <1>0, <2>1, <2>4, <3>2 DEF BlockInv
        <4>2. PICK i \in 1..Len(code_arenas) : a \in GivenOut(i)
          BY <1>0, <2>2, <2>4, <2>6, <4>1 DEF BlockInv
        <4>3. PICK b : b = code_arenas[i].addr
          OBVIOUS
        <4>4. PICK k \in Free : b = k * PageWords
          BY <1>0, <4>3, ArenaFacts
        <4>5. a \in Nat /\ b <= a /\ a < b + PageWords
          <5>1. PICK c : c = code_arenas[i].cursor
            OBVIOUS
          <5>2. b \in Nat /\ c \in Nat /\ PageWords \in Nat /\ c <= b + PageWords
            BY <1>0, <4>3, <5>1, ArenaFacts, MapAssumption
          <5>3. a \in b..(c - 1)
            BY <4>2, <4>3, <5>1 DEF GivenOut
          <5> QED
            BY <5>2, <5>3
        <4>6. Page(a) = k
          BY <4>4, <4>5, ArenaPage
        <4>7. entry[f] \in DOMAIN pristine
          BY <1>0, ModuleFacts
        <4> QED
          BY <1>0, <4>6, <4>7, TextApart DEF e
      <3> QED
        BY <2>6, <3>1, <3>2
    <2> QED
      BY <1>2, <2>3, <2>7
  <1>11. (~met => \A g \in Hooker : hk[g].at = "copy" =>
                    \A a \in BlockOf(hk[g]) : perm[Page(a)] = "rwx" \/ Page(a) \in denied)'
    BY <1>10 DEF Page
  <1>12. (\A q \in Mapped : Settled(q) \/ AtWork(q))'
    BY <1>1, <1>9
  <1>13. (fault => Excuse)'
    <2>1. ~fault'
      OBVIOUS
    <2> QED
      BY <2>1
  <1>14. (DOMAIN perm = Mapped /\ denied \subseteq Mapped /\ \A q \in Mapped : perm[q] \in Perms)'
    BY <1>8
  <1> QED
    BY <1>11, <1>12, <1>13, <1>14, Zenon DEF PermInv

LEMMA EnterStep ==
    ASSUME DobbyInv, ~fault, NEW h \in Hooker, NEW f \in Func, Enter(h, f)
    PROVE  DobbyInv'
  <1> DEFINE u == relo_relocate(mem, entry[f], Len(Trampoline(f)))
             r == [at |-> "read", f |-> f, what |-> "block", done |-> 0, addr |-> 0, words |-> u]
  <1>0. PermInv /\ ModuleInv /\ HookInv /\ ArenaInv /\ BlockInv /\ MemInv
    BY DEF DobbyInv
  <1>1. hk[h] = Idle /\ Owner[f] = h /\ f \notin entries
    BY DEF Enter
  <1>2. UNCHANGED <<pristine, entry, near, mem, code_arenas, entries, origin, patched, blocks,
                    raced, met, fault>>
    BY DEF Enter
  <1>3. hk' = [hk EXCEPT ![h] = r] /\ Protect(Page(entry[f]), "rx")
    BY DEF Enter
  <1>4. r.at = "read" /\ r.f = f /\ Is(r, "read", f, "block", 0, 0, u)
    BY DEF Is, Fields
  <1>5. Carried(h, r)
    <2>1. Len(u) \in 1..MaxBlock
      BY <1>0, ModuleFacts, BlockLength
    <2> HIDE DEF r, u
    <2>2. "read" \in Busy /\ 0 \in Nat
      BY DEF Busy
    <2> QED
      BY <1>1, <1>4, <2>1, <2>2, CarriedIf
  <1> HIDE DEF r
  <1>6. PICK s : s = r
    OBVIOUS
  <1>7. /\ HookInv' /\ hk'[h] = s /\ \A g \in Hooker : g # h => hk'[g] = hk[g]
    BY <1>0, <1>2, <1>3, <1>5, <1>6, HookKept
  <1>8. ModuleInv'
    BY <1>0, <1>2, ModuleKept
  <1>9. ArenaInv'
    BY <1>0, <1>2 DEF ArenaInv
  <1>10. BlockInv'
    <2>1. hk[h].at \notin Busy
      BY <1>1 DEF Idle, Busy
    <2> QED
      BY <1>0, <1>1, <1>2, <1>4, <1>6, <1>7, <2>1, BlockKept DEF Busy
  <1>11. MemInv'
    <2>1. met' \in BOOLEAN /\ raced' \in BOOLEAN
      BY <1>0, <1>2, Zenon DEF MemInv
    <2> QED
      BY <1>0, <1>2, <1>4, <1>6, <1>7, <2>1, MemKept
  <1>12. PermInv'
    BY <1>1, <1>2, <1>3, <1>4, <1>6, <1>7, EntryProtected
  <1> QED
    BY <1>7, <1>8, <1>9, <1>10, <1>11, <1>12 DEF DobbyInv

LEMMA AlreadyHookedStep ==
    ASSUME DobbyInv, ~fault, NEW h \in Hooker, NEW f \in Func, AlreadyHooked(h, f)
    PROVE  DobbyInv'
  <1>0. PermInv /\ ModuleInv /\ HookInv /\ ArenaInv /\ BlockInv /\ MemInv
    BY DEF DobbyInv
  <1>1. hk[h] = Idle /\ Owner[f] = h /\ Protect(Page(entry[f]), "rx")
    BY DEF AlreadyHooked
  <1>2. UNCHANGED <<pristine, entry, near, mem, code_arenas, entries, origin, hk, patched, blocks,
                    raced, met, fault>>
    BY DEF AlreadyHooked
  <1>3. hk'[h] = Idle /\ Idle.at = "idle" /\ \A g \in Hooker : g # h => hk'[g] = hk[g]
    BY <1>1, <1>2 DEF Idle
  <1>4. hk' = [hk EXCEPT ![h] = Idle]
    BY <1>0, <1>1, <1>2 DEF HookInv
  <1>5. HookInv'
    BY <1>0, <1>2, <1>4, HookKept
  <1>6. ModuleInv'
    BY <1>0, <1>2, ModuleKept
  <1>7. ArenaInv'
    BY <1>0, <1>2 DEF ArenaInv
  <1>8. BlockInv'
    BY <1>0, <1>1, <1>2, <1>3, <1>5, BlockKept DEF Busy
  <1>9. MemInv'
    <2>1. met' \in BOOLEAN /\ raced' \in BOOLEAN
      BY <1>0, <1>2, Zenon DEF MemInv
    <2> QED
      BY <1>0, <1>2, <1>3, <2>1, MemKept
  <1>10. PermInv'
    BY <1>1, <1>2, <1>3, EntryProtected
  <1> QED
    BY <1>5, <1>6, <1>7, <1>8, <1>9, <1>10 DEF DobbyInv

\* A thread inside DobbyHook, its fields named.
LEMMA Parts ==
    ASSUME HookInv, NEW h \in Hooker, NEW p \in Busy, hk[h].at = p
    PROVE  \E f \in Func, v \in {"block", "entry"}, d \in Nat, b \in Nat, u \in {hk[h].words} :
              /\ Is(hk[h], p, f, v, d, b, u)
              /\ hk[h].f = f /\ hk[h].what = v /\ hk[h].done = d /\ hk[h].addr = b /\ hk[h].words = u
              /\ Owner[f] = h /\ Len(u) \in Nat /\ Len(u) >= 1 /\ Len(u) <= MaxBlock
              /\ Len(u) \in 1..MaxBlock
              /\ p \in {"read", "bump", "store"} => v = "block"
              /\ p = "add" => v = "entry"
              /\ p = "open" \/ (p = "copy" /\ v = "block") => d = 0
              /\ p = "copy" => d < Len(u)
              /\ v = "entry" => b = entry[f] /\ Len(u) = Len(Trampoline(f))
  <1>1. PICK r : r = hk[h]
    OBVIOUS
  <1>2. Carried(h, r)
    BY <1>1 DEF HookInv, Idle, Busy
  <1>3. PICK f \in Func, v \in {"block", "entry"}, d \in Nat, b \in Nat, u \in {hk[h].words} :
            r.f = f /\ r.what = v /\ r.done = d /\ r.addr = b /\ r.words = u
    <2>1. r.f \in Func /\ r.what \in {"block", "entry"} /\ r.done \in Nat /\ r.addr \in Nat
      BY <1>2, CarriedFacts, Zenon
    <2>2. r.words \in {hk[h].words}
      BY <1>1
    <2> QED
      BY <2>1, <2>2, Zenon
  <1>4. Is(r, p, f, v, d, b, u)
    BY <1>1, <1>2, <1>3, Zenon DEF Carried, Is
  <1>5. Owner[f] = h /\ Len(u) \in Nat /\ Len(u) >= 1 /\ Len(u) <= MaxBlock
    BY <1>2, <1>3, CarriedFacts, Zenon
  <1>6. /\ Len(u) \in 1..MaxBlock
        /\ p \in {"read", "bump", "store"} => v = "block"
        /\ p = "add" => v = "entry"
        /\ p = "open" \/ (p = "copy" /\ v = "block") => d = 0
        /\ p = "copy" => d < Len(u)
        /\ v = "entry" => b = entry[f] /\ Len(u) = Len(Trampoline(f))
    BY <1>1, <1>2, <1>3, Zenon DEF Carried
  <1>7. /\ Is(hk[h], p, f, v, d, b, u)
        /\ hk[h].f = f /\ hk[h].what = v /\ hk[h].done = d /\ hk[h].addr = b /\ hk[h].words = u
    BY <1>1, <1>3, <1>4, Zenon
  <1> QED
    BY <1>5, <1>6, <1>7

\* What mprotect makes of the mapped pages, those of F being refused.
Protected(S, F, v) ==
    /\ F \subseteq S /\ denied' = (denied \ S) \cup F
    /\ \A q \in Mapped : perm'[q] = IF q \in S /\ q \notin F THEN v ELSE perm[q]

LEMMA ProtectedIs ==
    ASSUME PermInv, NEW S, NEW v, ProtectUnasked(S, v), v \in {"rx", "rwx"},
           UNCHANGED <<pristine, code_arenas>>
    PROVE  /\ Mapped' = Mapped /\ DOMAIN perm' = Mapped /\ denied' \subseteq Mapped
           /\ \A q \in Mapped : perm'[q] \in Perms
           /\ \E F : Protected(S, F, v)
  <1>1. DOMAIN perm = Mapped /\ Mapped' = Mapped /\ denied \subseteq Mapped
    BY Zenon DEF PermInv, Mapped, Page
  <1>2. PICK F \in SUBSET (S \cap Mapped \cap Refusing) :
            /\ perm' = [q \in Mapped |-> IF q \in S \ F THEN v ELSE perm[q]]
            /\ denied' = (denied \ S) \cup F
    BY <1>1 DEF ProtectUnasked
  <1>3. \A q \in Mapped : perm[q] \in Perms
    BY Zenon DEF PermInv
  <1>4. \A q \in Mapped : perm'[q] \in Perms
    BY <1>2, <1>3 DEF Perms
  <1>5. Protected(S, F, v)
    BY <1>2 DEF Protected
  <1>6. DOMAIN perm' = Mapped /\ denied' \subseteq Mapped
    BY <1>1, <1>2
  <1> QED
    BY <1>1, <1>4, <1>5, <1>6

\* DobbyCodePatch opens the pages of the words it is about to write.
LEMMA OpenPages ==
    ASSUME DobbyInv, ~fault, NEW h \in Hooker, hk[h].at = "open", ProtectUnasked(Pages(hk[h]), "rwx"),
           NEW r, hk'[h] = r, r.at = "copy", r.addr = hk[h].addr, r.words = hk[h].words,
           \A g \in Hooker : g # h => hk'[g] = hk[g],
           UNCHANGED <<pristine, entry, near, code_arenas, patched, blocks, met, fault>>
    PROVE  PermInv'
  <1> DEFINE S == Pages(hk[h])
  <1>0. PermInv /\ ModuleInv /\ HookInv /\ ArenaInv /\ BlockInv
    BY DEF DobbyInv
  <1>1. /\ Mapped' = Mapped /\ DOMAIN perm' = Mapped /\ denied' \subseteq Mapped
        /\ \A q \in Mapped : perm'[q] \in Perms
        /\ \E F : Protected(S, F, "rwx")
    BY <1>0, ProtectedIs
  <1>2. PICK F : Protected(S, F, "rwx")
    BY <1>1, Zenon
  <1>3. \A q : Before(q)' = Before(q)
    BY <1>0, ModuleKept
  <1>4. \A q : PageBehind(q) => PageBehind(q)'
    BY BehindKept
  <1>5. Patching(h)' /\ Pages(hk[h])' = S /\ BlockOf(hk[h])' = BlockOf(hk[h])
    BY DEF Patching, Pages, PatchPages, BlockOf, Page
  <1>6. ASSUME NEW g \in Hooker, Patching(g)
        PROVE  Patching(g)' /\ Pages(hk[g])' = Pages(hk[g])
    BY <1>6 DEF Patching, Pages, PatchPages, Page
  <1> HIDE DEF S
  <1>7. ASSUME NEW q \in Mapped PROVE Settled(q)' \/ AtWork(q)'
    <2>1. CASE q \in S
      BY <1>5, <2>1, Zenon DEF AtWork
    <2>2. CASE q \notin S
      <3>1. Settled(q) \/ AtWork(q)
        BY <1>0, Zenon DEF PermInv
      <3>2. perm'[q] = perm[q] /\ (q \in denied => q \in denied')
        BY <1>2, <2>2 DEF Protected
      <3>3. Settled(q) => Settled(q)'
        BY <1>3, <1>4, <3>2, Zenon DEF Settled
      <3>4. AtWork(q) => AtWork(q)'
        BY <1>6, Zenon DEF AtWork
      <3> QED
        BY <3>1, <3>3, <3>4
    <2> QED
      BY <2>1, <2>2
  <1>8. ASSUME ~met, NEW g \in Hooker, hk'[g].at = "copy", NEW a \in BlockOf(hk[g])'
        PROVE  perm'[Page(a)] = "rwx" \/ Page(a) \in denied'
    <2>1. CASE g = h
      <3>1. Page(a) \in S /\ Page(a) \in Mapped
        BY <1>0, <1>5, <1>8, <2>1, PatchedPages DEF S
      <3> QED
        BY <1>2, <3>1 DEF Protected
    <2>2. CASE g # h
      <3>1. hk'[g] = hk[g] /\ hk[g].at = "copy"
        BY <1>8, <2>2
      <3>2. a \in BlockOf(hk[g])
        BY <1>8, <3>1 DEF BlockOf
      <3>3. (perm[Page(a)] = "rwx" \/ Page(a) \in denied) /\ Page(a) \in Mapped
        BY <1>8, <3>1, <3>2, CopyPages
      <3> QED
        BY <1>2, <3>3 DEF Protected
    <2> QED
      BY <2>1, <2>2
  <1>9. (~met => \A g \in Hooker : hk[g].at = "copy" =>
                   \A a \in BlockOf(hk[g]) : perm[Page(a)] = "rwx" \/ Page(a) \in denied)'
    BY <1>8 DEF Page
  <1>10. (DOMAIN perm = Mapped /\ denied \subseteq Mapped /\ \A q \in Mapped : perm[q] \in Perms)'
    BY <1>1 DEF Perms
  <1>11. (\A q \in Mapped : Settled(q) \/ AtWork(q))'
    BY <1>1, <1>7
  <1>12. (fault => Excuse)'
    <2>1. ~fault'
      OBVIOUS
    <2> QED
      BY <2>1
  <1> QED
    BY <1>9, <1>10, <1>11, <1>12, Zenon DEF PermInv

\* When it closes them each is executable by right, or lies behind, or was refused.
LEMMA ClosePages ==
    ASSUME DobbyInv, ~fault, NEW h \in Hooker, hk[h].at = "close", ProtectUnasked(Pages(hk[h]), "rx"),
           NEW r, hk'[h] = r, r.at \in {"store", "add"},
           hk[h].what = "entry" => hk[h].f \in patched,
           \A g \in Hooker : g # h => hk'[g] = hk[g],
           met' = (met \/ \E g \in Hooker \ {h} : Patching(g)),
           UNCHANGED <<pristine, entry, near, code_arenas, patched, blocks, fault>>
    PROVE  PermInv'
  <1> DEFINE S == Pages(hk[h])
  <1>0. PermInv /\ ModuleInv /\ HookInv /\ ArenaInv /\ BlockInv
    BY DEF DobbyInv
  <1>1. /\ Mapped' = Mapped /\ DOMAIN perm' = Mapped /\ denied' \subseteq Mapped
        /\ \A q \in Mapped : perm'[q] \in Perms
        /\ \E F : Protected(S, F, "rx")
    BY <1>0, ProtectedIs
  <1>2. PICK F : Protected(S, F, "rx")
    BY <1>1, Zenon
  <1>3. \A q : Before(q)' = Before(q)
    BY <1>0, ModuleKept
  <1>4. \A q : PageBehind(q) => PageBehind(q)'
    BY BehindKept
  <1>5. ASSUME NEW g \in Hooker, g # h
        PROVE  Patching(g)' = Patching(g) /\ Pages(hk[g])' = Pages(hk[g])
    BY <1>5 DEF Patching, Pages, PatchPages, Page
  <1>6. ASSUME NEW q \in S PROVE Before(q) = "rx" \/ PageBehind(q)
    BY <1>0, <1>6, ClosedRight
  <1>7. ASSUME NEW q \in Mapped PROVE Settled(q)' \/ AtWork(q)'
    <2>1. CASE q \in S
      <3>1. perm'[q] = "rx" \/ q \in denied'
        BY <1>2, <2>1 DEF Protected
      <3> QED
        BY <1>3, <1>4, <1>6, <2>1, <3>1, Zenon DEF Settled
    <2>2. CASE q \notin S
      <3>1. Settled(q) \/ AtWork(q)
        BY <1>0, Zenon DEF PermInv
      <3>2. perm'[q] = perm[q] /\ (q \in denied => q \in denied')
        BY <1>2, <2>2 DEF Protected
      <3>3. Settled(q) => Settled(q)'
        BY <1>3, <1>4, <3>2, Zenon DEF Settled
      <3>4. ASSUME NEW g \in Hooker, q \in Pages(hk[g]) PROVE g # h
        BY <2>2, <3>4, Zenon
      <3>5. AtWork(q) => AtWork(q)'
        BY <1>5, <3>4, Zenon DEF AtWork
      <3> QED
        BY <3>1, <3>3, <3>5
    <2> QED
      BY <2>1, <2>2
  <1>8. ASSUME met' = FALSE, NEW g \in Hooker PROVE hk'[g].at # "copy"
    <2>1. CASE g = h
      BY <2>1
    <2>2. CASE g # h
      <3>1. ~Patching(g)
        BY <1>8, <2>2, Zenon
      <3> QED
        BY <2>2, <3>1 DEF Patching
    <2> QED
      BY <2>1, <2>2
  <1>9. (~met => \A g \in Hooker : hk[g].at = "copy" =>
                   \A a \in BlockOf(hk[g]) : perm[Page(a)] = "rwx" \/ Page(a) \in denied)'
    <2>1. ~met' => met' = FALSE
      <3>1. met' \in BOOLEAN
        BY Zenon
      <3> QED
        BY <3>1, Zenon
    <2> QED
      BY <1>8, <2>1, Zenon
  <1>10. (DOMAIN perm = Mapped /\ denied \subseteq Mapped /\ \A q \in Mapped : perm[q] \in Perms)'
    BY <1>1 DEF Perms
  <1>11. (\A q \in Mapped : Settled(q) \/ AtWork(q))'
    BY <1>1, <1>7
  <1>12. (fault => Excuse)'
    <2>1. ~fault'
      OBVIOUS
    <2> QED
      BY <2>1
  <1> QED
    BY <1>9, <1>10, <1>11, <1>12, Zenon DEF PermInv

LEMMA OpenPagesStep ==
    ASSUME DobbyInv, ~fault, NEW h \in Hooker, Open(h)
    PROVE  DobbyInv'
  <1>0. PermInv /\ ModuleInv /\ HookInv /\ ArenaInv /\ BlockInv /\ MemInv
    BY DEF DobbyInv
  <1>1. hk[h].at = "open" /\ ProtectUnasked(Pages(hk[h]), "rwx")
    BY DEF Open, Pages
  <1>2. UNCHANGED <<pristine, entry, near, mem, code_arenas, entries, origin, patched, blocks,
                    raced, met, fault>>
    BY DEF Open
  <1>3. PICK f \in Func, v \in {"block", "entry"}, d \in Nat, b \in Nat, u \in {hk[h].words} :
            /\ Is(hk[h], "open", f, v, d, b, u)
            /\ hk[h].f = f /\ hk[h].what = v /\ hk[h].done = d /\ hk[h].addr = b /\ hk[h].words = u
            /\ Owner[f] = h /\ Len(u) \in Nat /\ Len(u) >= 1 /\ Len(u) \in 1..MaxBlock
            /\ d = 0 /\ (v = "entry" => b = entry[f] /\ Len(u) = Len(Trampoline(f)))
    BY <1>0, <1>1, Parts DEF Busy
  <1>4. PICK r, s : r = hk[h] /\ s = [r EXCEPT !.at = "copy"]
    OBVIOUS
  <1>5. hk' = [hk EXCEPT ![h] = s]
    BY <1>4 DEF Open
  <1>6. /\ Is(s, "copy", f, v, d, b, u)
        /\ s.at = "copy" /\ s.f = f /\ s.what = v /\ s.done = d /\ s.addr = b /\ s.words = u
    BY <1>3, <1>4 DEF Is, Fields
  <1>7. Carried(h, s)
    <2>1. d < Len(u) /\ "copy" \in Busy
      BY <1>3 DEF Busy
    <2> QED
      BY <1>3, <1>6, <2>1, CarriedIf
  <1>8. HookInv' /\ hk'[h] = s /\ \A g \in Hooker : g # h => hk'[g] = hk[g]
    BY <1>0, <1>2, <1>5, <1>7, HookKept
  <1>9. ModuleInv'
    BY <1>0, <1>2, ModuleKept
  <1>10. ArenaInv'
    BY <1>0, <1>2 DEF ArenaInv
  <1>11. BlockInv'
    <2>1. BlockOf(s) = BlockOf(hk[h])
      BY <1>3, <1>6 DEF BlockOf
    <2>2. f \notin entries /\ (v = "block" => blocks[f] = BlockOf(s))
      BY <1>0, <1>1, <1>3, <2>1 DEF BlockInv, Busy
    <2> QED
      BY <1>0, <1>1, <1>2, <1>3, <1>6, <1>8, <2>2, BlockKept DEF Busy
  <1>12. MemInv'
    <2>1. met' \in BOOLEAN /\ raced' \in BOOLEAN
      BY <1>0, <1>2, Zenon DEF MemInv
    <2> QED
      BY <1>0, <1>2, <1>6, <1>8, <2>1, MemKept
  <1>13. PermInv'
    BY <1>1, <1>2, <1>3, <1>6, <1>8, OpenPages
  <1> QED
    BY <1>8, <1>9, <1>10, <1>11, <1>12, <1>13 DEF DobbyInv

LEMMA CloseStep ==
    ASSUME DobbyInv, ~fault, NEW h \in Hooker, Close(h)
    PROVE  DobbyInv'
  <1>0. PermInv /\ ModuleInv /\ HookInv /\ ArenaInv /\ BlockInv /\ MemInv
    BY DEF DobbyInv
  <1>1. /\ hk[h].at = "close" /\ ProtectUnasked(Pages(hk[h]), "rx")
        /\ met' = (met \/ \E g \in Hooker \ {h} : Patching(g))
    BY DEF Close, Pages
  <1>2. UNCHANGED <<pristine, entry, near, mem, code_arenas, entries, origin, patched, blocks,
                    raced, fault>>
    BY DEF Close
  <1>3. PICK f \in Func, v \in {"block", "entry"}, d \in Nat, b \in Nat, u \in {hk[h].words} :
            /\ Is(hk[h], "close", f, v, d, b, u)
            /\ hk[h].f = f /\ hk[h].what = v /\ hk[h].done = d /\ hk[h].addr = b /\ hk[h].words = u
            /\ Owner[f] = h /\ Len(u) \in Nat /\ Len(u) >= 1 /\ Len(u) \in 1..MaxBlock
            /\ (v = "entry" => b = entry[f] /\ Len(u) = Len(Trampoline(f)))
    BY <1>0, <1>1, Parts DEF Busy
  <1>4. PICK x : x = IF v = "block" THEN "store" ELSE "add"
    OBVIOUS
  <1>5. PICK r, s : r = hk[h] /\ s = [r EXCEPT !.at = x]
    OBVIOUS
  <1>6. hk' = [hk EXCEPT ![h] = s]
    BY <1>3, <1>4, <1>5 DEF Close
  <1>7. /\ Is(s, x, f, v, d, b, u)
        /\ s.at = x /\ s.f = f /\ s.what = v /\ s.done = d /\ s.addr = b /\ s.words = u
    BY <1>3, <1>5 DEF Is, Fields
  <1>8. x \in {"store", "add"} /\ (x = "store" <=> v = "block") /\ (x = "add" <=> v = "entry")
    BY <1>4
  <1>9. Carried(h, s)
    <2>1. x \in Busy
      BY <1>8 DEF Busy
    <2> QED
      BY <1>3, <1>7, <1>8, <2>1, CarriedIf
  <1>10. HookInv' /\ hk'[h] = s /\ \A g \in Hooker : g # h => hk'[g] = hk[g]
    BY <1>0, <1>2, <1>6, <1>9, HookKept
  <1>11. ModuleInv'
    BY <1>0, <1>2, ModuleKept
  <1>12. ArenaInv'
    BY <1>0, <1>2 DEF ArenaInv
  <1>13. BlockInv'
    <2>1. BlockOf(s) = BlockOf(hk[h])
      BY <1>3, <1>7 DEF BlockOf
    <2>2. f \notin entries /\ (v = "block" => blocks[f] = BlockOf(s))
      BY <1>0, <1>1, <1>3, <2>1 DEF BlockInv, Busy
    <2> QED
      BY <1>0, <1>1, <1>2, <1>3, <1>7, <1>8, <1>10, <2>2, BlockKept DEF Busy
  <1>14. v = "entry" => f \in patched
    BY <1>0, <1>1, <1>3, Zenon DEF MemInv
  <1>15. MemInv'
    <2>1. met' \in BOOLEAN /\ raced' \in BOOLEAN
      BY <1>0, <1>1, <1>2, Zenon DEF MemInv
    <2> QED
      BY <1>0, <1>2, <1>7, <1>10, <1>14, <2>1, MemKept
  <1>16. PermInv'
    BY <1>1, <1>2, <1>3, <1>7, <1>8, <1>10, <1>14, ClosePages
  <1> QED
    BY <1>10, <1>11, <1>12, <1>13, <1>15, <1>16 DEF DobbyInv

LEMMA StoreOriginStep ==
    ASSUME DobbyInv, ~fault, NEW h \in Hooker, StoreOrigin(h)
    PROVE  DobbyInv'
  <1>0. PermInv /\ ModuleInv /\ HookInv /\ ArenaInv /\ BlockInv /\ MemInv
    BY DEF DobbyInv
  <1>1. hk[h].at = "store"
    BY DEF StoreOrigin
  <1>2. UNCHANGED <<pristine, entry, near, mem, perm, denied, code_arenas, entries, patched, blocks,
                    raced, met, fault>>
    BY DEF StoreOrigin
  <1>3. PICK f \in Func, v \in {"block", "entry"}, d \in Nat, b \in Nat, u \in {hk[h].words} :
            /\ Is(hk[h], "store", f, v, d, b, u)
            /\ hk[h].f = f /\ hk[h].what = v /\ hk[h].done = d /\ hk[h].addr = b /\ hk[h].words = u
            /\ Owner[f] = h
    BY <1>0, <1>1, Parts DEF Busy
  <1>4. PICK e \in Nat, t \in {Trampoline(f)} : e = entry[f] /\ t = Trampoline(f) /\ Len(t) \in 1..MaxBlock
    <2>1. entry[f] \in Nat /\ Len(Trampoline(f)) \in {3, 4}
      BY <1>0, ModuleFacts
    <2>2. 3 \in 1..MaxBlock /\ 4 \in 1..MaxBlock
      BY DEF MaxBlock
    <2> QED
      BY <2>1, <2>2
  <1>5. PICK r, s : r = hk[h] /\ s = [r EXCEPT !.at = "open", !.what = "entry", !.done = 0,
                                               !.addr = e, !.words = t]
    OBVIOUS
  <1>6. hk' = [hk EXCEPT ![h] = s] /\ origin' = [origin EXCEPT ![f] = b]
    BY <1>3, <1>4, <1>5 DEF StoreOrigin
  <1>7. /\ Is(s, "open", f, "entry", 0, e, t)
        /\ s.at = "open" /\ s.f = f /\ s.what = "entry"
    BY <1>3, <1>5 DEF Is, Fields
  <1>8. Carried(h, s)
    <2>1. "open" \in Busy /\ 0 \in Nat
      BY DEF Busy
    <2> QED
      BY <1>3, <1>4, <1>7, <2>1, CarriedIf
  <1>9. HookInv' /\ hk'[h] = s /\ \A g \in Hooker : g # h => hk'[g] = hk[g]
    BY <1>0, <1>2, <1>6, <1>8, HookKept
  <1>10. ModuleInv'
    BY <1>0, <1>2, ModuleKept
  <1>11. ArenaInv'
    BY <1>0, <1>2 DEF ArenaInv
  <1>12. BlockInv'
    <2>1. f \notin entries
      BY <1>0, <1>1, <1>3 DEF BlockInv, Busy
    <2> QED
      BY <1>0, <1>1, <1>2, <1>3, <1>7, <1>9, <2>1, BlockKept DEF Busy
  <1>13. MemInv'
    <2>1. (/\ DOMAIN pristine \subseteq DOMAIN mem
           /\ DOMAIN mem \subseteq DOMAIN pristine \cup UNION {blocks[g] : g \in Func}
           /\ entries \subseteq patched /\ patched \subseteq Func)'
      BY <1>0, <1>2, Zenon DEF MemInv
    <2>2. (origin = [g \in Func |-> origin[g]] /\ \A g \in Func : origin[g] \in Nat)'
      BY <1>0, <1>6 DEF MemInv
    <2>3. (fault \in BOOLEAN /\ met \in BOOLEAN /\ raced \in BOOLEAN)'
      BY <1>0, <1>2, Zenon DEF MemInv
    <2>4. (~fault => \A g \in Hooker : hk[g].at \in {"close", "add"} /\ hk[g].what = "entry" =>
                        hk[g].f \in patched)'
      BY <1>0, <1>2, <1>7, <1>9 DEF MemInv
    <2> QED
      BY <2>1, <2>2, <2>3, <2>4, Zenon DEF MemInv
  <1>14. PermInv'
    <2>1. Mapped' = Mapped
      BY <1>2 DEF Mapped, Page
    <2>2. ~fault'
      BY <1>2
    <2>3. ~Patching(h)
      BY <1>1 DEF Patching
    <2> QED
      BY <1>0, <1>2, <1>7, <1>9, <2>1, <2>2, <2>3, PermKept
  <1> QED
    BY <1>9, <1>10, <1>11, <1>12, <1>13, <1>14 DEF DobbyInv

LEMMA AddEntryStep ==
    ASSUME DobbyInv, ~fault, NEW h \in Hooker, AddEntry(h)
    PROVE  DobbyInv'
  <1>0. PermInv /\ ModuleInv /\ HookInv /\ ArenaInv /\ BlockInv /\ MemInv
    BY DEF DobbyInv
  <1>1. hk[h].at = "add" /\ hk' = [hk EXCEPT ![h] = Idle] /\ entries' = entries \cup {hk[h].f}
    BY DEF AddEntry
  <1>2. UNCHANGED <<pristine, entry, near, mem, perm, denied, code_arenas, origin, patched, blocks,
                    raced, met, fault>>
    BY DEF AddEntry
  <1>3. PICK f \in Func : hk[h].f = f /\ hk[h].what = "entry"
    BY <1>0, <1>1, Parts DEF Busy
  <1>4. f \in patched
    BY <1>0, <1>1, <1>3, Zenon DEF MemInv
  <1>5. HookInv' /\ hk'[h] = Idle /\ \A g \in Hooker : g # h => hk'[g] = hk[g]
    BY <1>0, <1>1, <1>2, HookKept
  <1>6. Idle.at = "idle" /\ "idle" \notin Busy
    BY DEF Idle, Busy
  <1>7. ModuleInv'
    BY <1>0, <1>2, ModuleKept
  <1>8. ArenaInv'
    BY <1>0, <1>2 DEF ArenaInv
  <1>9. BlockInv'
    <2>1. \A i : GivenOut(i)' = GivenOut(i)
      BY <1>2 DEF GivenOut
    <2>2. (/\ blocks = [g \in Func |-> blocks[g]]
           /\ \A g \in Func : blocks[g] = {} \/ \E i \in 1..Len(code_arenas) : blocks[g] \subseteq GivenOut(i)
           /\ \A g, k \in Func : g # k => blocks[g] \cap blocks[k] = {})'
      BY <1>0, <1>2, <2>1 DEF BlockInv
    <2>3. (\A k \in Func : blocks[k] # {} =>
              k \in entries \/ \E g \in Hooker : hk[g].at \in Busy \ {"read", "bump"} /\ hk[g].f = k)'
      <3> SUFFICES ASSUME NEW k \in Func, blocks[k] # {}, k \notin entries, k # f
                   PROVE  \E g \in Hooker : hk'[g].at \in Busy \ {"read", "bump"} /\ hk'[g].f = k
        BY <1>1, <1>2, <1>3
      <3>1. PICK g \in Hooker : hk[g].at \in Busy \ {"read", "bump"} /\ hk[g].f = k
        BY <1>0 DEF BlockInv
      <3>2. hk'[g] = hk[g]
        BY <1>3, <1>5, <3>1
      <3> QED
        BY <3>1, <3>2
    <2>4. (\A g \in Hooker : hk[g].at \in {"open", "copy", "close", "store"} /\ hk[g].what = "block" =>
              blocks[hk[g].f] = BlockOf(hk[g]))'
      BY <1>0, <1>2, <1>5, <1>6 DEF BlockInv, BlockOf
    <2>5. (\A g \in Hooker : hk[g].at \in Busy => hk[g].f \notin entries)'
      <3> SUFFICES ASSUME NEW g \in Hooker, hk'[g].at \in Busy PROVE hk'[g].f \notin entries'
        OBVIOUS
      <3>1. g # h /\ hk'[g] = hk[g]
        BY <1>5, <1>6
      <3>2. hk[g].f \notin entries
        BY <1>0, <3>1 DEF BlockInv
      <3>3. hk[h].at \in Busy
        BY <1>1 DEF Busy
      <3>4. hk[g].f # hk[h].f
        BY <1>0, <3>1, <3>3, OwnFunctions
      <3> QED
        BY <1>1, <3>1, <3>2, <3>4
    <2>6. (\A g \in Hooker : hk[g].at = "bump" =>
              /\ hk[g].done \in 1..Len(code_arenas)
              /\ hk[g].addr = code_arenas[hk[g].done].cursor
              /\ hk[g].addr + Len(hk[g].words) <= code_arenas[hk[g].done].addr + PageWords)'
      BY <1>0, <1>2, <1>5, <1>6 DEF BlockInv
    <2>7. (~raced => \A g, k \in Hooker : hk[g].at = "bump" /\ hk[k].at = "bump" => g = k)'
      BY <1>0, <1>2, <1>5, <1>6 DEF BlockInv
    <2> QED
      BY <2>2, <2>3, <2>4, <2>5, <2>6, <2>7 DEF BlockInv
  <1>10. MemInv'
    <2>1. (/\ DOMAIN pristine \subseteq DOMAIN mem
           /\ DOMAIN mem \subseteq DOMAIN pristine \cup UNION {blocks[g] : g \in Func}
           /\ patched \subseteq Func
           /\ origin = [g \in Func |-> origin[g]] /\ \A g \in Func : origin[g] \in Nat)'
      BY <1>0, <1>2, Zenon DEF MemInv
    <2>2. (entries \subseteq patched)'
      BY <1>0, <1>1, <1>2, <1>3, <1>4 DEF MemInv
    <2>3. (fault \in BOOLEAN /\ met \in BOOLEAN /\ raced \in BOOLEAN)'
      BY <1>0, <1>2, Zenon DEF MemInv
    <2>4. (~fault => \A g \in Hooker : hk[g].at \in {"close", "add"} /\ hk[g].what = "entry" =>
                        hk[g].f \in patched)'
      BY <1>0, <1>2, <1>5, <1>6 DEF MemInv
    <2> QED
      BY <2>1, <2>2, <2>3, <2>4, Zenon DEF MemInv
  <1>11. PermInv'
    <2>1. Mapped' = Mapped
      BY <1>2 DEF Mapped, Page
    <2>2. ~fault'
      BY <1>2
    <2>3. ~Patching(h)
      BY <1>1 DEF Patching
    <2> QED
      BY <1>0, <1>2, <1>5, <1>6, <2>1, <2>2, <2>3, PermKept
  <1> QED
    BY <1>5, <1>7, <1>8, <1>9, <1>10, <1>11 DEF DobbyInv

\* The addresses of the words that one memcpy writes.
LEMMA CopiedWords ==
    ASSUME NEW b \in Nat, NEW d \in Nat, NEW n \in Nat, NEW l \in Nat, n <= l
    PROVE  /\ {b + i - 1 : i \in (d + 1)..n} \subseteq b..(b + l - 1)
  OBVIOUS

LEMMA CopyStep ==
    ASSUME DobbyInv, ~fault, NEW h \in Hooker, Copy(h)
    PROVE  DobbyInv'
  <1>0. PermInv /\ ModuleInv /\ HookInv /\ ArenaInv /\ BlockInv /\ MemInv
    BY DEF DobbyInv
  <1>1. hk[h].at = "copy"
    BY DEF Copy
  <1>2. UNCHANGED <<pristine, entry, near, perm, denied, code_arenas, entries, origin, blocks,
                    raced, met>>
    BY DEF Copy
  <1>3. PICK f \in Func, v \in {"block", "entry"}, d \in Nat, b \in Nat, u \in {hk[h].words} :
            /\ Is(hk[h], "copy", f, v, d, b, u)
            /\ hk[h].f = f /\ hk[h].what = v /\ hk[h].done = d /\ hk[h].addr = b /\ hk[h].words = u
            /\ Owner[f] = h /\ Len(u) \in Nat /\ Len(u) >= 1 /\ Len(u) \in 1..MaxBlock
            /\ (v = "block" => d = 0) /\ d < Len(u)
            /\ (v = "entry" => b = entry[f] /\ Len(u) = Len(Trampoline(f)))
    BY <1>0, <1>1, Parts DEF Busy
  <1>4. PICK n \in Nat : n = (IF v = "block" THEN Len(u) ELSE d + 1) /\ n <= Len(u)
    BY <1>3
  <1>5. PICK to : to = {b + i - 1 : i \in (d + 1)..n}
    OBVIOUS
  <1>6. PICK writable \in BOOLEAN : writable = \A a \in to : perm[Page(a)] = "rwx"
    OBVIOUS
  <1>7. PICK x : x = IF n = Len(u) THEN "close" ELSE "copy"
    OBVIOUS
  <1>8. PICK r, s : r = hk[h] /\ s = [r EXCEPT !.done = n, !.at = x]
    OBVIOUS
  <1>9. /\ fault' = ~writable
        /\ mem' = IF ~writable THEN mem
                  ELSE [a \in DOMAIN mem \cup to |-> IF a \in to THEN u[a - b + 1] ELSE mem[a]]
        /\ hk' = [hk EXCEPT ![h] = [@ EXCEPT !.done = n, !.at = IF n = Len(u) THEN "close" ELSE "copy"]]
        /\ patched' = IF v = "entry" /\ writable /\ n = Len(u) THEN patched \cup {f} ELSE patched
    <2>1. n = IF hk[h].what = "block" THEN Len(hk[h].words) ELSE hk[h].done + 1
      BY <1>3, <1>4, Zenon
    <2>2. to = {hk[h].addr + i - 1 : i \in (hk[h].done + 1)..n}
      BY <1>3, <1>5, Zenon
    <2>3. /\ fault' = ~writable
          /\ mem' = IF ~writable THEN mem
                    ELSE [a \in DOMAIN mem \cup to |->
                            IF a \in to THEN hk[h].words[a - hk[h].addr + 1] ELSE mem[a]]
          /\ hk' = [hk EXCEPT ![h] = [@ EXCEPT !.done = n,
                                        !.at = IF n = Len(hk[h].words) THEN "close" ELSE "copy"]]
          /\ patched' = IF hk[h].what = "entry" /\ writable /\ n = Len(hk[h].words)
                        THEN patched \cup {hk[h].f} ELSE patched
      BY <1>6, <2>1, <2>2, Zenon DEF Copy
    <2> QED
      BY <1>3, <2>3, Zenon
  <1>10. hk' = [hk EXCEPT ![h] = s]
    BY <1>7, <1>8, <1>9, Zenon
  <1>11. /\ Is(s, x, f, v, n, b, u)
         /\ s.at = x /\ s.f = f /\ s.what = v /\ s.done = n /\ s.addr = b /\ s.words = u
    BY <1>3, <1>8 DEF Is, Fields
  <1>12. Carried(h, s)
    <2>1. x \in Busy /\ x \in {"copy", "close"}
      BY <1>7 DEF Busy
    <2>2. x = "copy" => n < Len(u) /\ v # "block"
      BY <1>3, <1>4, <1>7
    <2> QED
      BY <1>3, <1>11, <2>1, <2>2, CarriedIf
  <1>13. HookInv' /\ hk'[h] = s /\ \A g \in Hooker : g # h => hk'[g] = hk[g]
    BY <1>0, <1>2, <1>10, <1>12, HookKept
  <1>14. ModuleInv'
    BY <1>0, <1>2, ModuleKept
  <1>15. ArenaInv'
    BY <1>0, <1>2 DEF ArenaInv
  <1>16. BlockOf(s) = BlockOf(hk[h]) /\ BlockOf(s) = b..(b + Len(u) - 1)
    BY <1>3, <1>11 DEF BlockOf
  <1>17. f \notin entries /\ (v = "block" => blocks[f] = BlockOf(s))
    BY <1>0, <1>1, <1>3, <1>16 DEF BlockInv, Busy
  <1>18. BlockInv'
    <2>1. x \in {"copy", "close"}
      BY <1>7
    <2> QED
      BY <1>0, <1>1, <1>2, <1>3, <1>11, <1>13, <1>17, <2>1, BlockKept DEF Busy
  <1>19. to \subseteq BlockOf(s)
    BY <1>3, <1>4, <1>5, <1>16, CopiedWords
  <1>20. patched \subseteq patched' /\ patched' \subseteq patched \cup {f}
    BY <1>9
  <1>21. MemInv'
    <2>1. to \subseteq DOMAIN pristine \/ to \subseteq blocks[f]
      <3>1. CASE v = "block"
        BY <1>17, <1>19, <3>1
      <3>2. CASE v = "entry"
        <4>1. BlockOf(s) = Words(f)
          BY <1>3, <1>16, <3>2 DEF Words
        <4> QED
          BY <1>0, <1>19, <4>1, ModuleFacts
      <3> QED
        BY <3>1, <3>2
    <2>2. DOMAIN mem' = DOMAIN mem \/ DOMAIN mem' = DOMAIN mem \cup to
      BY <1>9
    <2>3. DOMAIN pristine \subseteq DOMAIN mem
          /\ DOMAIN mem \subseteq DOMAIN pristine \cup UNION {blocks[g] : g \in Func}
      BY <1>0, Zenon DEF MemInv
    <2>4. PICK D : D = UNION {blocks[g] : g \in Func}
      OBVIOUS
    <2>5. blocks[f] \subseteq D
      BY <2>4
    <2>6. DOMAIN pristine \subseteq DOMAIN mem' /\ DOMAIN mem' \subseteq DOMAIN pristine \cup D
      BY <2>1, <2>2, <2>3, <2>4, <2>5
    <2>7. (/\ DOMAIN pristine \subseteq DOMAIN mem
           /\ DOMAIN mem \subseteq DOMAIN pristine \cup UNION {blocks[g] : g \in Func})'
      BY <1>2, <2>4, <2>6
    <2>8. (/\ entries \subseteq patched /\ patched \subseteq Func
           /\ origin = [g \in Func |-> origin[g]] /\ \A g \in Func : origin[g] \in Nat)'
      <3>1. /\ entries \subseteq patched /\ patched \subseteq Func
            /\ origin = [g \in Func |-> origin[g]] /\ \A g \in Func : origin[g] \in Nat
        BY <1>0, Zenon DEF MemInv
      <3> QED
        BY <1>2, <1>20, <3>1
    <2>9. (fault \in BOOLEAN /\ met \in BOOLEAN /\ raced \in BOOLEAN)'
      <3>1. met \in BOOLEAN /\ raced \in BOOLEAN
        BY <1>0, Zenon DEF MemInv
      <3>2. fault' \in BOOLEAN
        BY <1>9, Zenon
      <3> QED
        BY <1>2, <3>1, <3>2, Zenon
    <2>10. (~fault => \A g \in Hooker : hk[g].at \in {"close", "add"} /\ hk[g].what = "entry" =>
                         hk[g].f \in patched)'
      <3> SUFFICES ASSUME ~fault', NEW g \in Hooker, hk'[g].at \in {"close", "add"}, hk'[g].what = "entry"
                   PROVE  hk'[g].f \in patched'
        BY Zenon
      <3>1. writable
        BY <1>9, Zenon
      <3>2. CASE g = h
        <4>1. n = Len(u) /\ v = "entry" /\ hk'[g].f = f
          BY <1>7, <1>11, <1>13, <3>2
        <4> QED
          BY <1>9, <3>1, <4>1
      <3>3. CASE g # h
        <4>1. hk'[g] = hk[g]
          BY <1>13, <3>3
        <4>2. hk[g].f \in patched
          BY <1>0, <4>1, Zenon DEF MemInv
        <4> QED
          BY <1>20, <4>1, <4>2
      <3> QED
        BY <3>2, <3>3
    <2> QED
      BY <2>7, <2>8, <2>9, <2>10, Zenon DEF MemInv
  <1>22. fault' => Excuse'
    <2> SUFFICES ASSUME ~writable, ~met PROVE Excuse'
      BY <1>2, <1>9, Zenon DEF Excuse
    <2>1. PICK a \in to : perm[Page(a)] # "rwx"
      BY <1>6, Zenon
    <2>2. a \in BlockOf(hk[h])
      BY <1>16, <1>19, <2>1
    <2>3. Page(a) \in denied /\ Page(a) \in Pages(hk[h])
      BY <1>1, <2>1, <2>2, CopyPages
    <2>4. Pages(hk[h])' = Pages(hk[h])
      BY <1>3, <1>11, <1>13 DEF Pages, PatchPages, Page
    <2>5. Patching(h)'
      BY <1>7, <1>11, <1>13 DEF Patching
    <2> QED
      BY <1>2, <2>3, <2>4, <2>5 DEF Excuse
  <1>23. PermInv'
    <2>1. Mapped' = Mapped
      BY <1>2 DEF Mapped, Page
    <2>2. x \in {"copy", "close"}
      BY <1>7
    <2> QED
      BY <1>0, <1>1, <1>2, <1>3, <1>11, <1>13, <1>20, <1>22, <2>1, <2>2, PermKept
  <1> QED
    BY <1>13, <1>14, <1>15, <1>18, <1>21, <1>23 DEF DobbyInv

LEMMA EmptyArena ==
    ASSUME NEW c \in Nat
    PROVE  \E z \in [addr : Nat, cursor : Nat] :
              z = [addr |-> c, cursor |-> c] /\ z.addr = c /\ z.cursor = c
  <1>1. PICK z : z = [addr |-> c, cursor |-> c]
    OBVIOUS
  <1>2. z \in [addr : Nat, cursor : Nat] /\ z.addr = c /\ z.cursor = c
    BY <1>1
  <1> QED
    BY <1>1, <1>2, Zenon

\* The arenas A continue those before, each on a page of its own, and the ith has room.
OwnPages(A) ==
    /\ \A j \in 1..Len(A) : /\ \E p \in Free : A[j].addr = p * PageWords
                            /\ A[j].addr <= A[j].cursor /\ A[j].cursor <= A[j].addr + PageWords
    /\ \A j, k \in 1..Len(A) : j # k => A[j].addr # A[k].addr
Roomy(A, i, size) ==
    /\ A \in Seq([addr : Nat, cursor : Nat])
    /\ Len(code_arenas) \in Nat /\ Len(A) \in Nat /\ Len(A) >= Len(code_arenas)
    /\ \A j \in 1..Len(code_arenas) : A[j] = code_arenas[j]
    /\ OwnPages(A)
    /\ i \in 1..Len(A) /\ A[i].cursor + size <= A[i].addr + PageWords
    /\ A[i].cursor \in Nat

LEMMA OldArena ==
    ASSUME ArenaInv, NEW size \in Nat, NEW i \in 1..Len(code_arenas),
           code_arenas[i].addr + PageWords - code_arenas[i].cursor >= size
    PROVE  Roomy(code_arenas, i, size)
  <1>1. Len(code_arenas) \in Nat /\ PageWords \in Nat
    BY MapAssumption DEF ArenaInv
  <1>2. code_arenas[i].addr \in Nat /\ code_arenas[i].cursor \in Nat
    BY ArenaFacts
  <1>3. PICK a \in Nat, c \in Nat : a = code_arenas[i].addr /\ c = code_arenas[i].cursor
    BY <1>2
  <1>4. c + size <= a + PageWords
    <2>1. a + PageWords - c >= size
      BY <1>3, Zenon
    <2> QED
      BY <1>1, <2>1
  <1>5. code_arenas \in Seq([addr : Nat, cursor : Nat]) /\ OwnPages(code_arenas)
    BY Zenon DEF ArenaInv, OwnPages
  <1>6. Len(code_arenas) >= Len(code_arenas)
    BY <1>1
  <1>7. code_arenas[i].cursor + size <= code_arenas[i].addr + PageWords /\ code_arenas[i].cursor \in Nat
    BY <1>3, <1>4
  <1> QED
    BY <1>1, <1>5, <1>6, <1>7, Zenon DEF Roomy

LEMMA FreshArena ==
    ASSUME ArenaInv, NEW size \in Nat, size <= MaxBlock, NEW l \in Nat, l = Len(code_arenas),
           NEW p \in Free, NEW fresh \in Nat, fresh = p * PageWords,
           \A j \in 1..l : code_arenas[j].addr # fresh,
           NEW z \in [addr : Nat, cursor : Nat], z.addr = fresh, z.cursor = fresh,
           NEW A, A = Append(code_arenas, z)
    PROVE  Roomy(A, l + 1, size)
  <1>0. /\ A \in Seq([addr : Nat, cursor : Nat]) /\ Len(A) = l + 1 /\ A[l + 1] = z
        /\ \A j \in 1..l : A[j] = code_arenas[j]
    <2> DEFINE T == [addr : Nat, cursor : Nat]
    <2>1. code_arenas \in Seq(T) /\ z \in T
      BY Zenon DEF ArenaInv
    <2> HIDE DEF T
    <2>2. A \in Seq(T) /\ Len(A) = l + 1 /\ A[l + 1] = z /\ \A j \in 1..l : A[j] = code_arenas[j]
      BY <2>1
    <2> QED
      BY <2>2, Zenon DEF T
  <1>1. PageWords \in Nat /\ PageWords >= 34 /\ size <= 34
    BY MapAssumption DEF MaxBlock
  <1>2. fresh + size <= fresh + PageWords /\ fresh <= fresh /\ fresh <= fresh + PageWords
    BY <1>1
  <1>3. \A j \in 1..(l + 1) : j = l + 1 \/ j \in 1..l
    OBVIOUS
  <1>4. ASSUME NEW j \in 1..(l + 1)
        PROVE  /\ \E q \in Free : A[j].addr = q * PageWords
               /\ A[j].addr <= A[j].cursor /\ A[j].cursor <= A[j].addr + PageWords
    <2>1. CASE j = l + 1
      BY <1>0, <1>2, <2>1, Zenon
    <2>2. CASE j \in 1..l
      <3>1. /\ \E q \in Free : code_arenas[j].addr = q * PageWords
            /\ code_arenas[j].addr <= code_arenas[j].cursor
            /\ code_arenas[j].cursor <= code_arenas[j].addr + PageWords
        BY <2>2, ArenaFacts
      <3> QED
        BY <1>0, <2>2, <3>1, Zenon
    <2> QED
      BY <1>3, <2>1, <2>2
  <1>5. ASSUME NEW j \in 1..(l + 1), NEW k \in 1..(l + 1), j # k
        PROVE  A[j].addr # A[k].addr
    <2>1. \A x, y \in 1..l : x # y => code_arenas[x].addr # code_arenas[y].addr
      BY Zenon DEF ArenaInv
    <2>2. CASE j \in 1..l /\ k \in 1..l
      BY <1>0, <1>5, <2>1, <2>2, Zenon
    <2>3. CASE j = l + 1 /\ k \in 1..l
      BY <1>0, <2>3, Zenon
    <2>4. CASE j \in 1..l /\ k = l + 1
      BY <1>0, <2>4, Zenon
    <2> QED
      BY <1>3, <1>5, <2>2, <2>3, <2>4
  <1>6. l + 1 \in Nat /\ l + 1 >= l /\ l + 1 \in 1..(l + 1)
    OBVIOUS
  <1>7. OwnPages(A)
    BY <1>0, <1>4, <1>5, Zenon DEF OwnPages
  <1> QED
    BY <1>0, <1>2, <1>6, <1>7, Zenon DEF Roomy

\* The page of a new arena is not one of those mapped before.
LEMMA NewPage ==
    ASSUME DobbyInv, NEW h \in Hooker, NEW p \in Free, p \notin DOMAIN perm, NewArena(p),
           NEW r, hk'[h] = r, hk[h].at \notin {"copy", "close"}, r.at \notin {"copy", "close"},
           \A g \in Hooker : g # h => hk'[g] = hk[g], ~fault,
           UNCHANGED <<pristine, entry, near, patched, blocks, met, fault>>,
           NEW l \in Nat, l = Len(code_arenas), Len(code_arenas') = l + 1,
           \A j \in 1..l : code_arenas'[j] = code_arenas[j],
           code_arenas'[l + 1].addr = p * PageWords
    PROVE  PermInv'
  <1>0. PermInv /\ ModuleInv /\ HookInv /\ ArenaInv /\ BlockInv
    BY DEF DobbyInv
  <1>1. DOMAIN perm = Mapped /\ (\A q \in Mapped : perm[q] \in Perms) /\ denied \subseteq Mapped
    BY <1>0, Zenon DEF PermInv
  <1>2. Page(p * PageWords) = p
    <2>1. p \in Nat /\ PageWords \in Nat \ {0}
      BY MapAssumption DEF MaxBlock
    <2>2. PICK b \in Nat : b = p * PageWords /\ b < b + PageWords /\ b <= b
      BY <2>1
    <2> QED
      BY <2>2, ArenaPage
  <1>3. Mapped' = Mapped \cup {p}
    <2>1. PICK old : old = {Page(code_arenas[i].addr) : i \in 1..l}
      OBVIOUS
    <2>2. {Page(code_arenas'[i].addr) : i \in 1..(l + 1)} = old \cup {p}
      <3>1. \A i \in 1..(l + 1) : i = l + 1 \/ i \in 1..l
        OBVIOUS
      <3>2. l + 1 \in 1..(l + 1) /\ \A i \in 1..l : i \in 1..(l + 1)
        OBVIOUS
      <3>3. Page(code_arenas'[l + 1].addr) = p
        BY <1>2
      <3>4. \A i \in 1..l : Page(code_arenas'[i].addr) = Page(code_arenas[i].addr)
        OBVIOUS
      <3> QED
        BY <2>1, <3>1, <3>2, <3>3, <3>4
    <2>3. Mapped' = {Page(a) : a \in DOMAIN pristine} \cup Foreign
                       \cup {Page(code_arenas'[i].addr) : i \in 1..(l + 1)}
      BY DEF Mapped, Page
    <2> QED
      BY <2>1, <2>2, <2>3 DEF Mapped
  <1>4. PICK allowed \in BOOLEAN :
            /\ perm' = [q \in Mapped \cup {p} |->
                            IF q # p THEN perm[q] ELSE IF allowed THEN "rx" ELSE "none"]
            /\ denied' = IF allowed THEN denied ELSE denied \cup {p}
    BY <1>1 DEF NewArena
  <1>5. \A q : Before(q)' = Before(q)
    BY <1>0, ModuleKept
  <1>6. \A q : PageBehind(q) => PageBehind(q)'
    BY BehindKept
  <1>7. ASSUME NEW g \in Hooker
        PROVE  Patching(g)' = Patching(g) /\ (Patching(g) => Pages(hk[g])' = Pages(hk[g]))
    BY DEF Patching, Pages, PatchPages, Page
  <1>8. (DOMAIN perm = Mapped /\ denied \subseteq Mapped /\ \A q \in Mapped : perm[q] \in Perms)'
    <2>1. "rx" \in Perms /\ "none" \in Perms
      BY DEF Perms
    <2>2. DOMAIN perm' = Mapped \cup {p} /\ \A q \in Mapped \cup {p} : perm'[q] \in Perms
      BY <1>1, <1>4, <2>1
    <2>3. denied' \subseteq Mapped \cup {p}
      BY <1>1, <1>4
    <2> QED
      BY <1>3, <2>2, <2>3 DEF Perms
  <1>9. ASSUME NEW q \in Mapped' PROVE Settled(q)' \/ AtWork(q)'
    <2>1. CASE q = p
      <3>1. Before(q) = "rx"
        BY <1>0, <2>1, BeforeArena
      <3> QED
        BY <1>4, <1>5, <2>1, <3>1 DEF Settled
    <2>2. CASE q # p
      <3>1. q \in Mapped /\ perm'[q] = perm[q] /\ (q \in denied => q \in denied')
        BY <1>3, <1>4, <2>2
      <3>2. Settled(q) \/ AtWork(q)
        BY <1>0, <3>1, Zenon DEF PermInv
      <3>3. Settled(q) => Settled(q)'
        BY <1>5, <1>6, <3>1, Zenon DEF Settled
      <3>4. AtWork(q) => AtWork(q)'
        BY <1>7, Zenon DEF AtWork
      <3> QED
        BY <3>2, <3>3, <3>4
    <2> QED
      BY <2>1, <2>2
  <1>10. ASSUME ~met, NEW g \in Hooker, hk'[g].at = "copy", NEW a \in BlockOf(hk[g])'
         PROVE  perm'[Page(a)] = "rwx" \/ Page(a) \in denied'
    <2>1. g # h /\ hk'[g] = hk[g] /\ hk[g].at = "copy"
      BY <1>10
    <2>2. a \in BlockOf(hk[g])
      BY <1>10, <2>1 DEF BlockOf
    <2>3. (perm[Page(a)] = "rwx" \/ Page(a) \in denied) /\ Page(a) \in Mapped
      BY <1>10, <2>1, <2>2, CopyPages
    <2> QED
      BY <1>1, <1>4, <2>3
  <1>11. (~met => \A g \in Hooker : hk[g].at = "copy" =>
                    \A a \in BlockOf(hk[g]) : perm[Page(a)] = "rwx" \/ Page(a) \in denied)'
    BY <1>10 DEF Page
  <1> QED
    BY <1>8, <1>9, <1>11, Zenon DEF PermInv

LEMMA AllocReadStep ==
    ASSUME DobbyInv, ~fault, NEW h \in Hooker, AllocRead(h)
    PROVE  DobbyInv'
  <1>0. PermInv /\ ModuleInv /\ HookInv /\ ArenaInv /\ BlockInv /\ MemInv
    BY DEF DobbyInv
  <1>1. hk[h].at = "read" /\ raced' = (raced \/ \E g \in Hooker \ {h} : hk[g].at = "bump")
    BY DEF AllocRead
  <1>2. UNCHANGED <<pristine, entry, near, mem, entries, origin, patched, blocks, met, fault>>
    BY DEF AllocRead
  <1>3. PICK f \in Func, v \in {"block", "entry"}, d \in Nat, b \in Nat, u \in {hk[h].words} :
            /\ Is(hk[h], "read", f, v, d, b, u)
            /\ hk[h].f = f /\ hk[h].what = v /\ hk[h].done = d /\ hk[h].addr = b /\ hk[h].words = u
            /\ Owner[f] = h /\ Len(u) \in Nat /\ Len(u) >= 1 /\ Len(u) <= MaxBlock
            /\ Len(u) \in 1..MaxBlock /\ v = "block"
    BY <1>0, <1>1, Parts DEF Busy
  <1>4. PICK l \in Nat : l = Len(code_arenas) /\ DOMAIN code_arenas = 1..l
    BY <1>0 DEF ArenaInv
  <1> DEFINE got(i) == [hk EXCEPT ![h] = [@ EXCEPT !.at = "bump", !.done = i,
                                                   !.addr = code_arenas'[i].cursor]]
  <1>5. \/ \E i \in 1..l : /\ code_arenas[i].addr + PageWords - code_arenas[i].cursor >= Len(u)
                            /\ UNCHANGED <<code_arenas, perm, denied>> /\ hk' = got(i)
        \/ \E p \in Free : p \notin DOMAIN perm /\ NewArena(p) /\ hk' = got(l + 1)
    BY <1>3, <1>4 DEF AllocRead
  <1> HIDE DEF got
  <1>6. \E i : /\ Roomy(code_arenas', i, Len(u)) /\ hk' = got(i)
              /\ \/ UNCHANGED <<code_arenas, perm, denied>>
                 \/ \E p \in Free : /\ p \notin DOMAIN perm /\ NewArena(p)
                                    /\ Len(code_arenas') = l + 1
                                    /\ code_arenas'[l + 1].addr = p * PageWords
    <2>1. ASSUME NEW i \in 1..l, code_arenas[i].addr + PageWords - code_arenas[i].cursor >= Len(u),
                 UNCHANGED <<code_arenas, perm, denied>>
          PROVE  Roomy(code_arenas', i, Len(u))
      <3>1. Roomy(code_arenas, i, Len(u))
        BY <1>0, <1>3, <1>4, <2>1, OldArena
      <3> QED
        BY <2>1, <3>1, Zenon DEF Roomy, OwnPages
    <2>2. ASSUME NEW p \in Free, p \notin DOMAIN perm, NewArena(p)
          PROVE  /\ Roomy(code_arenas', l + 1, Len(u)) /\ Len(code_arenas') = l + 1
                 /\ code_arenas'[l + 1].addr = p * PageWords
      <3>1. PICK fresh \in Nat : fresh = p * PageWords
        <4>1. p \in Nat /\ PageWords \in Nat
          BY MapAssumption
        <4> QED
          BY <4>1
      <3>2. PICK z \in [addr : Nat, cursor : Nat] :
                z = [addr |-> fresh, cursor |-> fresh] /\ z.addr = fresh /\ z.cursor = fresh
        BY EmptyArena, Zenon
      <3>3. code_arenas' = Append(code_arenas, z)
        BY <2>2, <3>1, <3>2, Zenon DEF NewArena
      <3>4. \A j \in 1..l : code_arenas[j].addr # fresh
        <4> SUFFICES ASSUME NEW j \in 1..l, code_arenas[j].addr = fresh PROVE FALSE
          OBVIOUS
        <4>1. Page(fresh) \in Mapped
          BY <1>4 DEF Mapped
        <4>2. PageWords \in Nat \ {0}
          BY MapAssumption DEF MaxBlock
        <4>3. fresh <= fresh /\ fresh < fresh + PageWords
          BY <4>2
        <4>4. Page(fresh) = p
          BY <3>1, <4>3, ArenaPage
        <4>5. DOMAIN perm = Mapped
          BY <1>0, Zenon DEF PermInv
        <4> QED
          BY <2>2, <4>1, <4>4, <4>5
      <3>5. PICK A : A = Append(code_arenas, z)
        OBVIOUS
      <3>6. Roomy(A, l + 1, Len(u))
        BY <1>0, <1>3, <1>4, <3>1, <3>2, <3>4, <3>5, FreshArena
      <3>7. code_arenas' = A
        BY <3>3, <3>5, Zenon
      <3>8. Roomy(code_arenas', l + 1, Len(u))
        BY <1>2, <3>6, <3>7, Zenon DEF Roomy, OwnPages
      <3>9. Len(code_arenas') = l + 1 /\ code_arenas'[l + 1] = z
        <4>1. code_arenas \in Seq([addr : Nat, cursor : Nat])
          BY <1>0, Zenon DEF ArenaInv
        <4> QED
          BY <1>4, <3>2, <3>3, <4>1
      <3> QED
        BY <3>1, <3>2, <3>8, <3>9
    <2> QED
      BY <1>5, <2>1, <2>2, Zenon
  <1>7. PICK i, A : Roomy(A, i, Len(u)) /\ A = code_arenas' /\ hk' = got(i)
    BY <1>6, Zenon
  <1>8. PICK c \in Nat : c = A[i].cursor
    BY <1>7, Zenon DEF Roomy
  <1>9. PICK r, s : r = hk[h] /\ s = [r EXCEPT !.at = "bump", !.done = i, !.addr = c]
    OBVIOUS
  <1>10. hk' = [hk EXCEPT ![h] = s]
    BY <1>7, <1>8, <1>9, Zenon DEF got
  <1>11. /\ Is(s, "bump", f, v, i, c, u)
         /\ s.at = "bump" /\ s.f = f /\ s.what = v /\ s.done = i /\ s.addr = c /\ s.words = u
    BY <1>3, <1>9 DEF Is, Fields
  <1>12. /\ Len(code_arenas) \in Nat /\ Len(A) \in Nat /\ Len(A) >= Len(code_arenas)
         /\ \A j \in 1..Len(code_arenas) : A[j] = code_arenas[j]
         /\ OwnPages(A)
         /\ i \in 1..Len(A) /\ c + Len(u) <= A[i].addr + PageWords
         /\ A \in Seq([addr : Nat, cursor : Nat])
    BY <1>7, <1>8, Zenon DEF Roomy
  <1>13. Carried(h, s)
    <2>1. "bump" \in Busy /\ i \in Nat
      BY <1>12 DEF Busy
    <2> QED
      BY <1>3, <1>11, <2>1, CarriedIf
  <1>14. HookInv' /\ hk'[h] = s /\ \A g \in Hooker : g # h => hk'[g] = hk[g]
    BY <1>0, <1>2, <1>10, <1>13, HookKept
  <1>15. ModuleInv'
    BY <1>0, <1>2, ModuleKept
  <1>16. ArenaInv'
    BY <1>7, <1>12, Zenon DEF ArenaInv, OwnPages
  <1>17. MemInv'
    <2>1. met' \in BOOLEAN /\ raced' \in BOOLEAN
      BY <1>0, <1>1, <1>2, Zenon DEF MemInv
    <2> QED
      BY <1>0, <1>2, <1>11, <1>14, <2>1, MemKept
  <1>18. PermInv'
    <2>0. hk[h].at \notin {"copy", "close"} /\ s.at \notin {"copy", "close"}
      BY <1>1, <1>11
    <2>1. CASE UNCHANGED <<code_arenas, perm, denied>>
      <3>1. Mapped' = Mapped
        BY <1>2, <2>1 DEF Mapped, Page
      <3>2. ~fault' /\ ~Patching(h)
        BY <1>2, <2>0 DEF Patching
      <3> QED
        BY <1>0, <1>2, <1>14, <2>0, <2>1, <3>1, <3>2, PermKept
    <2>2. ASSUME NEW p \in Free, p \notin DOMAIN perm, NewArena(p), Len(code_arenas') = l + 1,
                 code_arenas'[l + 1].addr = p * PageWords
          PROVE  PermInv'
      <3>1. \A j \in 1..l : code_arenas'[j] = code_arenas[j]
        BY <1>4, <1>7, <1>12
      <3> QED
        BY <1>2, <1>4, <1>14, <2>0, <2>2, <3>1, NewPage
    <2> QED
      BY <1>6, <2>1, <2>2, Zenon
  <1>19. BlockInv'
    <2>1. ASSUME NEW j \in 1..Len(code_arenas)
          PROVE  j \in 1..Len(A) /\ code_arenas'[j] = code_arenas[j] /\ GivenOut(j)' = GivenOut(j)
      <3>1. j \in 1..Len(A)
        BY <1>12
      <3>2. code_arenas'[j] = code_arenas[j]
        BY <1>7, <1>12, Zenon
      <3> QED
        BY <3>1, <3>2 DEF GivenOut
    <2>2. (/\ blocks = [g \in Func |-> blocks[g]]
           /\ \A g, k \in Func : g # k => blocks[g] \cap blocks[k] = {})'
      BY <1>0, <1>2, Zenon DEF BlockInv
    <2>3. (\A g \in Func : blocks[g] = {} \/ \E j \in 1..Len(code_arenas) : blocks[g] \subseteq GivenOut(j))'
      <3> SUFFICES ASSUME NEW g \in Func, blocks[g] # {}
                   PROVE  \E j \in 1..Len(A) : blocks[g] \subseteq GivenOut(j)'
        BY <1>2, <1>7
      <3>1. PICK j \in 1..Len(code_arenas) : blocks[g] \subseteq GivenOut(j)
        BY <1>0 DEF BlockInv
      <3> QED
        BY <2>1, <3>1
    <2>4. (\A k \in Func : blocks[k] # {} =>
              k \in entries \/ \E g \in Hooker : hk[g].at \in Busy \ {"read", "bump"} /\ hk[g].f = k)'
      <3> SUFFICES ASSUME NEW k \in Func, blocks[k] # {}, k \notin entries
                   PROVE  \E g \in Hooker : hk'[g].at \in Busy \ {"read", "bump"} /\ hk'[g].f = k
        BY <1>2
      <3>1. PICK g \in Hooker : hk[g].at \in Busy \ {"read", "bump"} /\ hk[g].f = k
        BY <1>0 DEF BlockInv
      <3>2. hk'[g] = hk[g]
        BY <1>1, <1>14, <3>1
      <3> QED
        BY <3>1, <3>2
    <2>5. (\A g \in Hooker : hk[g].at \in {"open", "copy", "close", "store"} /\ hk[g].what = "block" =>
              blocks[hk[g].f] = BlockOf(hk[g]))'
      BY <1>0, <1>2, <1>11, <1>14 DEF BlockInv, BlockOf
    <2>6. (\A g \in Hooker : hk[g].at \in Busy => hk[g].f \notin entries)'
      <3>1. \A g \in Hooker : hk[g].at \in Busy => hk[g].f \notin entries
        BY <1>0, Zenon DEF BlockInv
      <3>2. hk[h].at \in Busy
        BY <1>1 DEF Busy
      <3>3. f \notin entries
        BY <1>3, <3>1, <3>2
      <3> QED
        BY <1>2, <1>11, <1>14, <3>1, <3>3
    <2>7. (\A g \in Hooker : hk[g].at = "bump" =>
              /\ hk[g].done \in 1..Len(code_arenas)
              /\ hk[g].addr = code_arenas[hk[g].done].cursor
              /\ hk[g].addr + Len(hk[g].words) <= code_arenas[hk[g].done].addr + PageWords)'
      <3> SUFFICES ASSUME NEW g \in Hooker, hk'[g].at = "bump"
                   PROVE  /\ hk'[g].done \in 1..Len(A)
                          /\ hk'[g].addr = A[hk'[g].done].cursor
                          /\ hk'[g].addr + Len(hk'[g].words) <= A[hk'[g].done].addr + PageWords
        BY <1>7, Zenon
      <3>1. CASE g = h
        BY <1>8, <1>11, <1>12, <1>14, <3>1, Zenon
      <3>2. CASE g # h
        <4>1. hk'[g] = hk[g]
          BY <1>14, <3>2
        <4>2. /\ hk[g].done \in 1..Len(code_arenas)
              /\ hk[g].addr = code_arenas[hk[g].done].cursor
              /\ hk[g].addr + Len(hk[g].words) <= code_arenas[hk[g].done].addr + PageWords
          BY <1>0, <4>1, Zenon DEF BlockInv
        <4>3. hk[g].done \in 1..Len(A) /\ A[hk[g].done] = code_arenas[hk[g].done]
          BY <1>7, <2>1, <4>2, Zenon
        <4> QED
          BY <4>1, <4>2, <4>3, Zenon
      <3> QED
        BY <3>1, <3>2
    <2>8. (~raced => \A g, k \in Hooker : hk[g].at = "bump" /\ hk[k].at = "bump" => g = k)'
      <3> SUFFICES ASSUME ~raced', NEW g \in Hooker, hk'[g].at = "bump" PROVE g = h
        BY Zenon
      <3>1. \A k \in Hooker \ {h} : hk[k].at # "bump"
        BY <1>1, Zenon
      <3> QED
        BY <1>14, <3>1
    <2> QED
      BY <2>2, <2>3, <2>4, <2>5, <2>6, <2>7, <2>8, Zenon DEF BlockInv
  <1> QED
    BY <1>14, <1>15, <1>16, <1>17, <1>18, <1>19 DEF DobbyInv

\* One arena's cursor moves on.
LEMMA CursorMoved ==
    ASSUME ArenaInv, NEW i \in 1..Len(code_arenas), NEW n \in Nat,
           code_arenas[i].cursor + n <= code_arenas[i].addr + PageWords,
           code_arenas' = [code_arenas EXCEPT ![i].cursor = @ + n]
    PROVE  /\ ArenaInv' /\ Len(code_arenas') = Len(code_arenas)
           /\ \A j \in 1..Len(code_arenas) :
                /\ code_arenas'[j].addr = code_arenas[j].addr
                /\ j # i => code_arenas'[j].cursor = code_arenas[j].cursor
           /\ code_arenas'[i].cursor = code_arenas[i].cursor + n
  <1> DEFINE T == [addr : Nat, cursor : Nat]
  <1>1. PICK l \in Nat : l = Len(code_arenas) /\ DOMAIN code_arenas = 1..l
    <2>1. code_arenas \in Seq(T)
      BY Zenon DEF ArenaInv
    <2> HIDE DEF T
    <2> QED
      BY <2>1, InSeq, Zenon
  <1>2. \A j \in 1..l : /\ code_arenas[j] \in T
                        /\ code_arenas[j].addr \in Nat /\ code_arenas[j].cursor \in Nat
                        /\ \E p \in Free : code_arenas[j].addr = p * PageWords
                        /\ code_arenas[j].addr <= code_arenas[j].cursor
                        /\ code_arenas[j].cursor <= code_arenas[j].addr + PageWords
    BY <1>1, ArenaFacts
  <1>3. PICK c : c = [code_arenas[i] EXCEPT !.cursor = @ + n]
    OBVIOUS
  <1>4. code_arenas' = [code_arenas EXCEPT ![i] = c]
    BY <1>3
  <1>5. c \in T /\ c.addr = code_arenas[i].addr /\ c.cursor = code_arenas[i].cursor + n
    BY <1>1, <1>2, <1>3
  <1>6. code_arenas \in Seq(T)
    BY Zenon DEF ArenaInv
  <1> HIDE DEF T
  <1>7. code_arenas' \in Seq(T) /\ Len(code_arenas') = l /\ code_arenas'[i] = c
        /\ \A j \in 1..l : j # i => code_arenas'[j] = code_arenas[j]
    BY <1>1, <1>4, <1>5, <1>6
  <1>8. PICK a \in Nat, d \in Nat : a = code_arenas[i].addr /\ d = code_arenas[i].cursor
    BY <1>1, <1>2
  <1>9. PageWords \in Nat /\ a <= d /\ d + n <= a + PageWords /\ a <= d + n
    BY <1>1, <1>2, <1>8, MapAssumption
  <1>10. ASSUME NEW j \in 1..l
         PROVE  /\ \E p \in Free : code_arenas'[j].addr = p * PageWords
                /\ code_arenas'[j].addr <= code_arenas'[j].cursor
                /\ code_arenas'[j].cursor <= code_arenas'[j].addr + PageWords
    <2>1. CASE j = i
      <3>1. c.addr = a /\ c.cursor = d + n
        BY <1>5, <1>8
      <3>2. \E p \in Free : a = p * PageWords
        BY <1>1, <1>2, <1>8, Zenon
      <3> QED
        BY <1>7, <1>9, <2>1, <3>1, <3>2
    <2>2. CASE j # i
      <3>1. code_arenas'[j] = code_arenas[j]
        BY <1>7, <2>2, Zenon
      <3> QED
        BY <1>2, <3>1, Zenon
    <2> QED
      BY <2>1, <2>2
  <1>11. \A j, k \in 1..l : j # k => code_arenas'[j].addr # code_arenas'[k].addr
    <2>1. \A j, k \in 1..l : j # k => code_arenas[j].addr # code_arenas[k].addr
      BY <1>1, Zenon DEF ArenaInv
    <2>2. \A j \in 1..l : code_arenas'[j].addr = code_arenas[j].addr
      BY <1>5, <1>7, Zenon
    <2> QED
      BY <2>1, <2>2, Zenon
  <1>12. ArenaInv'
    BY <1>7, <1>10, <1>11, Zenon DEF ArenaInv, T
  <1> QED
    BY <1>1, <1>5, <1>7, <1>12, Zenon

\* What lies behind the cursor of an arena has not been given out.
LEMMA BehindCursor ==
    ASSUME ArenaInv, NEW i \in 1..Len(code_arenas), NEW j \in 1..Len(code_arenas),
           NEW n \in Nat, code_arenas[i].cursor + n <= code_arenas[i].addr + PageWords,
           NEW x \in code_arenas[i].cursor..(code_arenas[i].cursor + n - 1)
    PROVE  x \notin GivenOut(j)
  <1>1. PICK a \in Nat, c \in Nat, b \in Nat, e \in Nat :
            /\ a = code_arenas[i].addr /\ c = code_arenas[i].cursor
            /\ b = code_arenas[j].addr /\ e = code_arenas[j].cursor
    BY ArenaFacts
  <1>2. PICK p \in Free, q \in Free : a = p * PageWords /\ b = q * PageWords
    BY <1>1, ArenaFacts
  <1>3. PageWords \in Nat /\ a <= c /\ e <= b + PageWords /\ p \in Nat /\ q \in Nat
    BY <1>1, ArenaFacts, MapAssumption
  <1>4. x \in Nat /\ c <= x /\ x < c + n /\ c + n <= a + PageWords
    BY <1>1
  <1>5. SUFFICES ASSUME x \in b..(e - 1) PROVE FALSE
    BY <1>1 DEF GivenOut
  <1>6. b <= x /\ x < e
    BY <1>4, <1>5
  <1>7. CASE i = j
    BY <1>1, <1>4, <1>6, <1>7
  <1>8. CASE p < q
    <2>1. a + PageWords <= b
      BY <1>2, <1>3, <1>8, ArenasApart
    <2> QED
      BY <1>3, <1>4, <1>6, <2>1
  <1>9. CASE q < p
    <2>1. b + PageWords <= a
      BY <1>2, <1>3, <1>9, ArenasApart
    <2> QED
      BY <1>3, <1>4, <1>6, <2>1
  <1>10. i # j => p # q
    <2>1. i # j => a # b
      BY <1>1, Zenon DEF ArenaInv
    <2> QED
      BY <1>2, <2>1
  <1> QED
    BY <1>3, <1>7, <1>8, <1>9, <1>10

LEMMA AllocBumpStep ==
    ASSUME DobbyInv, ~raced, ~fault, NEW h \in Hooker, AllocBump(h)
    PROVE  DobbyInv'
  <1>0. PermInv /\ ModuleInv /\ HookInv /\ ArenaInv /\ BlockInv /\ MemInv
    BY DEF DobbyInv
  <1>1. hk[h].at = "bump"
    BY DEF AllocBump
  <1>2. UNCHANGED <<pristine, entry, near, mem, perm, denied, entries, origin, patched, raced, met,
                    fault>>
    BY DEF AllocBump
  <1>3. PICK f \in Func, v \in {"block", "entry"}, i \in Nat, b \in Nat, u \in {hk[h].words} :
            /\ Is(hk[h], "bump", f, v, i, b, u)
            /\ hk[h].f = f /\ hk[h].what = v /\ hk[h].done = i /\ hk[h].addr = b /\ hk[h].words = u
            /\ Owner[f] = h /\ Len(u) \in Nat /\ Len(u) >= 1
            /\ Len(u) \in 1..MaxBlock /\ v = "block"
    BY <1>0, <1>1, Parts DEF Busy
  <1>4. PICK n \in Nat : n = Len(u)
    BY <1>3
  <1>5. PICK r, s, blk : /\ r = hk[h] /\ s = [r EXCEPT !.at = "open", !.done = 0]
                         /\ blk = b..(b + n - 1)
    OBVIOUS
  <1>6. /\ code_arenas' = [code_arenas EXCEPT ![i].cursor = @ + n]
        /\ blocks' = [blocks EXCEPT ![f] = blk]
        /\ hk' = [hk EXCEPT ![h] = s]
    BY <1>3, <1>4, <1>5, Zenon DEF AllocBump
  <1>7. /\ Is(s, "open", f, v, 0, b, u)
        /\ s.at = "open" /\ s.f = f /\ s.what = v /\ s.done = 0 /\ s.addr = b /\ s.words = u
    BY <1>3, <1>5 DEF Is, Fields
  <1>8. Carried(h, s)
    <2>1. "open" \in Busy /\ 0 \in Nat
      BY DEF Busy
    <2> QED
      BY <1>3, <1>7, <2>1, CarriedIf
  <1>9. HookInv' /\ hk'[h] = s /\ \A g \in Hooker : g # h => hk'[g] = hk[g]
    BY <1>0, <1>2, <1>6, <1>8, HookKept
  <1>10. ModuleInv'
    BY <1>0, <1>2, ModuleKept
  <1>11. i \in 1..Len(code_arenas) /\ b = code_arenas[i].cursor
         /\ code_arenas[i].cursor + n <= code_arenas[i].addr + PageWords
    BY <1>0, <1>1, <1>3, <1>4, Zenon DEF BlockInv
  <1>12. /\ ArenaInv' /\ Len(code_arenas') = Len(code_arenas)
         /\ \A j \in 1..Len(code_arenas) :
                /\ code_arenas'[j].addr = code_arenas[j].addr
                /\ j # i => code_arenas'[j].cursor = code_arenas[j].cursor
         /\ code_arenas'[i].cursor = code_arenas[i].cursor + n
    BY <1>0, <1>6, <1>11, CursorMoved, Zenon
  <1>13. \A j \in 1..Len(code_arenas) : /\ code_arenas[j].addr \in Nat /\ code_arenas[j].cursor \in Nat
                                        /\ code_arenas[j].addr <= code_arenas[j].cursor
    BY <1>0, ArenaFacts
  <1>14. ASSUME NEW j \in 1..Len(code_arenas) PROVE GivenOut(j) \subseteq GivenOut(j)'
    <2>1. CASE j = i
      BY <1>11, <1>12, <1>13, <2>1 DEF GivenOut
    <2>2. CASE j # i
      BY <1>12, <2>2 DEF GivenOut
    <2> QED
      BY <2>1, <2>2
  <1>15. blk \subseteq GivenOut(i)'
    BY <1>5, <1>11, <1>12, <1>13 DEF GivenOut
  <1>16. ASSUME NEW j \in 1..Len(code_arenas) PROVE blk \cap GivenOut(j) = {}
    BY <1>0, <1>5, <1>11, BehindCursor
  <1>17. blocks'[f] = blk /\ \A k \in Func : k # f => blocks'[k] = blocks[k]
    <2>1. blocks = [k \in Func |-> blocks[k]]
      BY <1>0, Zenon DEF BlockInv
    <2> QED
      BY <1>6, <2>1
  <1>18. ASSUME NEW g \in Hooker, g # h, hk[g].at \in Busy PROVE hk[g].f # f
    <2>1. hk[h].at \in Busy
      BY <1>1 DEF Busy
    <2> QED
      BY <1>0, <1>3, <1>18, <2>1, OwnFunctions
  <1>19. f \notin entries /\ blocks[f] = {}
    <2>1. f \notin entries
      BY <1>0, <1>1, <1>3 DEF BlockInv, Busy
    <2>2. SUFFICES ASSUME blocks[f] # {} PROVE FALSE
      BY <2>1
    <2>3. PICK g \in Hooker : hk[g].at \in Busy \ {"read", "bump"} /\ hk[g].f = f
      BY <1>0, <2>1, <2>2 DEF BlockInv
    <2>4. g # h
      BY <1>1, <2>3
    <2> QED
      BY <1>18, <2>3, <2>4
  <1>20. \A g \in Hooker : g # h => hk[g].at # "bump"
    BY <1>0, <1>1, Zenon DEF BlockInv
  <1>21. BlockInv'
    <2>1. (blocks = [k \in Func |-> blocks[k]])'
      <3>1. blocks = [k \in Func |-> blocks[k]]
        BY <1>0, Zenon DEF BlockInv
      <3> QED
        BY <1>6, <3>1
    <2>2. (\A k \in Func : blocks[k] = {} \/ \E j \in 1..Len(code_arenas) : blocks[k] \subseteq GivenOut(j))'
      <3> SUFFICES ASSUME NEW k \in Func, blocks'[k] # {}
                   PROVE  \E j \in 1..Len(code_arenas) : blocks'[k] \subseteq GivenOut(j)'
        BY <1>12, Zenon
      <3>1. CASE k = f
        BY <1>11, <1>15, <1>17, <3>1
      <3>2. CASE k # f
        <4>1. blocks'[k] = blocks[k]
          BY <1>17, <3>2
        <4>2. PICK j \in 1..Len(code_arenas) : blocks[k] \subseteq GivenOut(j)
          BY <1>0, <4>1 DEF BlockInv
        <4> QED
          BY <1>14, <4>1, <4>2
      <3> QED
        BY <3>1, <3>2
    <2>3. ASSUME NEW k \in Func, k # f PROVE blocks[k] \cap blk = {}
      <3>1. CASE blocks[k] = {}
        BY <3>1
      <3>2. CASE blocks[k] # {}
        <4>1. PICK j \in 1..Len(code_arenas) : blocks[k] \subseteq GivenOut(j)
          BY <1>0, <3>2 DEF BlockInv
        <4> QED
          BY <1>16, <4>1
      <3> QED
        BY <3>1, <3>2
    <2>4. (\A g, k \in Func : g # k => blocks[g] \cap blocks[k] = {})'
      <3>1. \A g, k \in Func : g # k => blocks[g] \cap blocks[k] = {}
        BY <1>0, Zenon DEF BlockInv
      <3> QED
        BY <1>17, <2>3, <3>1
    <2>5. (\A k \in Func : blocks[k] # {} =>
              k \in entries \/ \E g \in Hooker : hk[g].at \in Busy \ {"read", "bump"} /\ hk[g].f = k)'
      <3> SUFFICES ASSUME NEW k \in Func, blocks'[k] # {}, k \notin entries
                   PROVE  \E g \in Hooker : hk'[g].at \in Busy \ {"read", "bump"} /\ hk'[g].f = k
        BY <1>2
      <3>1. CASE k = f
        BY <1>7, <1>9, <3>1 DEF Busy
      <3>2. CASE k # f
        <4>1. blocks[k] # {}
          BY <1>17, <3>2
        <4>2. PICK g \in Hooker : hk[g].at \in Busy \ {"read", "bump"} /\ hk[g].f = k
          BY <1>0, <4>1 DEF BlockInv
        <4>3. hk'[g] = hk[g]
          BY <1>1, <1>9, <4>2
        <4> QED
          BY <4>2, <4>3
      <3> QED
        BY <3>1, <3>2
    <2>6. (\A g \in Hooker : hk[g].at \in {"open", "copy", "close", "store"} /\ hk[g].what = "block" =>
              blocks[hk[g].f] = BlockOf(hk[g]))'
      <3> SUFFICES ASSUME NEW g \in Hooker, hk'[g].at \in {"open", "copy", "close", "store"},
                          hk'[g].what = "block"
                   PROVE  blocks'[hk'[g].f] = BlockOf(hk'[g])
        BY DEF BlockOf
      <3>1. CASE g = h
        BY <1>4, <1>5, <1>7, <1>9, <1>17, <3>1 DEF BlockOf
      <3>2. CASE g # h
        <4>1. hk'[g] = hk[g] /\ hk[g].at \in Busy
          BY <1>9, <3>2 DEF Busy
        <4>2. hk[g].f # f /\ hk[g].f \in Func
          BY <1>0, <1>18, <3>2, <4>1, Parts
        <4>3. blocks[hk[g].f] = BlockOf(hk[g])
          BY <1>0, <4>1 DEF BlockInv
        <4> QED
          BY <1>17, <4>1, <4>2, <4>3
      <3> QED
        BY <3>1, <3>2
    <2>7. (\A g \in Hooker : hk[g].at \in Busy => hk[g].f \notin entries)'
      <3>1. \A g \in Hooker : hk[g].at \in Busy => hk[g].f \notin entries
        BY <1>0, Zenon DEF BlockInv
      <3> QED
        BY <1>2, <1>7, <1>9, <1>19, <3>1
    <2>8. \A g \in Hooker : hk'[g].at # "bump"
      <3>1. s.at # "bump"
        BY <1>7
      <3> QED
        BY <1>9, <1>20, <3>1, Zenon
    <2> QED
      BY <2>1, <2>2, <2>4, <2>5, <2>6, <2>7, <2>8, Zenon DEF BlockInv
  <1>22. MemInv'
    <2>1. PICK D, E : D = UNION {blocks[k] : k \in Func} /\ E = UNION {blocks'[k] : k \in Func}
      OBVIOUS
    <2>2. D \subseteq E
      <3> SUFFICES ASSUME NEW x \in D PROVE x \in E
        OBVIOUS
      <3>1. PICK k \in Func : x \in blocks[k]
        BY <2>1
      <3>2. k # f
        BY <1>19, <3>1
      <3>3. x \in blocks'[k]
        BY <1>17, <3>1, <3>2
      <3> QED
        BY <2>1, <3>3
    <2>3. DOMAIN mem \subseteq DOMAIN pristine \cup D
      BY <1>0, <2>1, Zenon DEF MemInv
    <2>4. (DOMAIN mem \subseteq DOMAIN pristine \cup UNION {blocks[k] : k \in Func})'
      BY <1>2, <2>1, <2>2, <2>3
    <2>5. (/\ DOMAIN pristine \subseteq DOMAIN mem
           /\ entries \subseteq patched /\ patched \subseteq Func
           /\ origin = [k \in Func |-> origin[k]] /\ \A k \in Func : origin[k] \in Nat
           /\ fault \in BOOLEAN /\ met \in BOOLEAN /\ raced \in BOOLEAN)'
      BY <1>0, <1>2, Zenon DEF MemInv
    <2>6. (~fault => \A g \in Hooker : hk[g].at \in {"close", "add"} /\ hk[g].what = "entry" =>
                        hk[g].f \in patched)'
      BY <1>0, <1>2, <1>7, <1>9 DEF MemInv
    <2> QED
      BY <2>4, <2>5, <2>6, Zenon DEF MemInv
  <1>23. PermInv'
    <2>1. Mapped' = Mapped
      <3>1. {Page(code_arenas'[j].addr) : j \in 1..Len(code_arenas')}
              = {Page(code_arenas[j].addr) : j \in 1..Len(code_arenas)}
        BY <1>12
      <3> QED
        BY <1>2, <3>1 DEF Mapped, Page
    <2>2. ~fault'
      BY <1>2
    <2>3. ~Patching(h)
      BY <1>1 DEF Patching
    <2>4. \A k \in Func : blocks[k] \subseteq blocks'[k]
      BY <1>17, <1>19
    <2> QED
      BY <1>0, <1>2, <1>7, <1>9, <2>1, <2>2, <2>3, <2>4, PermKept
  <1> QED
    BY <1>9, <1>10, <1>12, <1>21, <1>22, <1>23 DEF DobbyInv

LEMMA InitDobbyInv ==
    ASSUME Init
    PROVE  DobbyInv
  <1>1. ModuleInv
    BY DEF Init, ModuleInv
  <1>2. HookInv
    BY DEF Init, HookInv
  <1>3. \A h \in Hooker : hk[h].at = "idle"
    BY DEF Init, Idle
  <1>4. code_arenas = <<>> /\ blocks = [f \in Func |-> {}] /\ entries = {} /\ patched = {}
        /\ origin = [f \in Func |-> 0] /\ mem = pristine /\ perm = InitialPerm(pristine)
        /\ raced = FALSE /\ met = FALSE /\ fault = FALSE /\ denied = {}
    BY DEF Init
  <1>5. code_arenas \in Seq([addr : Nat, cursor : Nat]) /\ Len(code_arenas) = 0
    BY <1>4
  <1>6. ArenaInv
    <2>1. \A i : i \notin 1..Len(code_arenas)
      BY <1>5
    <2> QED
      BY <1>5, <2>1, Zenon DEF ArenaInv
  <1>7. BlockInv
    BY <1>3, <1>4 DEF BlockInv, Busy
  <1>8. MemInv
    <2>1. DOMAIN pristine \subseteq DOMAIN mem
          /\ DOMAIN mem \subseteq DOMAIN pristine \cup UNION {blocks[f] : f \in Func}
      BY <1>4
    <2>2. entries \subseteq patched /\ patched \subseteq Func
          /\ origin = [f \in Func |-> origin[f]] /\ \A f \in Func : origin[f] \in Nat
      BY <1>4
    <2>3. fault \in BOOLEAN /\ met \in BOOLEAN /\ raced \in BOOLEAN
      BY <1>4, Zenon
    <2>4. \A h \in Hooker : hk[h].at \notin {"close", "add"}
      BY <1>3
    <2> QED
      BY <2>1, <2>2, <2>3, <2>4, Zenon DEF MemInv
  <1>9. PermInv
    <2>1. Mapped = {Page(a) : a \in DOMAIN pristine} \cup Foreign
      BY <1>5 DEF Mapped
    <2>2. DOMAIN perm = Mapped /\ denied \subseteq Mapped /\ \A p \in Mapped : perm[p] \in Perms
      BY <1>4, <2>1 DEF InitialPerm, Perms
    <2>3. \A p \in Mapped : Settled(p)
      BY <1>4, <2>2, Zenon DEF Before, Settled
    <2>4. \A h \in Hooker : hk[h].at # "copy"
      BY <1>3
    <2> QED
      BY <1>4, <2>2, <2>3, <2>4, Zenon DEF PermInv
  <1> QED
    BY <1>1, <1>2, <1>6, <1>7, <1>8, <1>9 DEF DobbyInv

LEMMA NextDobbyInv ==
    ASSUME DobbyInv, [Next]_vars
    PROVE  DobbyInv'
  <1>1. CASE Next
    <2>1. ~fault /\ ~raced
      BY <1>1, Zenon DEF Next
    <2>2. PICK h \in Hooker :
              \/ \E f \in Func : Enter(h, f) \/ AlreadyHooked(h, f)
              \/ AllocRead(h) \/ AllocBump(h)
              \/ Open(h) \/ Copy(h) \/ Close(h)
              \/ StoreOrigin(h) \/ AddEntry(h)
      BY <1>1, Zenon DEF Next
    <2>3. ASSUME NEW f \in Func, Enter(h, f) PROVE DobbyInv'
      BY <2>1, <2>3, EnterStep, Zenon
    <2>4. ASSUME NEW f \in Func, AlreadyHooked(h, f) PROVE DobbyInv'
      BY <2>1, <2>4, AlreadyHookedStep, Zenon
    <2>5. CASE AllocRead(h)
      BY <2>1, <2>5, AllocReadStep, Zenon
    <2>6. CASE AllocBump(h)
      BY <2>1, <2>6, AllocBumpStep, Zenon
    <2>7. CASE Open(h)
      BY <2>1, <2>7, OpenPagesStep, Zenon
    <2>8. CASE Copy(h)
      BY <2>1, <2>8, CopyStep, Zenon
    <2>9. CASE Close(h)
      BY <2>1, <2>9, CloseStep, Zenon
    <2>10. CASE StoreOrigin(h)
      BY <2>1, <2>10, StoreOriginStep, Zenon
    <2>11. CASE AddEntry(h)
      BY <2>1, <2>11, AddEntryStep, Zenon
    <2> QED
      BY <2>2, <2>3, <2>4, <2>5, <2>6, <2>7, <2>8, <2>9, <2>10, <2>11, Zenon
  <1>2. CASE UNCHANGED vars
    <2>1. UNCHANGED <<pristine, entry, near, mem, perm, denied, code_arenas, entries, origin, hk,
                      patched, blocks, raced, met, fault>>
      BY <1>2 DEF vars
    <2>2. ModuleInv'
      BY <2>1 DEF DobbyInv, ModuleInv
    <2>3. \A f : Trampoline(f)' = Trampoline(f)
      BY <2>1 DEF Trampoline
    <2>4. HookInv'
      <3>1. HookInv
        BY DEF DobbyInv
      <3> QED
        BY <2>1, <2>3, <3>1, Zenon DEF HookInv, Carried
    <2>5. ArenaInv'
      BY <2>1 DEF DobbyInv, ArenaInv
    <2>6. BlockInv'
      <3>1. BlockInv
        BY DEF DobbyInv
      <3> QED
        BY <2>1, <3>1, Zenon DEF BlockInv, BlockOf, GivenOut
    <2>7. MemInv'
      <3>1. MemInv
        BY DEF DobbyInv
      <3> QED
        BY <2>1, <3>1, Zenon DEF MemInv
    <2>8. PermInv'
      <3>1. PermInv
        BY DEF DobbyInv
      <3>2. Mapped' = Mapped
        BY <2>1 DEF Mapped, Page
      <3>3. \A p : Before(p)' = Before(p) /\ PageBehind(p)' = PageBehind(p)
        BY <2>1, <2>3 DEF Before, InitialPerm, PageBehind, Page
      <3>4. \A g : Patching(g)' = Patching(g) /\ Pages(hk[g])' = Pages(hk[g])
                   /\ BlockOf(hk[g])' = BlockOf(hk[g])
        BY <2>1 DEF Patching, Pages, PatchPages, BlockOf, Page
      <3>5. \A a : Page(a)' = Page(a)
        BY DEF Page
      <3>6. \A p : Settled(p)' = Settled(p) /\ AtWork(p)' = AtWork(p)
        BY <2>1, <3>3, <3>4, Zenon DEF Settled, AtWork
      <3>7. Excuse' = Excuse
        BY <2>1, <3>4, Zenon DEF Excuse
      <3> QED
        BY <2>1, <3>1, <3>2, <3>4, <3>5, <3>6, <3>7, Zenon DEF PermInv, Perms
    <2> QED
      BY <2>2, <2>4, <2>5, <2>6, <2>7, <2>8 DEF DobbyInv
  <1> QED
    BY <1>1, <1>2

LEMMA DobbyInvAlways == Spec => []DobbyInv
  <1>1. Init => DobbyInv
    BY InitDobbyInv
  <1>2. DobbyInv /\ [Next]_vars => DobbyInv'
    BY NextDobbyInv
  <1> QED
    BY <1>1, <1>2, PTL DEF Spec
-----------------------------------------------------------------------------

\* allocMemBlock: whichever threads hook and however their steps mingle, as long as no two
\* of them were inside it at once the blocks never overlap, and each lies in one arena.
THEOREM BlocksStayApart == Spec => []BlocksApart
  <1>1. ASSUME DobbyInv PROVE BlocksApart
    <2>0. ArenaInv /\ BlockInv
      BY <1>1 DEF DobbyInv
    <2>1. \A f, g \in Func : f # g => blocks[f] \cap blocks[g] = {}
      BY <2>0, Zenon DEF BlockInv
    <2>2. ASSUME NEW f \in Func
          PROVE  \E a \in {Junk} \cup {b.addr : b \in ToSet(code_arenas)} :
                    blocks[f] \subseteq a..(a + PageWords - 1)
      <3>1. CASE blocks[f] = {}
        BY <3>1
      <3>2. CASE blocks[f] # {}
        <4>1. PICK i \in 1..Len(code_arenas) : blocks[f] \subseteq GivenOut(i)
          BY <2>0, <3>2 DEF BlockInv
        <4>2. PICK a \in Nat, c \in Nat : a = code_arenas[i].addr /\ c = code_arenas[i].cursor
                                          /\ c <= a + PageWords
          BY <2>0, ArenaFacts
        <4>3. PageWords \in Nat
          BY MapAssumption
        <4>4. blocks[f] \subseteq a..(a + PageWords - 1)
          BY <4>1, <4>2, <4>3 DEF GivenOut
        <4>5. code_arenas[i] \in ToSet(code_arenas)
          <5>1. code_arenas \in Seq([addr : Nat, cursor : Nat])
            BY <2>0, Zenon DEF ArenaInv
          <5>2. DOMAIN code_arenas = 1..Len(code_arenas)
            BY <5>1, InSeq
          <5> QED
            BY <5>2 DEF ToSet
        <4> QED
          BY <4>2, <4>4, <4>5
      <3> QED
        BY <3>1, <3>2
    <2> QED
      BY <2>1, <2>2, Zenon DEF BlocksApart
  <1> QED
    BY <1>1, DobbyInvAlways, PTL

\* DobbyCodePatch: what it opened is closed again, but for a page whose mprotect failed and
\* for the page behind a trampoline or a block that ends at the end of its own page, and a
\* write meets a closed page only when one thread closes its pages while another is
\* patching, or when the page could not be opened.
THEOREM PagesStayRight == Spec => []PagesRight
  <1>1. ASSUME DobbyInv PROVE PagesRight
    <2>0. PermInv /\ MemInv /\ HookInv
      BY <1>1 DEF DobbyInv
    <2>1. DOMAIN perm = Mapped /\ denied \subseteq Mapped /\ \A p \in Mapped : perm[p] \in Perms
      BY <2>0, Zenon DEF PermInv
    <2>2. \A h \in Hooker : hk[h].at \in Busy \cup {"idle"}
      <3> SUFFICES ASSUME NEW h \in Hooker PROVE hk[h].at \in Busy \cup {"idle"}
        OBVIOUS
      <3>1. CASE hk[h] = Idle
        BY <3>1 DEF Idle
      <3>2. CASE Carried(h, hk[h])
        BY <3>2, CarriedFacts
      <3> QED
        BY <2>0, <3>1, <3>2, Zenon DEF HookInv
    <2>3. TypeOK
      <3>1. /\ DOMAIN pristine \subseteq DOMAIN mem
            /\ DOMAIN mem \subseteq DOMAIN pristine \cup UNION {blocks[f] : f \in Func}
            /\ entries \subseteq patched /\ patched \subseteq Func
            /\ \A f \in Func : origin[f] \in Nat
        BY <2>0, Zenon DEF MemInv
      <3>2. \A h \in Hooker : hk[h].at \in {"idle", "read", "bump", "open", "copy", "close",
                                            "store", "add"}
        BY <2>2 DEF Busy
      <3>3. (\A p \in DOMAIN perm : perm[p] \in {"none", "rx", "rw", "rwx"})
            /\ denied \subseteq DOMAIN perm
        BY <2>1 DEF Perms
      <3> QED
        BY <3>1, <3>2, <3>3, Zenon DEF TypeOK
    <2>4. PagesRestored
      <3> SUFFICES ASSUME \A h \in Hooker : hk[h] = Idle, NEW p \in DOMAIN perm \ denied
                   PROVE  perm[p] = Before(p) \/ (perm[p] = "rx" /\ PageBehind(p))
        BY Zenon DEF PagesRestored
      <3>1. \A h \in Hooker : ~Patching(h)
        BY DEF Patching, Idle
      <3>2. ~AtWork(p)
        BY <3>1, Zenon DEF AtWork
      <3> QED
        BY <2>0, <2>1, <3>2, Zenon DEF PermInv, Settled
    <2>5. FaultExplained
      BY <2>0, Zenon DEF PermInv, FaultExplained, Excuse, Pages
    <2> QED
      BY <2>3, <2>4, <2>5 DEF PagesRight
  <1> QED
    BY <1>1, DobbyInvAlways, PTL
=============================================================================
