------------------------------- MODULE Dlfcn --------------------------------
(***************************************************************************)
(* fake_dlopen, fake_dlsym, fake_dlclose and fake_enumerate_module         *)
(* (dlfc/dlfcn_nougat.cpp): a library is found in /proc/self/maps, its     *)
(* file is mapped once more, the dynamic symbols are copied out of the     *)
(* sections, and addresses are computed from the first executable mapping. *)
(* Meanwhile other threads load and unload libraries.                      *)
(*                                                                         *)
(* The kernel lists mappings by address, each line as things are when it   *)
(* is read.  A library has segments at the addresses v from its base, of   *)
(* which some are executable, and a section knows its bias, the difference *)
(* between its address and its offset in the file.                         *)
(***************************************************************************)
EXTENDS Integers, Sequences, FiniteSets, SequencesExt, FiniteSetsExt

CONSTANTS
    Lib,          \* libraries
    Symbol,       \* names of symbols
    Layouts,      \* what the libraries may look like, see LayoutAssumption
    Spacing,      \* distance of two load addresses, more than any library's size
    MaxMove       \* bound: loads and unloads by other threads

Bases == {k * Spacing : k \in 1..(Cardinality(Lib) + 1)}
Sections == {"dynsym", "strtab", "rodata", "text"}
\* segs: the segments.  sections: their order in the file.  bias: what the section
\* .text is moved by, the others are not.  syms: the symbol table.  match: the path
\* contains the text that is looked for.  long: the line does not fit in the buffer.
\* brief: the path fits in a std::string without a buffer of its own.
ASSUME LibAssumption == IsFiniteSet(Lib) /\ Spacing \in Nat \ {0}
ASSUME LayoutAssumption ==
    \A layout \in Layouts, l \in Lib :
      LET s == layout[l]
      IN
        /\ s.segs \in Seq([v : 0..(Spacing - 1), x : BOOLEAN])
        /\ s.sections \in Seq(Sections)
        /\ s.bias \in 0..(Spacing - 1)
        /\ s.syms \in Seq([name : Symbol, value : 0..(Spacing - 1), def : BOOLEAN])
        /\ {s.match, s.long, s.brief} \subseteq BOOLEAN

VARIABLES
    shape,      \* shape[l]: the library's file
    at,         \* at[l]: its base address, 0 when it is not loaded
    moves,      \* loads and unloads so far
    moved,      \* libraries loaded or unloaded since the call began
    dpc,        \* where the caller is
    pos,        \* address of the line of the maps read last
    line,       \* the line that was found: library and address
    section,    \* position in the section headers
    handle,     \* elf_info: bias, and whether dynsym and dynstr are filled
    held,       \* what the call has allocated, opened or mapped; full_path is the
                \* buffer of the std::string in elf_info
    stray,      \* munmap was called at address 0
    wanted,     \* the symbol asked for, once it was
    answer,     \* what fake_dlsym returned, 0 for nullptr
    reported    \* libraries given to the callback of fake_enumerate_module

loader == <<shape, at, moves>>
dvars == <<loader, moved, dpc, pos, line, section, handle, held, stray, wanted, answer, reported>>

None == [lib |-> 0, addr |-> 0]
NoInfo == [bias |-> 0, dynsym |-> FALSE, dynstr |-> FALSE]

\* The executable mappings, in any library, as lines of the maps.
Lines == UNION {{[lib |-> l, addr |-> at[l] + s.v] : s \in {t \in Range(shape[l].segs) : t.x}}
                    : l \in {k \in Lib : at[k] # 0}}
Below == {n \in Lines : n.addr > pos}
NextLine == CHOOSE n \in Below : \A o \in Below : n.addr <= o.addr

DlStart ==
    /\ moves = 0 /\ moved = {}
    /\ dpc = "idle" /\ pos = 0 /\ line = None /\ section = 1
    /\ handle = NoInfo /\ held = {} /\ stray = FALSE
    /\ wanted = {} /\ answer = 0 /\ reported = {}
DlInit ==
    /\ shape \in Layouts
    /\ at \in {a \in [Lib -> Bases] : \A k, l \in Lib : a[k] = a[l] => k = l}
    /\ DlStart

\* dlopen and dlclose of other threads.
load(l) ==
    /\ at[l] = 0 /\ moves < MaxMove
    /\ \E b \in Bases \ Range(at) : at' = [at EXCEPT ![l] = b]
    /\ moves' = moves + 1 /\ moved' = moved \cup {l}
    /\ UNCHANGED <<shape, dpc, pos, line, section, handle, held, stray, wanted, answer, reported>>
unload(l) ==
    /\ at[l] # 0 /\ moves < MaxMove
    /\ at' = [at EXCEPT ![l] = 0]
    /\ moves' = moves + 1 /\ moved' = moved \cup {l}
    /\ UNCHANGED <<shape, dpc, pos, line, section, handle, held, stray, wanted, answer, reported>>

\* Mistake: the mapping is left to the end of the process.
err_exit_mapped(h) == h \ {"fd", "info", "dynsym", "dynstr"}
\* The label err_exit: what it closes, unmaps and frees of what the call holds.  It
\* frees elf_info without destroying the string in it.
err_exit(h) == h \ {"fd", "map", "info", "dynsym", "dynstr"}
Fatal(h) ==
    /\ held' = err_exit(h)
    /\ dpc' = "null"
    /\ UNCHANGED <<loader, moved, pos, line, section, handle, stray, wanted, answer, reported>>

\* calloc, which may fail, then fopen of the maps.
fake_dlopen ==
    /\ dpc = "idle"
    /\ \/ /\ held' = {"info", "maps"} /\ dpc' = "scan" /\ moved' = {}
          /\ UNCHANGED <<loader, pos, line, section, handle, stray, wanted, answer, reported>>
       \/ \E h \in {{}, {"info"}} : Fatal(h)

\* The line contains r-xp and libpath, and both are in the part the buffer holds.
Matches(n) == shape[n.lib].match /\ ~shape[n.lib].long

Buffer(l) == IF shape[l].brief THEN {} ELSE {"full_path"}

\* fgets; after the last line the maps are closed and the call fails.
scan_line ==
    /\ dpc = "scan"
    /\ Below # {}
    /\ pos' = NextLine.addr
    /\ IF Matches(NextLine)
       THEN line' = NextLine /\ dpc' = "open" /\ held' = (held \ {"maps"}) \cup Buffer(NextLine.lib)
       ELSE UNCHANGED <<line, dpc, held>>
    /\ UNCHANGED <<loader, moved, section, handle, stray, wanted, answer, reported>>
scan_end == dpc = "scan" /\ Below = {} /\ Fatal(held \ {"maps"})

\* open of the path in the line, which leads nowhere when the file has been deleted
\* or replaced since it was loaded.
open_file ==
    /\ dpc = "open"
    /\ \/ /\ held' = held \cup {"fd"} /\ dpc' = "map"
          /\ UNCHANGED <<loader, moved, pos, line, section, handle, stray, wanted, answer, reported>>
       \/ Fatal(held)
\* lseek and mmap; the descriptor is closed before the result of mmap is looked at.
map_file ==
    /\ dpc = "map"
    /\ \/ /\ held' = (held \ {"fd"}) \cup {"map"} /\ dpc' = "sections"
          /\ UNCHANGED <<loader, moved, pos, line, section, handle, stray, wanted, answer, reported>>
       \/ \E h \in {held, held \ {"fd"}} : Fatal(h)

\* Mistake: only .text is taken for code.
CodeSection_text(s) == s = "text" /\ handle.dynsym /\ handle.dynstr
\* SHT_PROGBITS behind .dynsym and .dynstr; it ends the loop.
CodeSection(s) == s \in {"rodata", "text"} /\ handle.dynsym /\ handle.dynstr

Bias(s, sec) == IF sec = "text" THEN s.bias ELSE 0
AllSections == shape[line.lib].sections
\* One section header.  A malloc may fail, a second .dynsym is an error, and of the
\* string tables only the first is taken.
read_section ==
    /\ dpc = "sections" /\ section <= Len(AllSections)
    /\ LET s == AllSections[section]
       IN  \/ /\ s = "dynsym" /\ ~handle.dynsym
              /\ handle' = [handle EXCEPT !.dynsym = TRUE]
              /\ held' = held \cup {"dynsym"} /\ section' = section + 1
           \/ /\ s = "strtab" /\ ~handle.dynstr
              /\ handle' = [handle EXCEPT !.dynstr = TRUE]
              /\ held' = held \cup {"dynstr"} /\ section' = section + 1
           \/ /\ CodeSection(s)
              /\ handle' = [handle EXCEPT !.bias = Bias(shape[line.lib], s)]
              /\ section' = Len(AllSections) + 1 /\ UNCHANGED held
           \/ /\ (s = "strtab" /\ handle.dynstr) \/ (s \in {"rodata", "text"} /\ ~CodeSection(s))
              /\ section' = section + 1 /\ UNCHANGED <<handle, held>>
    /\ UNCHANGED <<loader, moved, dpc, pos, line, stray, wanted, answer, reported>>
section_fails ==
    /\ dpc = "sections" /\ section <= Len(AllSections)
    /\ \/ AllSections[section] = "dynsym"
       \/ AllSections[section] = "strtab" /\ ~handle.dynstr
    /\ Fatal(held)

\* munmap.  Without both tables the error exit calls munmap a second time, with the
\* address 0.
sections_end ==
    /\ dpc = "sections" /\ section > Len(AllSections)
    /\ IF handle.dynsym /\ handle.dynstr
       THEN held' = held \ {"map"} /\ dpc' = "ready" /\ UNCHANGED stray
       ELSE held' = err_exit(held \ {"map"}) /\ dpc' = "null" /\ stray' = TRUE
    /\ UNCHANGED <<loader, moved, pos, line, section, handle, wanted, answer, reported>>

\* The address of symbol k of the table, whether the library defines it or not.
Address(k) == line.addr + shape[line.lib].syms[k].value - handle.bias
\* The symbols of a name in a library; the first one counts.
Named(l, n) == {k \in 1..Len(shape[l].syms) : shape[l].syms[k].name \in n}
fake_dlsym(n) ==
    /\ dpc = "ready"
    /\ wanted' = {n}
    /\ answer' = IF Named(line.lib, {n}) = {} THEN 0 ELSE Address(Min(Named(line.lib, {n})))
    /\ dpc' = "found"
    /\ UNCHANGED <<loader, moved, pos, line, section, handle, held, stray, reported>>

fake_dlclose ==
    /\ dpc = "found"
    /\ held' = held \ {"info", "dynsym", "dynstr"} /\ dpc' = "closed"
    /\ UNCHANGED <<loader, moved, pos, line, section, handle, stray, wanted, answer, reported>>

\* fake_enumerate_module: every executable mapping of a file is reported, until the
\* callback has enough.
fake_enumerate_module ==
    /\ dpc = "idle"
    /\ \/ dpc' = "enumerate" /\ held' = {"maps"}
       \/ dpc' = "null" /\ held' = {}
    /\ moved' = {}
    /\ UNCHANGED <<loader, pos, line, section, handle, stray, wanted, answer, reported>>
enumerate_line ==
    /\ dpc = "enumerate" /\ Below # {}
    /\ pos' = NextLine.addr
    /\ reported' = reported \cup {NextLine.lib}
    /\ \/ UNCHANGED <<dpc, held>>
       \/ dpc' = "stopped" /\ held' = {}
    /\ UNCHANGED <<loader, moved, line, section, handle, stray, wanted, answer>>
\* Mistake: the end of the file is seen one line early.
enumerate_end_early ==
    /\ dpc = "enumerate" /\ Cardinality(Below) <= 1
    /\ dpc' = "enumerated" /\ held' = {}
    /\ UNCHANGED <<loader, moved, pos, line, section, handle, stray, wanted, answer, reported>>
enumerate_end ==
    /\ dpc = "enumerate" /\ Below = {}
    /\ dpc' = "enumerated" /\ held' = {}
    /\ UNCHANGED <<loader, moved, pos, line, section, handle, stray, wanted, answer, reported>>

DlNext ==
    \/ \E l \in Lib : load(l) \/ unload(l)
    \/ fake_dlopen \/ scan_line \/ scan_end \/ open_file \/ map_file
    \/ read_section \/ section_fails \/ sections_end \/ fake_dlclose
    \/ \E n \in Symbol : fake_dlsym(n)
    \/ fake_enumerate_module \/ enumerate_line \/ enumerate_end

DlSpec == DlInit /\ [][DlNext]_dvars

-----------------------------------------------------------------------------
\* However a call ends, at whichever step it fails, nothing that it opened, mapped or
\* allocated is left but the buffer of full_path, which is lost exactly when a line was
\* found and its path is not brief; and it unmaps nothing else, but for a file without
\* its tables.
HandsBack ==
    /\ dpc \in {"null", "closed", "stopped", "enumerated"} =>
          held = IF line.addr # 0 THEN Buffer(line.lib) ELSE {}
    /\ stray => ~({"dynsym", "strtab"} \subseteq Range(AllSections))

Executable(l) == {s.v : s \in {t \in Range(shape[l].segs) : t.x}}

\* The library found is one whose line has the text, and none that stayed where it
\* was and has it too lies below, whatever is loaded and unloaded during the scan.
FindsFirst ==
    line.addr # 0 =>
        /\ shape[line.lib].match /\ ~shape[line.lib].long
        /\ \A l \in Lib \ moved :
              at[l] # 0 /\ shape[l].match /\ ~shape[l].long /\ Executable(l) # {} =>
                  line.addr <= at[l] + Min(Executable(l))

\* The bias of the code section that follows both tables.
FirstCode(s) ==
    LET Behind(k, t) == \E i \in 1..(k - 1) : s.sections[i] = t
        K == {k \in 1..Len(s.sections) : s.sections[k] \in {"rodata", "text"}
                                            /\ Behind(k, "dynsym") /\ Behind(k, "strtab")}
    IN  IF K = {} THEN 0 ELSE Bias(s, s.sections[Min(K)])
\* The answer for a symbol that the library defines is its address exactly when the
\* first executable mapping lies as far from the base as the first code section is
\* moved, and for a symbol it does not have there is no answer.
AnswerRight ==
    dpc \in {"found", "closed"} /\ line.lib \notin moved =>
        LET s == shape[line.lib]
            K == Named(line.lib, wanted)
        IN  /\ K = {} <=> answer = 0
            /\ K # {} /\ s.syms[Min(K)].def =>
                  (answer = at[line.lib] + s.syms[Min(K)].value
                       <=> Min(Executable(line.lib)) = FirstCode(s))

\* An enumeration that is not stopped reports every library with code that was
\* loaded all the time, wherever others come and go in the meantime.
EnumeratesAll ==
    dpc = "enumerated" =>
        \A l \in Lib \ moved : at[l] # 0 /\ Executable(l) # {} => l \in reported

\* Reading the maps misses nothing that stays where it is, in either use of it.
ScanRight == FindsFirst /\ EnumeratesAll
=============================================================================
