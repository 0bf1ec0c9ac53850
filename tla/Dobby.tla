------------------------------- MODULE Dobby -------------------------------
(***************************************************************************)
(* Inline hooks on arm64, as init_jni_hook uses them: DobbyHook writes a   *)
(* trampoline over the first words of a function, having moved these words *)
(* to a block of executable memory from which the original still runs      *)
(* (cpp/dobby/source).  One thread per loaded module hooks the functions   *)
(* of that module; what they share is the allocator of executable blocks.  *)
(*                                                                         *)
(* Memory is counted in words of 4 bytes.  A word is an instruction, or    *)
(* half of an address.  The instructions told apart are those whose        *)
(* meaning depends on where they stand, and those that use x17, the        *)
(* scratch register of the generated code.  Run executes memory and gives  *)
(* what a caller can observe; what is proved of a hook is that it changes  *)
(* nothing of this but the call of the replacement.                        *)
(***************************************************************************)
EXTENDS Integers, Sequences, SequencesExt, FiniteSets

CONSTANTS
    Hooker,      \* the threads that hook
    Func,        \* the functions they hook
    Owner,       \* Owner[f]: the thread that hooks f
    Replacement, \* Replacement[f]: where the function called instead begins
    Image,       \* the modules before any hook: [text, entry], the words of their
                 \* pages and where each function begins
    PageWords,
    Free,        \* the pages at which the kernel may map executable blocks
    Foreign,     \* the pages of what else the process has mapped, all writable data
    Refusing,    \* bound: the pages whose permissions the kernel may refuse to change
    Reach,       \* the ways in which the replacements may lie: near[f] as below
    Fuel         \* bound on the instructions of one call

\* The most words that a block takes: seven for each of four words that are moved, the
\* two copies of an address included, and six for the branch back.
MaxBlock == 4 * 7 + 6

Page(a) == a \div PageWords
Trunc(a) == a - (a % PageWords)

\* Nothing is said of where the pages lie, but that no two mappings share one.
ASSUME MapAssumption ==
    /\ PageWords \in Nat /\ PageWords >= MaxBlock
    /\ Free \subseteq Nat /\ Foreign \cap Free = {}
    /\ Reach \subseteq [Func -> BOOLEAN]
    /\ \A m \in Image : /\ DOMAIN m.text \subseteq Nat
                        /\ \A a \in DOMAIN m.text : Page(a) \notin Free \cup Foreign
    /\ \A m \in Image, f \in Func :
        m.entry[f] \in DOMAIN m.text /\ Replacement[f] \notin DOMAIN m.text

VARIABLES
    pristine,    \* the words before any hook
    entry,       \* entry[f]: where f begins
    near,        \* near[f]: the replacement is within reach of adrp
    mem,         \* the words of the modules and of the executable blocks
    perm,        \* perm[p]: the permissions of page p
    denied,      \* history: the pages whose last mprotect failed
    code_arenas, \* [addr, cursor]
    entries,     \* the hooked functions of Interceptor
    origin,      \* origin[f]: *origin_func, 0 before
    hk,          \* hk[h]: where h is in DobbyHook, and with what
    patched,     \* history: the functions whose trampoline is complete
    blocks,      \* history: the blocks given out, as sets of addresses
    raced,       \* history: two threads were inside allocMemBlock
    met,         \* history: two threads were patching, one of them closed a page
    fault        \* a write met a page that is not writable

vars == <<pristine, entry, near, mem, perm, denied, code_arenas, entries, origin, hk, patched,
          blocks, raced, met, fault>>

Junk == -1

-----------------------------------------------------------------------------
\* Words.

Plain(i) == [op |-> "plain", id |-> i]
Ret == [op |-> "ret"]
B(off) == [op |-> "b", off |-> off]
BL(off) == [op |-> "bl", off |-> off]
Ldr(kind, rd, off) == [op |-> "ldr", kind |-> kind, rd |-> rd, off |-> off]
Adr(rd, off) == [op |-> "adr", rd |-> rd, off |-> off]
Adrp(rd, pages) == [op |-> "adrp", rd |-> rd, off |-> pages * PageWords]
Cond(inv, off) == [op |-> "cond", inv |-> inv, off |-> off]
Add17(imm) == [op |-> "add17", imm |-> imm]
Br17 == [op |-> "br17"]
Blr17 == [op |-> "blr17"]
Lo(v) == [op |-> "lo", v |-> v]
Hi(v) == [op |-> "hi", v |-> v]
Nowhere == [op |-> "nowhere"]

At(m, a) == IF a \in DOMAIN m THEN m[a] ELSE Nowhere

-----------------------------------------------------------------------------
\* What the processor makes of the words.  c is the outcome of the first
\* condition the call meets; later ones do not hold.  A function of marks
\* announces itself when it is entered.

Told(s, event) == [s EXCEPT !.trace = Append(@, event)]

\* rd := v, which a caller sees unless rd is the scratch register.
Set(s, rd, v) == IF rd = "x17" THEN [s EXCEPT !.x17 = v] ELSE Told(s, <<rd, v>>)

\* The 64 bits at a, as an address.
Quad(m, a) == IF At(m, a).op = "lo" /\ At(m, a + 1) = Hi(At(m, a).v)
              THEN At(m, a).v ELSE Junk

Load(m, s, kind, rd, a) ==
    CASE kind = "x" -> Set(s, rd, Quad(m, a))
      [] kind = "w" -> Told(s, <<"w", Quad(m, a)>>)
      [] kind = "simd" -> Told(s, <<"v", Quad(m, a)>>)

Goto(s, a) == [s EXCEPT !.pc = a]
Skip(s) == Goto(s, s.pc + 1)

Exec(m, s) ==
    LET w == m[s.pc] IN
    CASE w.op = "plain" -> Skip(Told(s, <<"plain", w.id>>))
      [] w.op = "ret" -> [Told(s, <<"ret", 0>>) EXCEPT !.end = TRUE]
      [] w.op = "b" -> Goto(s, s.pc + w.off)
      [] w.op = "bl" -> Skip([Told(s, <<"call", s.pc + w.off>>) EXCEPT !.x17 = Junk])
      [] w.op = "ldr" -> Skip(Load(m, s, w.kind, w.rd, s.pc + w.off))
      [] w.op = "adr" -> Skip(Set(s, w.rd, s.pc + w.off))
      [] w.op = "adrp" -> Skip(Set(s, w.rd, Trunc(s.pc) + w.off))
      [] w.op = "cond" -> IF (s.c # w.inv) THEN [Goto(s, s.pc + w.off) EXCEPT !.c = FALSE]
                          ELSE [Skip(s) EXCEPT !.c = FALSE]
      [] w.op = "add17" -> Skip([s EXCEPT !.x17 = @ + w.imm])
      [] w.op = "br17" -> Goto(s, s.x17)
      [] w.op = "blr17" -> Skip([Told(s, <<"call", s.x17>>) EXCEPT !.x17 = Junk])
      [] w.op = "mov" -> Skip(Set(s, w.rd, w.v))
      [] w.op = "movk" -> Skip(s)
      [] w.op = "ldr17" -> Skip(Load(m, s, "x", w.rd, s.x17))
      [] OTHER -> [Told(s, <<"trap", s.pc>>) EXCEPT !.end = TRUE]

\* The replacement is called and calls the original, as hook_native_func does.
Step(m, org, marks, s) ==
    IF s.end THEN s
    ELSE IF \E f \in Func : Replacement[f] = s.pc
    THEN LET f == CHOOSE g \in Func : Replacement[g] = s.pc IN
         [Goto(Told(s, <<"hook", f>>), org[f]) EXCEPT !.x17 = Junk]
    ELSE IF s.pc \notin DOMAIN m THEN [Told(s, <<"leave", s.pc>>) EXCEPT !.end = TRUE]
    ELSE LET here == {f \in marks : entry[f] = s.pc}
         IN Exec(m, IF here = {} THEN s
                    ELSE [Told(s, <<"hook", CHOOSE f \in here : TRUE>>) EXCEPT !.x17 = Junk])

\* What a call of f with outcome c shows.
Run(m, org, marks, f, c) ==
    LET s[k \in 0..Fuel] ==
            IF k = 0
            THEN [pc |-> entry[f], x17 |-> Junk, c |-> c, trace |-> <<>>, end |-> FALSE]
            ELSE Step(m, org, marks, s[k - 1])
    IN s[Fuel].trace

-----------------------------------------------------------------------------
\* The generated code.

\* ldr x17, label: filled in once the label is bound.
LdrLabel(k) == [op |-> "label", k |-> k]
Mov(rd, v) == <<[op |-> "mov", rd |-> rd, v |-> v]>> \o [i \in 1..3 |-> [op |-> "movk"]]

\* A mutant of RelocateWord: the page of an adrp is not truncated.
RelocateWordUntruncated(w, a, n) ==
    CASE w.op = "b" -> <<LdrLabel(n + 1), Br17>>
      [] w.op = "bl" -> <<LdrLabel(n + 1), Blr17>>
      [] w.op = "ldr" -> Mov("x17", a + w.off) \o <<[op |-> "ldr17", rd |-> w.rd]>>
      [] w.op \in {"adr", "adrp"} -> Mov(w.rd, a + w.off)
      [] w.op = "cond" -> <<Cond(~w.inv, 3), LdrLabel(n + 1), Br17>>
      [] OTHER -> <<w>>

\* The words for instruction w, which stood at a; n labels are in use already.
RelocateWord(w, a, n) ==
    CASE w.op = "b" -> <<LdrLabel(n + 1), Br17>>
      [] w.op = "bl" -> <<LdrLabel(n + 1), Blr17>>
      [] w.op = "ldr" -> Mov("x17", a + w.off) \o <<[op |-> "ldr17", rd |-> w.rd]>>
      [] w.op = "adr" -> Mov(w.rd, a + w.off)
      [] w.op = "adrp" -> Mov(w.rd, Trunc(a + w.off))
      [] w.op = "cond" -> <<Cond(~w.inv, 3), LdrLabel(n + 1), Br17>>
      [] OTHER -> <<w>>

Labels(w, a) == IF w.op \in {"b", "bl", "cond"} THEN <<a + w.off>> ELSE <<>>

\* The labels' addresses follow the code, rounds times; a load of a label reads
\* the last copy.
RelocBind(code, labels, rounds) ==
    LET n == Len(code)
        size == 2 * Len(labels)
        pos(k) == n + size * (rounds - 1) + 2 * k - 1
        address(i) == labels[((i % size) \div 2) + 1]
        data(i) == IF i % 2 = 0 THEN Lo(address(i)) ELSE Hi(address(i))
    IN [i \in 1..(n + size * rounds) |->
            IF i > n THEN data(i - n - 1)
            ELSE IF code[i].op = "label" THEN Ldr("x", "x17", pos(code[i].k) - i) ELSE code[i]]

\* relo_relocate: the n words from a, then a branch to the word after them.
\* LiteralLdrBranch binds every label, and relo_relocate does so again.
LabelsOf(m, a, n) ==
    LET labels[i \in 0..n] == IF i = 0 THEN <<>>
                              ELSE labels[i - 1] \o Labels(m[a + i - 1], a + i - 1)
    IN labels
CodeOf(m, a, n) ==
    LET code[i \in 0..n] == IF i = 0 THEN <<>>
                            ELSE code[i - 1] \o RelocateWord(m[a + i - 1], a + i - 1,
                                                             Len(LabelsOf(m, a, n)[i - 1]))
    IN code
relo_relocate(m, a, n) ==
    LET all == Append(LabelsOf(m, a, n)[n], a + n)
    IN RelocBind(CodeOf(m, a, n)[n] \o <<LdrLabel(Len(all)), Br17>>, all, 2)

GenerateNormalTrampolineBuffer(from, to, isNear) ==
    IF isNear
    THEN <<[Adrp("x17", 0) EXCEPT !.off = Trunc(to) - Trunc(from)], Add17(to % PageWords), Br17>>
    ELSE RelocBind(<<LdrLabel(1), Br17>>, <<to>>, 1)

Trampoline(f) == GenerateNormalTrampolineBuffer(entry[f], Replacement[f], near[f])

\* The words of f that the trampoline takes are words of the module, on pages with
\* code, and modules do not share pages.
Prologue(m, r, f) ==
    LET n == Len(GenerateNormalTrampolineBuffer(m.entry[f], Replacement[f], r[f]))
    IN m.entry[f]..(m.entry[f] + n - 1)
ASSUME ModuleAssumption ==
    \A m \in Image, r \in Reach, f \in Func :
        /\ Prologue(m, r, f) \subseteq DOMAIN m.text
        /\ \A a \in Prologue(m, r, f) : \E g \in Func : Page(m.entry[g]) = Page(a)
        /\ \A a \in Prologue(m, r, f), g \in Func : Owner[g] # Owner[f] => Page(m.entry[g]) # Page(a)

-----------------------------------------------------------------------------
\* DobbyHook.

Idle == [at |-> "idle"]

\* The pages that DobbyCodePatch opens and closes: the one of the last word is
\* taken to be that of the word after it.
PatchPages(addr, n) == {Page(addr), Page(addr + n)}

Patching(h) == hk[h].at \in {"copy", "close"}

\* OSMemory::SetPermission that succeeds.
Protect(p, v) == perm' = [perm EXCEPT ![p] = v] /\ denied' = denied \ {p}

\* The mprotects of DobbyCodePatch, a page at a time, of those that are mapped: what
\* fails changes nothing, and the patch goes on.
ProtectUnasked(pages, v) ==
    \E failing \in SUBSET (pages \cap DOMAIN perm \cap Refusing) :
        /\ perm' = [q \in DOMAIN perm |-> IF q \in pages \ failing THEN v ELSE perm[q]]
        /\ denied' = (denied \ pages) \cup failing

\* When the first mprotect fails DobbyHook returns RS_FAILED and has changed nothing.
Enter(h, f) ==
    /\ hk[h] = Idle
    /\ Owner[f] = h
    /\ f \notin entries
    /\ hk' = [hk EXCEPT ![h] =
                [at |-> "read", f |-> f, what |-> "block", done |-> 0, addr |-> 0,
                 words |-> relo_relocate(mem, entry[f], Len(Trampoline(f)))]]
    /\ Protect(Page(entry[f]), "rx")
    /\ UNCHANGED <<pristine, entry, near, mem, code_arenas, entries, origin, patched, blocks,
                   raced, met, fault>>

\* allocateCodeMemoryArena: mmap takes any free page, on which nobody may do anything, and
\* nobody asks whether SetPermission made it executable.
NewArena(p) ==
    /\ code_arenas' = Append(code_arenas, [addr |-> p * PageWords, cursor |-> p * PageWords])
    /\ \E allowed \in {TRUE} \cup {b \in BOOLEAN : p \in Refusing} :
        /\ perm' = [q \in DOMAIN perm \cup {p} |->
                    IF q # p THEN perm[q] ELSE IF allowed THEN "rx" ELSE "none"]
        /\ denied' = IF allowed THEN denied ELSE denied \cup {p}

\* allocMemBlock up to the new MemBlock: the first arena with room, or a new one.
AllocRead(h) ==
    /\ hk[h].at = "read"
    /\ LET size == Len(hk[h].words)
           room == {i \in DOMAIN code_arenas :
                        code_arenas[i].addr + PageWords - code_arenas[i].cursor >= size}
           got(i) == [hk EXCEPT ![h] = [@ EXCEPT !.at = "bump", !.done = i,
                                                 !.addr = code_arenas'[i].cursor]]
       IN \/ \E i \in room : /\ \A j \in room : i <= j
                             /\ UNCHANGED <<code_arenas, perm, denied>>
                             /\ hk' = got(i)
          \/ /\ room = {}
             /\ \E p \in Free \ DOMAIN perm : NewArena(p)
             /\ hk' = got(Len(code_arenas) + 1)
    /\ raced' = (raced \/ \E g \in Hooker \ {h} : hk[g].at = "bump")
    /\ UNCHANGED <<pristine, entry, near, mem, entries, origin, patched, blocks, met, fault>>

\* A mutant of AllocBump: the cursor stops at the last word of the block.
AllocBumpShort(h) ==
    /\ hk[h].at = "bump"
    /\ code_arenas' = [code_arenas EXCEPT ![hk[h].done].cursor = @ + Len(hk[h].words) - 1]
    /\ blocks' = [blocks EXCEPT ![hk[h].f] =
                    hk[h].addr..(hk[h].addr + Len(hk[h].words) - 1)]
    /\ hk' = [hk EXCEPT ![h] = [@ EXCEPT !.at = "open", !.done = 0]]
    /\ UNCHANGED <<pristine, entry, near, mem, perm, denied, entries, origin, patched, raced,
                   met, fault>>

\* The rest of it: cursor_addr += size.
AllocBump(h) ==
    /\ hk[h].at = "bump"
    /\ code_arenas' = [code_arenas EXCEPT ![hk[h].done].cursor = @ + Len(hk[h].words)]
    /\ blocks' = [blocks EXCEPT ![hk[h].f] =
                    hk[h].addr..(hk[h].addr + Len(hk[h].words) - 1)]
    /\ hk' = [hk EXCEPT ![h] = [@ EXCEPT !.at = "open", !.done = 0]]
    /\ UNCHANGED <<pristine, entry, near, mem, perm, denied, entries, origin, patched, raced,
                   met, fault>>

\* A mutant of Open: only the last page is opened.
OpenLast(h) ==
    /\ hk[h].at = "open"
    /\ ProtectUnasked({Page(hk[h].addr + Len(hk[h].words))}, "rwx")
    /\ hk' = [hk EXCEPT ![h].at = "copy"]
    /\ UNCHANGED <<pristine, entry, near, mem, code_arenas, entries, origin, patched, blocks,
                   raced, met, fault>>

\* DobbyCodePatch, of the block and later of the entry: open the pages, copy, close.
Open(h) ==
    /\ hk[h].at = "open"
    /\ ProtectUnasked(PatchPages(hk[h].addr, Len(hk[h].words)), "rwx")
    /\ hk' = [hk EXCEPT ![h].at = "copy"]
    /\ UNCHANGED <<pristine, entry, near, mem, code_arenas, entries, origin, patched, blocks,
                   raced, met, fault>>

\* memcpy.  Nobody runs the block before it is complete; the entry may be run
\* between any two words.
Copy(h) ==
    /\ hk[h].at = "copy"
    /\ LET n == IF hk[h].what = "block" THEN Len(hk[h].words) ELSE hk[h].done + 1
           to == {hk[h].addr + i - 1 : i \in (hk[h].done + 1)..n}
           writable == \A a \in to : perm[Page(a)] = "rwx"
       IN /\ fault' = ~writable
          /\ mem' = IF ~writable THEN mem
                    ELSE [a \in DOMAIN mem \cup to |->
                            IF a \in to THEN hk[h].words[a - hk[h].addr + 1] ELSE mem[a]]
          /\ hk' = [hk EXCEPT ![h] = [@ EXCEPT !.done = n,
                                        !.at = IF n = Len(hk[h].words) THEN "close" ELSE "copy"]]
          /\ patched' = IF hk[h].what = "entry" /\ writable /\ n = Len(hk[h].words)
                        THEN patched \cup {hk[h].f} ELSE patched
    /\ UNCHANGED <<pristine, entry, near, perm, denied, code_arenas, entries, origin, blocks,
                   raced, met>>

Close(h) ==
    /\ hk[h].at = "close"
    /\ ProtectUnasked(PatchPages(hk[h].addr, Len(hk[h].words)), "rx")
    /\ met' = (met \/ \E g \in Hooker \ {h} : Patching(g))
    /\ hk' = [hk EXCEPT ![h].at = IF hk[h].what = "block" THEN "store" ELSE "add"]
    /\ UNCHANGED <<pristine, entry, near, mem, code_arenas, entries, origin, patched, blocks,
                   raced, fault>>

\* *origin_func, and on to the trampoline.
StoreOrigin(h) ==
    /\ hk[h].at = "store"
    /\ origin' = [origin EXCEPT ![hk[h].f] = hk[h].addr]
    /\ hk' = [hk EXCEPT ![h] = [@ EXCEPT !.at = "open", !.what = "entry", !.done = 0,
                                         !.addr = entry[hk[h].f],
                                         !.words = Trampoline(hk[h].f)]]
    /\ UNCHANGED <<pristine, entry, near, mem, perm, denied, code_arenas, entries, patched, blocks,
                   raced, met, fault>>

AddEntry(h) ==
    /\ hk[h].at = "add"
    /\ entries' = entries \cup {hk[h].f}
    /\ hk' = [hk EXCEPT ![h] = Idle]
    /\ UNCHANGED <<pristine, entry, near, mem, perm, denied, code_arenas, origin, patched, blocks,
                   raced, met, fault>>

\* RS_FAILED: the function is hooked already, by way of another name for it.
AlreadyHooked(h, f) ==
    /\ hk[h] = Idle
    /\ Owner[f] = h
    /\ f \in entries
    /\ Protect(Page(entry[f]), "rx")
    /\ UNCHANGED <<pristine, entry, near, mem, code_arenas, entries, origin, hk, patched, blocks,
                   raced, met, fault>>

\* The pages of the modules, the text and behind it data that they write, and the others.
InitialPerm(m) == [p \in {Page(a) : a \in DOMAIN m} \cup Foreign |->
    IF \E f \in Func : Page(entry[f]) = p THEN "rx" ELSE "rw"]

Init ==
    /\ \E i \in Image : pristine = i.text /\ entry = i.entry
    /\ near \in Reach
    /\ mem = pristine
    /\ perm = InitialPerm(pristine)
    /\ denied = {}
    /\ code_arenas = <<>>
    /\ entries = {}
    /\ origin = [f \in Func |-> 0]
    /\ hk = [h \in Hooker |-> Idle]
    /\ patched = {}
    /\ blocks = [f \in Func |-> {}]
    /\ raced = FALSE
    /\ met = FALSE
    /\ fault = FALSE

\* A fault ends the process; nothing is said of what a data race leads to.
Next ==
    /\ ~fault /\ ~raced
    /\ \E h \in Hooker :
        \/ \E f \in Func : Enter(h, f) \/ AlreadyHooked(h, f)
        \/ AllocRead(h) \/ AllocBump(h)
        \/ Open(h) \/ Copy(h) \/ Close(h)
        \/ StoreOrigin(h) \/ AddEntry(h)

Spec == Init /\ [][Next]_vars

-----------------------------------------------------------------------------
\* Which functions can be hooked this way.

Span(f) == entry[f]..(entry[f] + Len(Trampoline(f)) - 1)

\* The words that the instruction at a branches to or reads.
Touched(a) ==
    LET w == pristine[a] IN
    CASE w.op \in {"b", "cond"} -> {a + w.off}
      [] w.op = "ldr" -> {a + w.off, a + w.off + 1}
      [] OTHER -> {}

Writes17(w) == w.op = "add17" \/ (w.op \in {"adr", "adrp", "ldr"} /\ w.rd = "x17")
Reads17(w) == w.op \in {"add17", "br17", "blr17"}
Scratches(w) == w.op \in {"b", "bl", "cond", "ldr"}

\* The trampoline is longer than the function; a branch or a load goes to where
\* it will be; a literal is not 64 bits wide for a general register; x17 is
\* set here to be used behind a word whose relocation needs x17.
Unfit(f) ==
    LET span == Span(f)
        behind == span \ {entry[f]}
    IN \/ \E g \in Func : entry[g] \in behind
       \/ \E a \in DOMAIN pristine : Touched(a) \cap behind # {}
       \/ \E a \in span : pristine[a].op = "ldr" /\ pristine[a].kind # "x"
       \/ \E a \in span :
            /\ Writes17(pristine[a])
            /\ ~ \E b \in span : /\ b > a /\ Reads17(pristine[b])
                                /\ \A k \in (a + 1)..(b - 1) : ~Scratches(pristine[k])

\* f is being overwritten.
Torn(f) == /\ f \notin patched
           /\ \E h \in Hooker : /\ hk[h] # Idle /\ hk[h].f = f
                               /\ hk[h].what = "entry" /\ hk[h].done > 0

\* The functions whose first words are no longer theirs.
Overwritten == {f \in Func : f \in patched \/ Torn(f)}

-----------------------------------------------------------------------------
\* Types of the variables.
TypeOK ==
    /\ DOMAIN pristine \subseteq DOMAIN mem
    /\ DOMAIN mem \subseteq DOMAIN pristine \cup UNION {blocks[f] : f \in Func}
    /\ \A p \in DOMAIN perm : perm[p] \in {"none", "rx", "rw", "rwx"}
    /\ denied \subseteq DOMAIN perm
    /\ entries \subseteq patched /\ patched \subseteq Func
    /\ \A f \in Func : origin[f] \in Nat
    /\ \A h \in Hooker : hk[h].at \in {"idle", "read", "bump", "open", "copy", "close",
                                      "store", "add"}

\* At every moment, a call of a function shows what it would have shown without any
\* hook, but for one call of the replacement where a hooked function is entered
\* (relo_relocate moves the words without changing what they do, the original is
\* stored before the trampoline is written, and neither disturbs another function).
\* This leaves out modules in which an unfit function was overwritten, calls that
\* enter a function while its first words are being written, and what follows when
\* two threads allocate at once.
CallIntact ==
    ~raced /\ ~fault =>
        LET unfit == {g \in Overwritten : Unfit(g)} IN
        \A f \in {x \in Func : \A g \in unfit : Owner[g] # Owner[x]}, c \in BOOLEAN :
            LET ideal == Run(pristine, origin, Overwritten, f, c) IN
            \/ \E g \in Overwritten : Torn(g) /\ <<"hook", g>> \in ToSet(ideal)
            \/ Run(mem, origin, {}, f, c) = ideal

\* Blocks of executable memory never overlap and never leave their arena
\* (allocMemBlock), unless two threads were in allocMemBlock at the same time.
BlocksApart ==
    ~raced =>
        /\ \A f, g \in Func : f # g => blocks[f] \cap blocks[g] = {}
        /\ \A f \in Func : \E a \in {Junk} \cup {b.addr : b \in ToSet(code_arenas)} :
            blocks[f] \subseteq a..(a + PageWords - 1)

\* What a page was when it was mapped.
Before(p) == IF p \in DOMAIN InitialPerm(pristine) THEN InitialPerm(pristine)[p] ELSE "rx"

\* A trampoline or a block ends exactly where page p begins.
PageBehind(p) ==
    \/ \E f \in patched : entry[f] + Len(Trampoline(f)) = p * PageWords
    \/ \E f \in Func : p * PageWords - 1 \in blocks[f]

\* When no hook is under way every page has the permissions it was mapped with, but for one
\* whose mprotect failed, and for the page behind a trampoline or a block that ends exactly
\* at the end of its own page: DobbyCodePatch takes the address after the last byte for
\* the last one, and leaves that page, whoever has mapped it, readable and executable.
PagesRestored ==
    (\A h \in Hooker : hk[h] = Idle) =>
        \A p \in DOMAIN perm \ denied : perm[p] = Before(p) \/ (perm[p] = "rx" /\ PageBehind(p))

\* A write to a page that is not writable happens only when one thread closes its
\* pages while another is patching, the blocks of both being on one page, or when the
\* page was among those that a thread at work could not open.
FaultExplained ==
    fault => \/ met
             \/ \E h \in Hooker :
                    Patching(h) /\ PatchPages(hk[h].addr, Len(hk[h].words)) \cap denied # {}

\* The pages of the process: the state is well formed, what DobbyCodePatch opened is
\* closed again, and a write meets a closed page only when two threads patch or an
\* mprotect failed that nobody looks at.
PagesRight == TypeOK /\ PagesRestored /\ FaultExplained
=============================================================================
