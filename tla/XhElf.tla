------------------------------- MODULE XhElf -------------------------------
(***************************************************************************)
(* xh_elf_init and xh_elf_hook on one ELF image (libxhook/xh_elf.c): the   *)
(* dynamic segment is read, the symbol is looked up in the GNU or the SysV *)
(* hash table, and then the import slots that its relocations name are     *)
(* replaced, first in the PLT, then in the plain and in the packed         *)
(* ("APS2") dynamic relocations.                                           *)
(*                                                                         *)
(* An image is built here the way linkers build it, from what it is meant  *)
(* to say; the code reads it back through the tables.  Numbers have Width  *)
(* bits and the bytes of a sleb128 number carry Payload bits each, small   *)
(* stand-ins for 64 and 7.                                                 *)
(***************************************************************************)
EXTENDS Integers, Sequences, FiniteSets, SequencesExt, FiniteSetsExt

CONSTANTS
    Name,       \* names of symbols
    HashValue,  \* values of the hash function
    Buckets,    \* bucket_cnt
    Width,      \* bits of size_t
    Payload,    \* bits of a sleb128 byte without the continuation bit
    Offset,     \* offsets of import slots
    MaxPacked   \* bound: packed relocations

ASSUME NumberAssumption == Width \in Nat \ {0} /\ Payload \in 2..Width /\ Buckets \in Nat \ {0}

Word == 2^Width
Continue == 2^Payload                 \* the bit 128
Sign == 2^(Payload - 1)               \* the bit 64

\* Relocation types: R_GENERIC_JUMP_SLOT, R_GENERIC_GLOB_DAT, R_GENERIC_ABS.
JumpSlot == 1
GlobDat == 2
AbsAddr == 3
Info(sym, type) == sym * 4 + type
RSym(info) == info \div 4             \* XH_ELF_R_SYM
RType(info) == info % 4               \* XH_ELF_R_TYPE

(***************************************************************************)
(* The linker's side.                                                      *)
(***************************************************************************)
\* Bytes of v as sleb128, v from -Word/2 to Word/2 - 1.
Sleb(v) ==
    LET Fits(u, n) == -(2^(n * Payload - 1)) <= u /\ u < 2^(n * Payload - 1)
        n == Min({k \in 1..Width : Fits(v, k)})
        u == v % 2^(n * Payload)
    IN  [k \in 1..n |-> ((u \div 2^((k - 1) * Payload)) % Continue)
                           + (IF k < n THEN Continue ELSE 0)]
SlebSeq(s) == FlattenSeq([k \in 1..Len(s) |-> Sleb(s[k])])

Bit(x, b) == (x \div b) % 2 = 1
ByInfo == 1      \* RELOCATION_GROUPED_BY_INFO_FLAG
ByDelta == 2     \* RELOCATION_GROUPED_BY_OFFSET_DELTA_FLAG
ByAddend == 4    \* RELOCATION_GROUPED_BY_ADDEND_FLAG
HasAddend == 8   \* RELOCATION_GROUP_HAS_ADDEND_FLAG

\* Packed relocations come in groups: count and flags, what the flags say is given
\* once, and then the rest for each relocation.  Offsets and addends are steps
\* from the one before; the addends are all zero.
Signed(x) == IF x >= Word \div 2 THEN x - Word ELSE x
Steps(relocs, first) ==
    [k \in 1..Len(relocs) |->
        Signed((relocs[k].off - (IF k = 1 THEN first ELSE relocs[k - 1].off)) % Word)]
If(c, s) == IF c THEN s ELSE <<>>
PackGroup(relocs, flags, first) ==
    LET step == Steps(relocs, first)
    IN  <<Len(relocs), flags>>
          \o If(Bit(flags, ByDelta), <<step[1]>>)
          \o If(Bit(flags, ByInfo), <<relocs[1].info>>)
          \o If(Bit(flags, HasAddend) /\ Bit(flags, ByAddend), <<0>>)
          \o FlattenSeq([k \in 1..Len(relocs) |->
                If(~Bit(flags, ByDelta), <<step[k]>>)
                  \o If(~Bit(flags, ByInfo), <<relocs[k].info>>)
                  \o If(Bit(flags, HasAddend) /\ ~Bit(flags, ByAddend), <<0>>)])
FlagsFit(flags, relocs, first) ==
    /\ Bit(flags, ByDelta) => Cardinality(Range(Steps(relocs, first))) = 1
    /\ Bit(flags, ByInfo) => Cardinality({r.info : r \in Range(relocs)}) = 1
\* Two groups: the first cut relocations, and the rest.
Packed(relocs, cut, flags) ==
    LET g1 == SubSeq(relocs, 1, cut)
        g2 == SubSeq(relocs, cut + 1, Len(relocs))
        mid == IF cut = 0 THEN 0 ELSE relocs[cut].off
        Fit(f, g, first) == IF FlagsFit(f, g, first) THEN f ELSE f - (f % 4)
    IN  SlebSeq(<<Len(relocs), 0>>
                  \o If(g1 # <<>>, PackGroup(g1, Fit(flags[1], g1, 0), 0))
                  \o If(g2 # <<>>, PackGroup(g2, Fit(flags[2], g2, mid), mid)))

\* Symbol tables: index 0 is empty; the undefined names come first, the defined
\* ones in the order of their buckets.
SymTab(undef, def, hash) ==
    SetToSeq(undef) \o SetToSortSeq(def, LAMBDA x, y : hash[x] % Buckets < hash[y] % Buckets)
GnuTables(undef, def, hash) ==
    LET sym == SymTab(undef, def, hash)
        off == Cardinality(undef) + 1
        In(b) == {i \in off..Len(sym) : hash[sym[i]] % Buckets = b}
    IN  [kind |-> "gnu", sym |-> sym, symoffset |-> off,
         bloom |-> {hash[n] % 2 : n \in def} \cup {2 + ((hash[n] \div 2) % 2) : n \in def},
         bucket |-> [b \in 0..(Buckets - 1) |-> IF In(b) = {} THEN 0 ELSE Min(In(b))],
         chain |-> [i \in off..Len(sym) |->
                       [hash |-> hash[sym[i]] \div 2,
                        last |-> i = Max(In(hash[sym[i]] % Buckets))]]]
SysvTables(undef, def, hash) ==
    LET sym == SymTab(undef, def, hash)
        In(b) == {i \in 1..Len(sym) : hash[sym[i]] % Buckets = b}
        Above(i) == {j \in In(hash[sym[i]] % Buckets) : j > i}
    IN  [kind |-> "sysv", sym |-> sym,
         bucket |-> [b \in 0..(Buckets - 1) |-> IF In(b) = {} THEN 0 ELSE Min(In(b))],
         chain |-> [i \in 1..Len(sym) |-> IF Above(i) = {} THEN 0 ELSE Min(Above(i))]]

(***************************************************************************)
(* The code's side.  NotFound stands for XH_ERRNO_NOTFND.                  *)
(***************************************************************************)
NotFound == -1

xh_elf_hash_lookup(t, n, h) ==
    LET At[i \in 0..Len(t.sym)] ==
            IF i = 0 THEN NotFound ELSE IF t.sym[i] = n THEN i ELSE At[t.chain[i]]
    IN  At[t.bucket[h % Buckets]]

\* A chain word is the hash but for the lowest bit, which marks the last element.
xh_elf_gnu_hash_lookup_def(t, n, h) ==
    LET At[i \in 1..Len(t.sym)] ==
            IF t.chain[i].hash = h \div 2 /\ t.sym[i] = n THEN i
            ELSE IF t.chain[i].last THEN NotFound ELSE At[i + 1]
        first == t.bucket[h % Buckets]
    IN  IF ~({h % 2, 2 + ((h \div 2) % 2)} \subseteq t.bloom) THEN NotFound
        ELSE IF first < t.symoffset THEN NotFound ELSE At[first]

xh_elf_gnu_hash_lookup_undef(t, n) ==
    LET I == {i \in 1..(t.symoffset - 1) : t.sym[i] = n}
    IN  IF I = {} THEN NotFound ELSE Min(I)

xh_elf_find_symidx_by_name(t, n, h) ==
    IF t.kind = "sysv" THEN xh_elf_hash_lookup(t, n, h)
    ELSE IF xh_elf_gnu_hash_lookup_def(t, n, h) # NotFound
    THEN xh_elf_gnu_hash_lookup_def(t, n, h)
    ELSE xh_elf_gnu_hash_lookup_undef(t, n)

\* Mistake: no sign extension.
SignExtend_none(value, shift, byte) == value
SignExtend(value, shift, byte) ==
    IF shift < Width /\ Bit(byte, Sign) THEN value + Word - 2^shift ELSE value

\* xh_elf_sleb128_decoder_next at cur: the value and the new position, or not ok.
DecodeSleb(bytes, cur) ==
    LET ends == {k \in cur..Len(bytes) : ~Bit(bytes[k], Continue)}
        last == Min(ends)
        Value[k \in (cur - 1)..last] ==
            IF k < cur THEN 0
            ELSE Value[k - 1] + (bytes[k] % Continue) * 2^((k - cur) * Payload)
    IN  IF ends = {} THEN [ok |-> FALSE, value |-> 0, cur |-> Len(bytes) + 1]
        ELSE [ok |-> TRUE, cur |-> last + 1,
              value |-> SignExtend(Value[last], (last - cur + 1) * Payload, bytes[last]) % Word]

VARIABLES
    image,     \* the ELF: its tables, and the relocations they were made from
    elf,       \* xh_elf_t: what has been found of the tables
    name,      \* the symbol to hook
    symidx,    \* its index, once found
    it,        \* the iterator of the packed relocations
    index,     \* the position in the plain relocations
    slot,      \* slot[o]: "orig" or "new"
    pc

vars == <<image, elf, name, symidx, it, index, slot, pc>>

Reloc(infos) == [off : Offset, info : infos]
AnyInfo == {Info(i, t) : i \in 1..Cardinality(Name), t \in {0, JumpSlot, GlobDat, AbsAddr}}
FewInfo == {Info(1, GlobDat), Info(1, JumpSlot), Info(2, AbsAddr)}
\* Relocation tables of at most n entries; a slot has one relocation.
Relocs(infos, n) ==
    {s \in BoundedSeq(Reloc(infos), n) : \A j, k \in 1..Len(s) : s[j].off = s[k].off => j = k}

ZeroIter == [cur |-> 1, count |-> 0, gsize |-> 0, gflags |-> 0, gdelta |-> 0, index |-> 0,
             gindex |-> 0, off |-> 0, info |-> 0]

Tables(undef, def, hash) ==
    [gnu |-> GnuTables(undef, def, hash), sysv |-> SysvTables(undef, def, hash)]
Image(dynamic, t, hash, plt, dyn, packed, cut, flags) ==
    [dynamic |-> dynamic, tables |-> t, hash |-> hash, plt |-> plt, dyn |-> dyn,
     packed |-> packed, android |-> Packed(packed, cut, flags)]
NoHash == [n \in Name |-> 0]
Imports == Tables(Name, {}, NoHash)
Usual == <<"gnu", "symtab", "strtab", "null">>

NoImage == Image(<<>>, Imports, NoHash, <<>>, <<>>, <<>>, 0, <<0, 0>>)
Start ==
    /\ elf = [symtab |-> FALSE, strtab |-> FALSE, hash |-> "none"]
    /\ symidx = NotFound
    /\ it = ZeroIter
    /\ index = 1
    /\ slot = [o \in Offset |-> "orig"]
    /\ pc = "init"

\* The images: any dynamic segment; any hash tables; any plain relocations; any
\* packed relocations.
Init ==
    /\ name \in Name
    /\ \/ \E dynamic \in BoundedSeq({"gnu", "sysv", "symtab", "strtab", "null"}, 5) :
              image = Image(dynamic, Imports, NoHash, <<>>, <<>>, <<>>, 0, <<0, 0>>)
       \/ \E hash \in [Name -> HashValue], undef, def \in SUBSET Name, table \in {"gnu", "sysv"} :
              /\ undef \cap def = {}
              /\ image = Image(<<"symtab", "strtab", table>>, Tables(undef, def, hash), hash,
                               <<>>, <<>>, <<>>, 0, <<0, 0>>)
       \/ \E plt \in Relocs(AnyInfo, 1) : \E dyn \in Relocs(AnyInfo, 2 - Len(plt)) :
              image = Image(Usual, Imports, NoHash, plt, dyn, <<>>, 0, <<0, 0>>)
       \/ \E packed \in Relocs(FewInfo, MaxPacked), f, g \in {0, 1, 2, 3, 8, 12} :
              \E cut \in 0..Len(packed) :
                  image = Image(Usual, Imports, NoHash, <<>>, <<>>, packed, cut, <<f, g>>)
    /\ Start

\* xh_elf_init: the entries in the order of the segment, DT_HASH only as long as
\* there is no DT_GNU_HASH, up to DT_NULL; then xh_elf_check.
Entry(tag) ==
    CASE tag \in {"symtab", "strtab"} -> [elf EXCEPT ![tag] = TRUE]
      [] tag = "sysv" -> [elf EXCEPT !.hash = IF @ = "gnu" THEN @ ELSE "sysv"]
      [] tag = "gnu" -> [elf EXCEPT !.hash = "gnu"]
xh_elf_init ==
    /\ pc = "init"
    /\ IF index > Len(image.dynamic) \/ image.dynamic[index] = "null"
       THEN /\ pc' = IF elf.symtab /\ elf.strtab /\ elf.hash # "none" THEN "lookup" ELSE "failed"
            /\ index' = 1
            /\ UNCHANGED elf
       ELSE /\ elf' = Entry(image.dynamic[index])
            /\ index' = index + 1
            /\ UNCHANGED pc
    /\ UNCHANGED <<image, name, symidx, it, slot>>

lookup ==
    /\ pc = "lookup"
    /\ symidx' = xh_elf_find_symidx_by_name(image.tables[elf.hash], name, image.hash[name])
    /\ pc' = IF symidx' = NotFound THEN "done" ELSE "plt"
    /\ UNCHANGED <<image, elf, name, it, index, slot>>

\* xh_elf_find_and_replace_func: the symbol and the type must fit.
Found(r, plt) ==
    /\ RSym(r.info) = symidx
    /\ RType(r.info) \in IF plt THEN {JumpSlot} ELSE {GlobDat, AbsAddr}
\* xh_elf_replace_function, which fails when the protection of the slot cannot be
\* read or set; then xh_elf_hook returns at once.
Replace(r, plt, next) ==
    IF ~Found(r, plt) THEN slot' = slot /\ pc' = next
    ELSE \E ok \in BOOLEAN :
            IF ok THEN slot' = [slot EXCEPT ![r.off] = "new"] /\ pc' = next
            ELSE slot' = slot /\ pc' = "failed"

\* The PLT has one relocation for a symbol: the loop ends with it.
plt_next ==
    /\ pc = "plt"
    /\ IF index > Len(image.plt)
       THEN pc' = "dyn" /\ index' = 1 /\ UNCHANGED slot
       ELSE LET r == image.plt[index]
            IN  /\ Replace(r, TRUE, IF Found(r, TRUE) THEN "dyn" ELSE "plt")
                /\ index' = IF Found(r, TRUE) THEN 1 ELSE index + 1
    /\ UNCHANGED <<image, elf, name, symidx, it>>

dyn_next ==
    /\ pc = "dyn"
    /\ IF index > Len(image.dyn)
       THEN pc' = "android_init" /\ UNCHANGED <<slot, index>>
       ELSE Replace(image.dyn[index], FALSE, "dyn") /\ index' = index + 1
    /\ UNCHANGED <<image, elf, name, symidx, it>>

\* The next number, if it is wanted, is appended to vals, 0 otherwise, and the iterator
\* is moved behind it.  Once the data has ended, ok stays FALSE.
Pop(st, want) ==
    LET d == DecodeSleb(image.android, st.it.cur)
    IN  IF ~want \/ ~st.ok THEN [st EXCEPT !.vals = Append(@, 0)]
        ELSE [ok |-> d.ok, vals |-> Append(st.vals, d.value),
              it |-> [st.it EXCEPT !.cur = d.cur]]
\* The numbers of a list of which each one is there or not.
PopAll(i, ok, wants) == FoldLeft(Pop, [ok |-> ok, vals |-> <<>>, it |-> i], wants)

xh_elf_packed_reloc_iterator_init ==
    /\ pc = "android_init"
    /\ LET head == PopAll(ZeroIter, TRUE, <<TRUE, TRUE>>)
       IN  it' = [head.it EXCEPT !.count = head.vals[1], !.off = head.vals[2]]
    /\ pc' = "android"
    /\ UNCHANGED <<image, elf, name, symidx, index, slot>>

\* xh_elf_packed_reloc_iterator_read_group_fields: the head of a group, then what
\* its flags f say is given once.
GroupFields(head, f) ==
    LET rest == PopAll(head.it, head.ok,
                       <<Bit(f, ByDelta), Bit(f, ByInfo), Bit(f, HasAddend) /\ Bit(f, ByAddend)>>)
    IN  [ok |-> rest.ok,
         it |-> [rest.it EXCEPT !.gsize = head.vals[1], !.gflags = f, !.gindex = 0,
                                !.gdelta = IF Bit(f, ByDelta) THEN rest.vals[1] ELSE @,
                                !.info = IF Bit(f, ByInfo) THEN rest.vals[2] ELSE @]]
ReadGroup(head) == GroupFields(head, head.vals[2])

\* What the flags f leave to each relocation.
RelocFields(g, f) ==
    LET each == PopAll(g.it, g.ok,
                       <<~Bit(f, ByDelta), ~Bit(f, ByInfo), Bit(f, HasAddend) /\ ~Bit(f, ByAddend)>>)
    IN  [ok |-> each.ok,
         it |-> [each.it EXCEPT !.off = (@ + (IF Bit(f, ByDelta) THEN g.it.gdelta
                                              ELSE each.vals[1])) % Word,
                                !.info = IF Bit(f, ByInfo) THEN @ ELSE each.vals[2],
                                !.index = @ + 1, !.gindex = @ + 1]]

\* xh_elf_packed_reloc_iterator_next; ok = FALSE where the code returns NULL.
IterNext ==
    LET g == IF it.gindex = it.gsize THEN ReadGroup(PopAll(it, it.index < it.count, <<TRUE, TRUE>>))
             ELSE [ok |-> it.index < it.count, it |-> it]
    IN  RelocFields(g, g.it.gflags)

android_next ==
    /\ pc = "android"
    /\ IF IterNext.ok
       THEN /\ it' = IterNext.it
            /\ Replace([off |-> it'.off, info |-> it'.info], FALSE, "android")
       ELSE pc' = "done" /\ UNCHANGED <<it, slot>>
    /\ UNCHANGED <<image, elf, name, symidx, index>>

Next ==
    \/ xh_elf_init \/ lookup \/ plt_next \/ dyn_next
    \/ xh_elf_packed_reloc_iterator_init \/ android_next

Spec == Init /\ [][Next]_vars

-----------------------------------------------------------------------------
\* The type invariant.
TypeOK ==
    /\ elf \in [symtab : BOOLEAN, strtab : BOOLEAN, hash : {"none", "sysv", "gnu"}]
    /\ symidx \in {NotFound} \cup 1..Cardinality(Name)
    /\ it.cur \in 1..(Len(image.android) + 1)
    /\ slot \in [Offset -> {"orig", "new"}]
    /\ pc \in {"init", "lookup", "plt", "dyn", "android_init", "android", "done", "failed"}

\* The lookup finds the symbol if and only if the image has it, wherever the linker
\* put it, defined or imported, with either table, in whatever order the segment
\* names them and whatever hash values collide.
LookupFinds ==
    pc \in {"plt", "dyn", "android_init", "android", "done"} =>
        LET sym == image.tables[elf.hash].sym
        IN  IF name \in Range(sym) THEN symidx # NotFound /\ sym[symidx] = name
            ELSE symidx = NotFound /\ pc = "done"

\* The packed relocations are read back as they were packed: groups, flags, signs
\* of the steps and the wrap of the offsets included.
UnpacksRelocs ==
    pc = "android" /\ it.index > 0 =>
        [off |-> it.off, info |-> it.info] = image.packed[it.index]

Imported(relocs, types, o) ==
    \E r \in Range(relocs) :
        /\ r.off = o /\ RType(r.info) \in types
        /\ RSym(r.info) \in {i \in 1..Len(image.tables.gnu.sym) : image.tables.gnu.sym[i] = name}

\* Only slots of the symbol's relocations of the right types are ever replaced, and
\* a hook that was not cut off by a failure has replaced all of them.
HookExact ==
    \A o \in Offset :
        LET wanted == \/ Imported(image.plt, {JumpSlot}, o)
                      \/ Imported(image.dyn \o image.packed, {GlobDat, AbsAddr}, o)
        IN  /\ slot[o] = "new" => wanted
            /\ pc = "done" /\ wanted => slot[o] = "new"

\* From the tables of the image to its slots: the state is well formed, the symbol is
\* found, the relocations are read back, and exactly its slots are replaced.
HookRight == TypeOK /\ LookupFinds /\ UnpacksRelocs /\ HookExact
=============================================================================
