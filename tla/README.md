# android_analysis: TLA+ models

The repository is a tool for watching Android applications. A Frida script
(`frida/analyse.js`) or an Xposed module injects `libnative_hook.so` into a
process; that library hooks the JNI traffic between Java code and one native
module and logs it. Next to it there are hooks on libc functions, a packet log, a
small traffic sniffer, and an Android application that controls the Xposed
plugins of other processes.

This directory holds TLA+ models of the parts whose correctness depends on
order, threads, failures or boundary values, the TLC runs that check them on
small instances, and TLAPS proofs of the invariants that matter most.

## Inventory

| Component | State | Operations | What is hard |
|---|---|---|---|
| Environment map (`hook_jni/global_code.cpp`, `jni_env_hook.cpp`) | `g_map_jnievn`, `g_fake_env`, `g_fake_jvm` | `push_origin_env`, `get_origin_env`, the functions of the faked `JNIEnv` and `JavaVM` | threads detach and end, tids and environments are reused, entries are never replaced |
| Native method hooks (`hook_jni/jni_native_hook.cpp`, `enum_jni_static_method.cpp`) | `static_jni_func_infos`, `reg_jni_func_infos`, `g_tar_module`, the `native_method_info` objects | `init_jni_hook`, `hook_RegisterNatives`, `hook_native_func`, `update_method_info`, `hook_jni_onload` | no lock anywhere; calls run while patches are set; the module may be loaded again |
| Call routing (`route_func/`) | a stack frame | `create_shellcode_hooking_func`, `route_jni_func` | argument counts beyond the registers, alignment |
| Signature parser (`hook_jni/parse_java_sig.cpp`) | none | `parse_java_signature`, `parse_java_pretty_name`, `parse_java_lang_name` | mangled and overloaded names, arrays, malformed input |
| Libc file hooks (`hook_libc/file_hook.*`, `base_hook.cpp`, `filter.h`) | `g_hook`, `hook_file_list`, `fd_index` | register, unregister, the `hook_*` functions | real handles are reused between close and removal |
| Memory file (`hook_libc/memory_file.h`) | buffer, length, capacity, offset | read, write, seek, `fgets` | growth, offsets past the capacity |
| Libc watcher (`hook_libc/only_watch.cpp`) | none | `hook_libc_func` | the number of arguments is in a format string |
| libxhook (`libxhook/`) | lists of hooks and exceptions, the tree of known ELFs, the worker's flags, the fault handler | register, ignore, refresh, clear | refreshes of several threads, ELFs that come and go under the walk, packed tables |
| Dobby (`dobby/`) | executable blocks, patched code, page permissions | `DobbyHook` | moving instructions, patching code that runs |
| Module lookup (`dlfc/dlfcn_nougat.cpp`) | a handle | `fake_dlopen`, `fake_dlsym`, `fake_dlclose`, `fake_enumerate_module` | libraries come and go while the maps are read; many ways to fail |
| Packet log (`hook_ssl/main.cpp`), log (`utils/log.h`) | an output file | writes of several threads, change of the file | records written in parts |
| Sniffer (`sniffer/sniffer.cpp`) | firewall rules | a run | a command fails half way |
| Xposed service and loader (`com/caller`, `com/plug`) | the setting's file, maps of clients | choose, load, bind, register, command, broadcast | processes die and come back, files are read while written |

The parts meet as follows. `init_jni_hook` is meant to run after each load of the
module: `inject_jnitrace` of `analyse.js` does so. (At this commit the call of it at
line 92 is commented out, and line 97 loads the watcher, `only_watch`, instead.)
`init_jni_hook` finds the module with `fake_dlopen`, builds the faked
environment, lists the exported native methods, and patches each with Dobby to
jump to a piece of shellcode that carries the address of its
`native_method_info`. A call from Java then runs `hook_native_func`, which
records the thread's environment in the map and routes the call with the faked
environment; a JNI call of the module runs `hook_other_methods` or
`hook_call_methods`, which look the environment up and route the call to the
runtime. `RegisterNatives` (slot 215) goes to `hook_RegisterNatives`, which puts
shellcode in the place of the functions registered. The libc hooks are set with
libxhook, the packet log with `fake_dlopen` and Dobby. The Xposed loader runs in
every application process, reads the setting that the application wrote, and
registers with the application's service for commands.

## Modules

**OriginEnv** models the map and everything that reads or writes it. `tid` and
`vmEnv` are what the kernel and the runtime give each thread; `held` and `outer`
are the environment pointers in the hands of the module's code, in the innermost
frame and the one below; `routed` is what became of the thread's last call
through the faked environment; `recycled` is a history of the tids on which a
recorded environment has ended. `hook_native_func`, `fake_AttachCurrentThread`
and `fake_GetEnv` push, `hook_other_methods` and `hook_call_methods` look up;
`AttachCurrentThreadAsDaemon` and `DetachCurrentThread` are the slots that
`hook_jvm_methods` passes on as they are, so that a thread attached as a daemon
works with the real environment, unseen.

**NativeHook** models the life of the hooks. All `native_method_info` objects are
in the sequence `infos`; `patched` and `entry` hold the indices that shellcode
carries. The overloads of a name are a set of places in the list of declared methods,
and the code takes them in the order of that list. Unlocked sequences of the code are split where another thread can see
the difference: `args_type` is being rewritten from the moment a thread assigns it
to the end of the parsing that works in it (`assign`), `push_back` reads the vector
before it writes it, and Dobby stores `origin_call` before the patch goes live. A
thread that uses an info which was destroyed, which another thread is rewriting, or
which two threads have rewritten at once (`torn`), is `Unsound`: the process may die
there, it may go on with the bytes as they were, and the count it takes may be
anything; of a name that is being rewritten the comparison may fail. `clashed` is the
history of such uses of an info that is being rewritten. A module may have symbols
that end where their argument types would begin (`wild`): the parser then reads behind
the pieces of the symbol, and the process may die in the enumeration. The loads are
bounded by `MaxLoads`, the methods in calls of `RegisterNatives` by `MaxReg`, both
together by `MaxMoves`.

**RouteFunc** models one call through a hook on arm64, a step for each block of
the assembly, with the stack in words relative to x19. The count of stack words
is computed as the three hooks compute it (`hook_native_func`,
`hook_call_methods`, and `hook_libc_func` from the directives of a format); what
the callee takes is the calling convention's. **JavaSig** holds the three parsers
as operators on sequences of characters and keywords, and **JniCall** composes
both: a method becomes known through `RegisterNatives`, through an exported symbol
or from the runtime, in the form in which each writes it, and its calls are routed
with what the parsers made of that.

**FileHook** models the libc file hooks: the registrations (`hook_file_list`, the
numbers given to clients in `reg`), the map `g_hook` from handles to `file_hook`
objects, and threads inside `hook_fopen`, `hook_fread`, `hook_fclose` and their
relatives. Each use of a lock is one step, and so are the real open and the real
close, after which the system may give the handle to another thread. Filters are
of three kinds: those that let the open happen, `memory_file`, which gives its
own address as the handle, and `none_file_filter`, which gives none. `owner`
records for which path a handle was really opened; `reused` and `fakeInLibc` are
histories of the two things that spoil the map. The hooked program is taken to
be correct: it uses and closes only handles it has open. `popen` and `pclose`
take the same steps as `fopen` and `fclose` (without a filter they call the same
functions).

**MemoryFile** models `memory_file` as `file_hook` drives it. `alloc` is what was
really allocated and `alllen` the capacity the code reckons with: they differ
when a buffer is adopted. The comparison of the remaining room is unsigned, as in
the code. A call that leaves the buffer sets `broken` and ends the behaviour.
**ByteFile** is what the filter promises: bytes, size and position, full reads,
and writes that may store a part only. MemoryFile is shown to implement it with
`bytes <- share_data`, `size <- len`, `pos <- off`.

**XHook** models `xh_core.c`: `hook_info` and `ignore_info` are the lists, `inits`
and `async` the flags of the two "once" functions and of the worker, `walk` the
refresh in progress, `slot` and `old` what import slots and `*old_func` hold. The
locks are taken where the code takes them and nowhere else: `xh_core_inited` is
read before the lock, the walk reads the lists without `xh_core_mutex`, a clear
resets the flags unlocked. A replacement takes two steps, since the old function is
stored first, and may fail at any hook (the page is not found in the maps, or cannot be
made writable): then nobody looks at the result, and the ELF is recorded as known
(`missed` is the history of such hooks). When the entry of an ELF cannot be allocated it
is left out of this walk. The linker loads and unloads ELFs at any moment; a walk
that reads an unmapped one faults, and `handler`, `flag` and `once` decide whether
`xh_core_sigsegv_handler` saves it (`sa_flags` is never set: `once` is one of its
possible contents). Exceptions are modelled as the code has them: one for a symbol
that a hook names takes the whole ELF out of the walk's hands. `Reached(f)`, what a
call of `f` passes when every hook calls its old function, is the smallest set that
holds `f` and with a hook its old function.

**XhElf** models `xh_elf.c` on one image: the dynamic segment in any order, the
lookup in the SysV or the GNU hash table, and the walk over the three kinds of
relocations, packed ones included, with words of `Width` bits that wrap. The
tables are those that a linker writes for the image. **RbTree** models the trees
of `tree.h` as `xh_core_refresh_impl` and `xh_core_clear` use them, one step for an
operation or for a round of its colour loop; `Rotate(.., "left")` is
`RB_ROTATE_LEFT`, and mirrored code is one definition with a side. **PathSets** is
what the walk needs of the trees, two sets of paths; RbTree is shown to implement
it with the keys of the trees, an entry between its removal and its insertion
belonging to the new set.

**Dlfcn** models `dlfcn_nougat.cpp`: the maps are read line by line, each as things
are at that moment, the file's section headers one at a time, and `held` is what the
call has open, mapped or allocated, the buffer of the `std::string` `full_path` among
it, which a path has unless it is `brief` and which no exit frees. `fake_dlsym` computes addresses from the first
executable mapping and the bias of the first code section, as the code does: the
answer is wrong when the two do not fit, as for code that does not start at the
beginning of the file, and `AnswerRight` says exactly when.

**Dobby** models `DobbyHook` on arm64 by one thread per module. Memory is a function
from word addresses to instructions or halves of addresses. `RelocateWord` moves an
instruction as `relo_relocate` does, `Trampoline` is the code written over the
function, `AllocRead`/`AllocBump` are the unlocked allocator, `Open`, `Copy` and
`Close` the steps of `DobbyCodePatch`. A new arena is any page of `Free`, next to
whatever else the process has mapped there: a module, another arena or the `Foreign`
pages. The `mprotect`s of `DobbyCodePatch` and of a new arena may fail on the pages of
`Refusing`, and the code goes on (`denied` is the history); when the first one of
`DobbyHook` fails it returns `RS_FAILED` and has changed nothing. `Run` executes a function of the memory and
gives what a caller observes, so that the property compares executions and not
encodings.

**Xposed** models the application, its service and the processes with the loader:
`file` is `plug_config.json` between the opening that empties it and the write, either
of which may fail; a process may not be allowed to read it, and its read may end in an
exception. `Proc` are lives of processes: one that starts again is another. A
registration tests for its name and then puts itself into a plain `HashMap`; a put has a
beginning and an end, and of puts that overlap entries may be lost. `plug_name_2_client` and `service_handle_2_plug_name` are the maps of the service,
`call` the commands and broadcasts under way on binder threads. All clients bind
with equal intents and so share one binder.

**PacketLog**, **Sniffer** and **LogFile** are three small programs: the packet log
with its replaced writer and records in two parts, the commands of the sniffer with
the rules they leave, and the switch of the log to a file while threads write.
**Capture** puts them side by side for one run, and **MCLookup** does so with
XhElf, RbTree and Dlfcn. A behaviour of these is one of one part. The other `MC`
modules give constants their values.

Definitions whose names carry a suffix after a mapped name and a comment
"Mistake" are deliberate faults: each property of a run is violated when one of them
takes the place of the definition it varies.

## Runs

A property of a run that is written below as a name and its parts is the conjunction
of these; the parts are what the modules state and explain.

| Run | Instance | Shows |
|---|---|---|
| `origin_env` | 1 Java and 2 native threads, 3 tids, 3 environments | `FakeEnvResolves`: a lookup is never in vain. `OriginEnvCurrent`: the environment is the caller's own until its tid is recycled |
| `native_hook` | 2 threads, 2 overloads, 2 functions, one of them exported with a long symbol that may have no arguments in it, 2 loads and 2 registrations, at most 3 together, one of a malformed signature | `BindingsRight` (`HookTransparent`, `GapReported`), `ArgsSettled`, `CrashExplained` |
| `native_hook_live` | 2 threads that register at once and again | `CallReachesBody` |
| `jni_call` | some 1,200 methods, up to 10 arguments, all slots, formats with widths | `DeclarationRead` (`SymbolRead`, `KindsRead`, `KnownCountCovers`, `PrintedRead`): what the parsers make of a method and the count that follows. `RoutesAsDeclared`: the count is the one RouteFunc takes. `CallRouted` (`StackAligned`, `PushedAboveSp`, `EvenCallIntact`, `OddCallShifted`): what reaches the callee |
| `file_hook` | 2 threads, 2 clients, 3 patterns over 2 paths, 1 real handle, 2 objects, 3 registrations | `FiltersRight` (`RightFilter`, `CrashOnlyAfterReuseOrFake`): what goes wrong does so through a reused handle or a filter's own address only. `NoOtherLeak`, `RegistrationsRight` (`NoDuplicatePattern`, `RegistrationKept`) |
| `memory_file` | files of up to 6 bytes, 3 byte values, calls of up to 2 bytes | `ImplementsByteFile`, `BufferRight` (`OverrunOnlyFromOutside`, `WriteStores`) |
| `xhook` | 2 threads, 2 workers, 2 hooks and an exception of one symbol, an ELF with 2 addresses, replacements that fail | `CallReachesOriginal`: what a call through a slot meets. `RefreshHooks`: what a refresh leaves. `CrashOnlyWhenExposed`, `WalksApart` (`TypeOK`, `OneWorker`) |
| `xhook_live` | 1 thread that registers, refreshes, switches the protection and clears; its workers; an ELF with bad tables | `AsyncServed`, `CallReturns` |
| `lookup` | every image with 3 names, 2 buckets and up to 3 packed relocations; 7 paths and 2 refreshes; 2 libraries that move twice | `HookRight` (`TypeOK`, `LookupFinds`, `UnpacksRelocs`, `HookExact`); `TreesRight` (`RedBlack`, `DrainSafe`), `ImplementsPathSets`; `ScanRight` (`FindsFirst`, `EnumeratesAll`), `AnswerRight`, `HandsBack` |
| `dobby` | 2 threads, 3 functions of 2 modules, some 30 prologues, 2 places for arenas, one in front of a foreign page and one behind a module, 2 pages that may refuse | `CallIntact`: a call shows what it showed before but for the replacement. `BlocksApart`, `PagesRight` (`TypeOK`, `PagesRestored`, `FaultExplained`) |
| `xposed` | 3 processes, 2 of one name, 3 starts, 1 caller, 2 lives of the application | `HookedOnlyIfChosen`, `AcceptedReachable`, `CommandsArrive` (`TypeOK`, `Delivered`) |
| `capture` | 2 threads and 4 records, 3 writers; 3 sniffs; 2 threads that log, 2 switches | `RecordsRight` (`PacketTypeOK`, `NoNullWriter`, `RecordsWhole`, `RecordsKept`); `RulesRight` (`CaptureComplete`, `MarkedIsLogged`); `LogCrashOnlyUnopened` |

Several properties state a promise together with the exact limit at which the code
breaks it, and so document what a user has to know:

- until its tid is recycled a thread's calls get its own environment, afterwards
  perhaps a dead one (`OriginEnvCurrent`);
- an odd number of stack words reaches the callee one place too low, the first one
  unwritten (`OddCallShifted`);
- the JNI slots with `...` are given no stack words (`jni_env_hook.cpp:99-104`), and
  their arguments past the registers are lost: `CallRouted` speaks of the counts that
  cover the arguments, and `KnownCountCovers` of native methods and formats only;
- the process may die at a first load, when two threads make the first call of a method
  together or when a symbol ends where its arguments would begin (`CrashExplained`),
  and two threads that parse a method at once may leave a wrong count (`ArgsSettled`);
- a refused duplicate registration carries the number of the first registration, so
  that taking it back removes that one (`RegistrationKept`);
- an ELF that comes back to the address it had is not hooked again, and neither is one
  in which a replacement failed (`RefreshHooks`);
- a process that cannot read the setting hooks itself, and so does one that starts while
  it is written or after a write that failed (`HookedOnlyIfChosen`);
- two registrations of one name that race may both be told that they hold it, and one
  whose put overlaps that of another name may be lost (`AcceptedReachable`); a command
  may miss such a client, or meet null (`CommandsArrive`);
- the path of a library that was found is never freed (`HandsBack`);
- the page behind a trampoline, or behind a block that fills its arena, is left readable
  and executable, whoever has mapped it, and a page whose `mprotect` failed is left as
  it was or faults under the copy (`PagesRestored`, `FaultExplained`);
- a part of a record that cannot be written is lost unnoticed (`RecordsRight`).

The bounds are the smallest that let the cases happen. Three tids for three
threads allow every thread to run at once and a finished thread's tid to be
taken by another. Two overloads of different lengths tell right and
wrong argument lists apart. A second registration meets a first one of the same
function, from the same or another thread. Ten arguments give even and
odd counts above the registers for each hook. One real handle is
enough for a handle to be reused while its last use is being closed, and two
objects, with opens that have none, for a double deletion. An arena of 64 words is filled
to its last word by some prologues and exceeded by others. Six bytes let a
capacity of two grow three times. Two addresses let an ELF move and come back; two
hooks of one symbol chain. Seven paths make a tree of black height three in which
every case of the colour loops occurs, on both sides; a second refresh removes from
it in any order. Five bits with numbers of two make packed numbers of up to three
parts that wrap. Two moves let a library leave and another take its place within
one call. Two applications' lives let a client meet a service that has forgotten
it. Threads, the clients of FileHook and the hooks and addresses of XHook are
interchangeable, and the safety runs use that symmetry where it is declared; the
liveness runs do not. Deadlock is checked where the system cannot stop; elsewhere a process that has crashed, ended or
used up its bounds stops.

Fairness. `CallReachesBody` assumes weak fairness of the steps of a thread that is
inside a hook, per thread. The hooks take no lock and wait for nobody, so a
thread the kernel schedules always goes on. Nothing is assumed of the module, of
Java code or of loads. `AsyncServed` and `CallReturns` assume strong fairness of
each caller inside the library and of the worker: they contend for two mutexes, and
a thread that waits for a mutex which is free again and again gets it in the end.
Nothing is assumed of when calls are made, of the linker or of faults.

## Proofs

`ThreadProofs` proves `TypeOK`, `FakeEnvResolves` and `OriginEnvCurrent` of OriginEnv for
any sets of threads, tids and environments, from the assumptions that the two
kinds of thread are disjoint and that the null values are none of the others.
The invariants are not inductive. `IInv` adds that running threads have distinct
tids (`TidUnique`), that only a running, attached thread holds a pointer
(`HolderAttached`), and `EntryOwned`: an entry whose tid was never recycled
belongs to a thread that runs with that tid and that environment. `EntryOwned`
is the heart of it: a statement about every tid, so that a thread which starts on
a used tid can only meet an entry that is marked as recycled.

`JniCallProofs` proves `TypeOK`, `StackAligned`, `PushedAboveSp`,
`EvenCallIntact` and `OddCallShifted` of RouteFunc, and so `CallRouted`, without the
bounds on arguments. `FrameInv`
describes the frame in the middle of the loop: word i of the arguments is at
i - argc, sp is the last word pushed or one below, which then nobody has written,
and nothing else was written. `CountsCover` adds, from an invariant of its own
(`CountInv`, the count stays that of the call), that the counts of
`hook_native_func` and of the watcher cover what the callee takes, however the
arguments divide into integer and floating-point ones.

It then proves all properties of JniCall, `JTypeOK`, `CallRouted`, `DeclarationRead` and
`RoutesAsDeclared`, for every set of Java declarations: any packages, any identifiers,
any number of arguments of any types and dimensions. `DeclAssumption` says what a
declaration is: names are made of identifiers, an identifier is not empty, does not
begin with a digit and contains no separator of a path, a type or a signature, a type is
a keyword or a class, and the bounds on calls admit the number of its arguments. The Java
language and the compiler see to that. The invariant of the composition, `JInv`, is
short: what the hook knows is `Right` for the declaration, and while it is the count is
the call's. All the work is in showing that what the parsers return is right
(`AllRead`), in three steps of which the first two are `JavaSigProofs`:

- signatures: `split_args_sig` is followed word by word (`SplitWords`), each word being
  what `TypeSigWord` says a type is written as;
- printed names: the positions of the parentheses, spaces and points of the line are
  known (`LineRead`), its arguments are split at the commas again (`ArgsSplit`), and each
  is converted back to its signature (`TypeConverted`);
- symbols: mangling replaces every letter by one or two (`IsCode`), and the parser undoes
  one escape at a time by a replacement over the whole text. `Unescape` says when such a
  replacement reads one escape back and leaves the others. For the name that needs two
  replacements, for the argument types two more (`LayerIs`), between which an underscore
  may come from an underscore or from a slash; the two are never told apart again, which
  is why only the kinds of arguments are right and not the names of their classes.
  `DoubledFrom` and `RefusedFrom` say of which names a symbol has the separator or
  the refused escape where none is meant, `LongSplit` that every other is cut in the
  right place, and `SymbolParsed` puts it together: a symbol is read as it was declared
  or its name is awkward.

These proofs need induction over the positions of a text, which the library's induction
theorems do not offer here. `Induct` takes the least position at which a set of positions
fails, and the value of a recursive function is described by its steps (`IsReplace`,
`IsSplit`, `Runs`) before anything is proved of it.

`FileProofs` proves all four properties of FileHook for any number of clients,
patterns, threads, handles and objects, assuming that a filter's address is no `FILE`
pointer of libc. `RegInv`, for the registrations, adds that numbers given out are
numbers of entries (`HandleIssued`) and that, until a duplicate is refused, no two
clients have the same one (`HandleOwn`). `FileInv`, for the handles, says that until a
handle is reused the map follows the truth (`EntriesRight`: `g_hook[h]` is the object
that `h` was opened with, except between an open and its insertion and between a close
and its removal), that a removal finds its own entry (`RemovalsRight`), that an object
is in the hands of one thread or behind one handle (`ObjectsApart`), and that what can
be reached exists and the other way round (`HeldLive`, `LiveHeld`). None of these is
inductive without the others.

It also proves that MemoryFile implements ByteFile, and its three
invariants, for every set of bytes and all bounds. The refinement needs one fact
that no property states, `ZeroTail`: the buffer is zero behind the end, so that
growing, which copies the file and clears the rest, changes nothing. Each call is
one operation of ByteFile, or a stutter when it leaves the buffer.

`NativeHookProofs` proves the four invariants of NativeHook for any number of threads,
methods, overloads, loads and registrations. `NInv` follows an entry point through
everything that can carry it: patches and entry points (`PatchesRight`,
`EntriesRight`), the table that a thread is preparing for the runtime (`FakeRight`, in
`ThreadsRight`) and the context of a thread inside a hook all name infos whose
`origin_call` is stored, and a row that stays unhooked is in the log. `FirstLoad`,
`OneRegisters` and `TornClashed` carry the limits: until a second load no info is
destroyed, unless two threads raced one at a time registers, and an info is torn only
by a clash. That a symbol is wild is settled at the start.

`XHookProofs` proves the four invariants of XHook for any number of threads, workers,
ELFs, symbols, hooks and exceptions, with clears, faults and reloads at any moment, and
without the symmetry of the run; also with a switch of the protection, which of the runs
only `xhook_live` makes. `XInv` has eleven parts. `CallInv` is `TypeOK` with what a
call in progress holds, `OnceInv` says that until a clear the "once" functions run once
and nobody passes them before they are through, `ProtectInv` that the handler and its
flag are there while a walk is inside an ELF, and `ListInv` that no hook is entered
twice. The rest is about the walk. `ChainInv`, a hook that can be called has an old
function, gives the first half of `CallReachesOriginal`. `OrderInv`, the old function of a
hook stands before it in the list, gives the second: a closed set of functions contains
with a hook the one before it, down to the original. `OrderInv` needs `KnownInv`, that
an ELF with hooks in it is known with its address and so is never hooked on top of its
own hooks. `SlotInv` describes the slots of the ELF in progress up to the hook that is
next (`Before`), which becomes `RefreshHooks` at its end; `MissInv`, that a replacement
which failed in it is of a hook before that one, keeps `missed` from spoiling the rest
of the walk. `UsedInv` keeps the addresses
that the library knows apart from the new ones.

`XposedProofs` proves the three invariants of Xposed for any sets of processes, settings
and callers and any number of lives of the application, assuming that no setting is the
empty text. `XposedInv` has a part for the file (an undisturbed read sees one version of
it, and an empty file was left by a death or a failure), one for the service
(`PutsApart`: registrations under way with one name have raced, so has the client that
one of them finds under its name, and so have puts that overlap; then an entry that is
replaced or lost is of one that raced) and one for the commands (each client that was in
the table at the beginning has been told, is still on the list, or has raced).

`ThreadProofs` also proves the invariants of Capture's three small programs for any number of
threads, records, writers, switches, users and sniffs. For the packet log it follows
each record through its two parts (`Progress`: the text of a record that nobody
overlapped and that did not fail is the last thing in the file), for the sniffer it counts rules by their
positions (a user whose commands are under way is one mark ahead), and for the log it
says when the file is null.

`InlineProofs` proves what `init_jni_hook` relies on for each function it patches. For
Dlfcn, the three invariants hold for any libraries, layouts of their files and number of
loads and unloads, assuming that there are finitely many libraries (`LibAssumption`) and
that a library is smaller than the distance of two load addresses (`LayoutAssumption`):
the linker maps libraries without overlap. `DlInv` says where a call stands: what it
holds is settled by where it stands and the tables it has read (`HeldInv`), but for the
path's buffer, which is there from the line on (`PathInv`), of the sections read
so far none was the one that gives the bias, or the bias is that one's (`SectionInv`),
everything that stayed where it was and lies at or below the line read last was seen
(`ScanInv`), and the answer is computed from the line found (`AnswerInv`). `ScanInv` is
the reason that lines which appear and vanish during the scan do no harm: it speaks of
the addresses below `pos` only, and of libraries that did not move.

For Dobby it proves `BlocksApart` and `PagesRight` for any number of threads, functions
and modules. `MapAssumption` says that a page holds a block and that modules, arenas and
other mappings do not share pages, and nothing of where these lie; `ModuleAssumption` that the words a trampoline takes
belong to the module, on a page where one of its functions begins, and that no page is
shared by functions of two threads, as each thread hooks one module. The longest block,
`MaxBlock`, is computed from what `relo_relocate` emits, and `BlockLength` proves that no
block is longer. `DobbyInv` has parts for the words (`ModuleInv`, `MemInv`), what a thread
carries through `DobbyHook` (`HookInv`), the arenas (`ArenaInv`: each is a page of its
own, with its cursor in it), the blocks (`BlockInv`: those given out lie behind no cursor, and
unless two threads raced at most one has read a cursor and not advanced it) and the
permissions (`PermInv`: a page that is not as it was mapped is being patched, is the one
behind a trampoline or a block that ends with its page, or is one whose `mprotect`
failed).

Bounds such as `MaxLoads` or `MaxOpens` are constants of the specifications that the
theorems leave open; the runs give them numbers.

Model-checked only: the hash tables and packed relocations of XhElf (`HookRight`), the
trees of RbTree (`TreesRight`, `ImplementsPathSets`), the executions that Dobby's
`CallIntact` compares, and the liveness properties. The prover does not reason about
fairness. The others are about data that a recursive function walks in more ways than
from one position to the next: the children of a node whose colours and heights a
rotation changes at once, the chains of a hash table and the groups of packed numbers
that refer back, and the executions of `Run`, which jump.

## Not modelled

Most of the repository's lines are third-party code. jsoncpp, tinyxml2, byopen,
OkHttpFinder and TINYSTL are general-purpose libraries of which the program uses one
call on one fixed text or system file; Dobby carries four processors, three
operating systems, plugins and tests, of which the build compiles the arm64 part for
Linux; `tree.h` has splay trees and `queue.h` lists that are not used or are plain
sequences. Models of these would say nothing about this program, and are left out:
the share of lines that the models cover is small for that reason.

Of the program's own code these are left out: the arm32 routine (the README of the
repository calls it broken), the bits of the shellcode, floating-point registers
across a hook; the printing of arguments (`printf_*`), the loading of the JSON
tables; the dump functions of `xh_elf.c`, which are compiled out; `pread` and
`pwrite` on a `memory_file`, which need a descriptor that `file_hook::open` cannot
return on arm64; `hook_libc/memory_dir.h`, `system_hook`, `java_vm.*` and
`conv_sig_2_args_type`, which nobody builds or calls; most of `main.cpp` and the key
log of `hook_ssl`, which are commented out; the user interface but for the choice of
a package, and the Xposed plugins, which are lists of hooks that print. `replace_all`
would not end for a replacement that contains the pattern; the parsers never call it
so. Of Dobby, `DobbyInstrument`, `DobbyDestroy` (it writes back
`origin_insn_size` bytes, which nobody sets), and near trampolines.

Of what is modelled, some things that may happen are left out. In XHook nothing else is
mapped where an ELF was unloaded under the walk: in the code the walk could then read
another ELF under the first one's name. In Dobby the list of arenas, an unlocked
`std::vector`, is read or extended in one step, `mmap` always gives a page, and what
follows when two threads are in the allocator at once is not modelled. LogFile leaves
the destructor of the log out. A sniffer that is killed between two commands is not
modelled: its rules stay as after a command that failed. `fwrite` may fail in PacketLog,
but what it leaves of a part is not counted as one. Of Xposed, the binder threads see
each other's writes in the order in which they are made, but for puts that overlap and
the counter that a broadcast's iterator compares.
