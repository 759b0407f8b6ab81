# elf_loader: TLA+ models, checks and proofs

`elf_loader` loads ELF shared objects and executables into the running process:
it reads the headers, maps the segments, relocates the object against libraries
that are already loaded, runs its initialisers and hands out a handle that keeps
the object mapped. This directory holds TLA+ models of that code, the TLC runs
that check them on small instances, and TLAPS proofs of what holds for every
instance. Source paths below are relative to the repository's `src/`.

## The system

| component | state it keeps | operations | interacts with |
|---|---|---|---|
| Loader (`loader.rs`, `format/*`) | `ElfBuf`, the hook, init params; during a call a `Builder` | `load`, `load_dylib`, `load_exec`, the `_async` forms, `read_ehdr`, `read_phdr`, `set_hook` | reads an object, maps through a backend, yields `ElfDylib`/`ElfExec` |
| Segments (`segment.rs`) | the reservation (`memory`, `offset`, `len`, `munmap`) | page arithmetic, `map_prot`, `get_ptr`/`get_slice`, `Drop`, `relro` | owned by the Builder, then by the core |
| mmap backends (`mmap/*`) | none (kernel, allocator) | `mmap`, `mmap_anonymous`, `munmap`, `mprotect` | libc, raw system calls, or allocator |
| objects (`object/*`) | file descriptor or bytes | `read`, `read_async`, `as_fd` | Loader |
| dynamic section, symbol table, versions (`dynamic.rs`, `symbol.rs`, `version.rs`) | pointers into the image | parse, hash lookup, version match | Relocation, lazy binding, `get` |
| Relocation (`relocation.rs`) | three tables per object | `relocate`, `easy_relocate` | symbol tables of the scope, `pre_find`, `deal_unknown`, relro, initialisers |
| Lazy binding (`relocation.rs`, `lib.rs`, `arch/*`) | `GLOBAL_SCOPE`, each object's `lazy_scope`, `.got.plt` | `dl_fixup`, `set_global_scope` | threads of the program; weak references to libraries |
| Lifetime (`format/*`) | `Arc<CoreComponentInner>`, `is_init`, the `'lib` lifetimes | clone, drop, `core_component`, `downgrade`, `upgrade` | finalisers, `munmap` |
| mini-loader (`mini-loader/src/main.rs`) | its own image, the initial stack | self-relocation, `load!`, rewriting the auxiliary vector, jump | the kernel, the Loader, the program it starts |
| `UserData`, macros, examples, benches | values the program attaches; none | | |

What is hard here: every read and system call of a load may fail half way, or
the future of an async load may be dropped at an await; the reservation and the
mappings into it are computed in separate passes; headers are processed in
whatever order the file has them; relocation tables overlap; foreign code
(IFUNC resolvers, initialisers) runs at fixed points in between; several threads
are in `dl_fixup` at once while `set_global_scope` stores a new function;
objects are dropped in any order, and only lifetimes, which count while a handle
is used and not when it is dropped, keep a library alive for the objects bound to it; the dynamic section, the hash table and the version
tables are read through raw pointers, with `unchecked` conversions that a debug
and a release build treat differently; one `Loader`'s
buffers serve many calls. `PROJECT.json` lists each hazard at its line.

What makes the parts correct: a load puts exactly the file's bytes, zeroes and
protections into its own reservation and cleans up after every failure; an
initialiser only sees final slots; a lazy slot is only bound to what a current
scope answers, and without interference to what eager binding gives; a call finds
the libraries it is bound to; finalisers run once; what was parsed is what the section
says, and a hash lookup finds what a search of the symbol table would; headers
are those of the object at hand; the program a mini-loader starts finds the stack
a kernel would have made.

## Modules

| module | models | runs |
|---|---|---|
| `Segments` | page arithmetic, `map_prot`, `create_segments`, `load_segment`, `fill_bss` as operators | |
| `Loader` (extends `Segments`) | one call of an entry point, up to and including `create_common` and the drop of the unrelocated object | `Loader*` |
| `Relocation` | one call of `relocate`/`easy_relocate` | `Relocation*` |
| `PltSlots` | the abstract specification of lazy binding | |
| `LazyBinding` (instantiates `PltSlots`) | threads in `dl_fixup` | `LazyBinding*` |
| `ObjectLife` | the abstract specification of an object's life: a count, and what happens at zero | |
| `Lifetime` (instantiates `ObjectLife`) | handles, finalisers and unmapping of several objects | `Lifetime*` |
| `Dynamic` | `ElfDynamic::new`, an entry a step | |
| `Version` | `ELFVersion::new`, `get_requirement`, `check_match` as operators | |
| `SymbolTable` (extends `Dynamic`, `Version`) | from the dynamic section to lookups | `SymbolTable`, `SymbolVersion` |
| `Reader` | several calls of one `Loader` down to `read(2)` | `Reader` |
| `MiniLoader` | `rust_main` from `_start` to the jump | `MiniLoader` |
| `LoaderProofs`, `LoaderImageProofs`, `RelocationProofs`, `LazyBindingProofs`, `LifetimeProofs`, `SymbolTableProofs`, `ReaderProofs`, `MiniLoaderProofs` | theorems about the module they are named after | |
| `MCLoader`, `MCRelocation`, `MCLazyBinding`, `MCLifetime`, `MCSymbolTable`, `MCReader`, `MCMiniLoader` | constants for TLC | |

Definitions whose name has a suffix and whose comment starts with "mutant" are
broken variants of the definition they precede. No specification uses them;
they show that each property would notice such a bug.

### Segments and Loader

The address space (`mem`, `prot`) is kept byte by byte with a page of a few
bytes; a cell holds the file offset of the byte brought there, or a mark (zero,
garbage, not ours, unbacked). Addresses are link-time addresses, because the
code adds one base to all of them. `pc` follows the code: `ehdr` and `phdrs`
(`prepare_ehdr`, `prepare_phdr`), `scan` (the loop of `create_segments`), `mmap`,
`read`, `mprotect` (the three calls of `mmap_segment`), `hook` and `phdr` (the
second loop), `bss` and `bss_anon` (the halves of `fill_bss`). Each failing call
has its action; `Exit` is the early return, whose only effect is the drop of an
`ElfSegments`, if one exists by then. The three `Backends` are the mapping of a
file descriptor, the anonymous mapping with a copy (libc and system calls alike)
and the allocator of `no_mmap.rs`. Reads that fail return an error or panic
(`ElfBinary`'s slice; the assertion in the syscall build).

`Sane` is what the code assumes of every file and never checks; outside it the
arithmetic wraps and nothing can be said. `Linked` is what linkers guarantee on
top: segments inside the file and on pages of their own, a writable segment for
a `.bss`, at most one `PT_DYNAMIC`, `PT_INTERP` and `PT_PHDR`, each inside a
segment, with physical addresses equal to virtual ones (`parse_other_phdr` looks for
the dynamic section at `p_paddr`); the properties that compare the image with the
file are conditioned on it, `TypeOK`, `OutsideUntouched` and `LeavesNothing` are not.
The panics on the way (`phdrs` not found, an interpreter's name that is not UTF-8,
the dynamic section, the allocator of `no_mmap.rs` out of memory) are actions too.

### Relocation

Slots hold symbolic values (`Based(a)`, `Address(l, n, a)`, `Resolved(l, n)`,
`Stub` ...), so that what was computed from what remains visible. `relative`,
`dynrel` and `pltrel` are the slices of `ElfRelocation::new`; each loop takes an
entry a step, with one action per branch of the code's `match`. The reference
(`DefiningLib`, `Definer`, `Wanted`) is stated over the file's tables and the
caller's scope, not over the slices. A COPY relocation wants the bytes of the first
library of the scope, the object itself left out; the code copies the object's own
bytes, or reads beyond its segments (`DynCopyOutside`), so these entries, and
SYMBOLIC ones with an addend (`RelocationAddend`), are the exception `Deviates`. `Trips` (a library whose version tables
`check_match` unwraps in vain), `Valued` (a weak undefined symbol with a value,
against the assertion in `find_symdef`) and `Broken` (a version index the object's
own tables lack) are the symbols whose lookup panics; where in the scope the
lookup meets them decides whether it does.

### LazyBinding and PltSlots

A thread walks through `dl_fixup`: the assertion on the entry, the load of
`GLOBAL_SCOPE`, the global function,
one library of the local scope at a time (with `pre_find` before each and the
`upgrade().unwrap()` after it, as `create_lazy_scope` does), the unconditional
write, the jump. A panic in `dl_fixup`, an `extern "C"` function, ends the process,
and so does a jump into a library that is gone; `DropLib` is what `Lifetime` says
can happen to a library. `seen` and `published`
are history variables. `PltSlots` says what all of this amounts to: a slot goes
from stub to bound, only ever to what a published scope answers.

There are two references. `LocalAnswer` is the documented lookup, `pre_find` first
and then the libraries. `Eager` is what `relocate_pltrel` would have written: it
asks for a version (`GetFor` against `Get`), knows the object's own symbols (local
ones, and in an executable all of them: `Own`) and has null for weak ones. The two
lookups agree where they ask the same question (`SameQuestion`).

### Lifetime

The strong references to an object, by kind: the handle `load` returned (`elf`),
the relocated handle and its clones (`live`, numbered per object), `CoreComponent`s
(`bare`), and the temporary upgrade inside `dl_fixup` (`fixup`). The borrow checker
is external. Its effect: 'lib of a relocated object borrows the handles of its
scope and what these borrow (`Loans`); a handle with a borrow that is over cannot
be used any more (`Usable`), and while a handle is in use (`calls`: a function got
through it runs), neither it nor a handle it borrows can be dropped. A handle that
is only going to be dropped keeps nothing: `Relocated*` have no `Drop` and hold
`'scope` in a `PhantomData`. Dropping the last reference starts `Fini`, then
`Munmap`. Running code, a call or a finaliser (`<<o, 0>>`), may enter `dl_fixup`
and hold a library for a lookup (`FixupUpgrade`, `FixupDone`), and crashes when it
gets to a library that is gone (`Crash`): the failed `upgrade().unwrap()` or a jump
into nothing. `NewUncheck` adopts an object another loader has
initialised, with no finalisers of its own. `ObjectLife` knows no handles: it has
a count per object. `Strong` adds up all kinds of references to that count, and
the refinement says that no operation on a handle changes it by more than one, or
at all once it is zero.

What the lifetimes do guarantee is that a call is safe: all that it can reach is
alive until it returns (`CallsFindLibraries`), only finalisers crash
(`CrashOnlyInFini`), and no lookup inside a call finalises a library
(`FixupNeverLast`). What the repository's README promises beyond that, that a
library cannot be dropped before its users, does not hold, with a `CoreComponent`
in hand or without one (`LifetimeDrop`).

### Dynamic, Version and SymbolTable

The three parse, in turn, what the linker left in the image. `Dynamic` reads the
section an entry a step. An `Option<NonZeroUsize>` is a set of at most one
number, so that what `new_unchecked(0)` does in a release build (it makes `None`)
can be said; a debug build aborts there (`ReadZero`), and on the `debug_assert!`s
of `get_slice` and `get_ptr` when the tables are put together (`FinishPanic`).
`pc = "wild"` is undefined behaviour: a read through an address that is not the
table's. `Version` has the writes into the array of versions by the place they come
from (`Writes`, `Written`), of which the `Latest` to an index counts; an element
that no write reaches is empty, and what comes of comparing it is
any of the outcomes uninitialised memory may have. `SymbolTable` starts lookups
from `get`, `get_version` and the relocations of importers, tests the bloom
filter and the bucket in one step and then takes a link of the chain a step. A
hash is kept without its lowest bit, as in the chains. `gnu_hash` and
`dl_elf_hash` are constants, chosen so that names share buckets, words and all
but the lowest bit, and two versions share a hash.

`Emitted` (of a dynamic section), `VersionsMade` (of version tables) and `Made`
(of a library) say what linkers guarantee, `HashRight` that a version is asked
for with the hash of its name; the reference (`Candidates`) is
stated over `.dynsym` and the version tables directly. Dynamic sections that are
not `Emitted` are in the run all the same: they must be handled as the code
does, and the properties without `Emitted` apply to them.

### Reader

`stack_buf` and `heap_buf` of the `ElfBuf` survive from call to call; a byte in
them is tagged with the file and the position it came from, so that a mix of two
objects shows. `read_ehdr`, `read_phdr` and `load` (up to the program headers;
the rest is `Loader`) run through `seek`, `read`, `header`. `read(2)` may deliver
any number of bytes up to what was asked for and is there; `OtherSeek` is
somebody else with the same open file. `load` consumes the object, so the
descriptor is closed with every return: ownership in Rust, which no property restates.

### MiniLoader

Memory is counted in words: the initial stack is a function from addresses to
words, laid out by `StackOf` as kernels do. `FileMade` and `StartMade` are what is
assumed of static-PIE linkers and of kernels: a mini-loader has `PT_DYNAMIC` and
relocations of its own words, `AT_NULL` ends the vector, and the base is given by
`AT_BASE` or can be worked out from `AT_PHDR`. `pc` follows `rust_main`: its own
dynamic section, the environment, the auxiliary vector, the base, the relocations,
`load!` of program and interpreter, the rewriting of the vector, the move by a
word, the jump. If the program (or the interpreter) is a mini-loader, `Again`
starts over on the stack the first one left, which is how what it hands over is
put to use in the model.

## Runs

| run | result | distinct states | what it shows |
|---|---|---|---|
| `Loader` | holds | 38,000 | image, protections, clean-up, confinement, program headers |
| `Relocation` | holds | 67,000 | slots final before initialisers, causes of errors and panics, order of initialisers, relro |
| `LazyBinding` | holds | 491,000 | freshness, agreement with eager binding, aborts, refinement of `PltSlots`, termination of calls |
| `Lifetime` | holds | 144,000 | calls find their libraries and never crash, finalisers once and never inside a call, refinement of `ObjectLife` (so no revival), everything unmapped |
| `SymbolTable` | holds | 214,000 | the section is parsed as it says, lookups against a search, reads stay in the tables, uninitialised versions and panics confined, `count_syms`, termination |
| `Reader` | holds | 74,000 | headers of the right object, causes of refusals, calls return |
| `MiniLoader` | holds | 36,000 | self-relocation, the stack handed over, termination |

Five more runs show a sentence of the repository that the code does not keep;
each checks one property against one kind of input:

| run | the sentence | the code |
|---|---|---|
| `LoaderBssFirst` | the lowest segment comes with the first mapping | its `.bss` is never zeroed |
| `RelocationAddend` | `REL_SYMBOLIC: S + A` | S is written |
| `LazyPreFind` | the symbol is first searched in `pre_find` | in an object relocated against no library the closure is never asked, and the call aborts |
| `LifetimeDrop` | dropping a dependency first does not compile | it does, if the dependent is not used afterwards; its finaliser then meets the hole |
| `SymbolVersion` | versions are used when resolving; the same version, or else the default | the default wins if it comes first in the chain |

Further disagreements show in the models and have no run of their own:
`MmapRange.offset` "is always aligned" (`loader.rs:118`), but `create_segments`
passes the lowest `p_offset` as it is (`loader.rs:222`, `create_segments` in
`Segments`); without mmap, an executable's fixed address is handed to `dealloc`
(`no_mmap.rs:20-22`, `49-57`; `munmap` in `Loader`); relocation types "not
implemented" go to `deal_unknown` (`dylib.rs:78`), but `relocate_pltrel_lazy` has an
`unreachable!()` for them (`relocation.rs:295`, `LazyUnreachable`). A COPY
relocation slices the object's own segments at the `st_value` of the symbol another
library defines (`relocation.rs:360`), though `get_slice` is "guaranteed" to stay
inside the segments (`segment.rs:104`), and one of a symbol that the executable
defines copies the executable's bytes onto themselves (`relocation.rs:355-364`;
`DynCopy`, `DynCopyOutside` in `Relocation`). The eager scope of an executable
starts with its own symbol table (`exec.rs:96-106`), the lazy one does not have it
(`exec.rs:53-54`); the eager lookup passes the version of the symbol
(`relocation.rs:259-261`), the lazy one does not (`dylib.rs:263`), against "use the
version information of symbols when resolving them" in the repository's README
(`SameQuestion` in `LazyBinding`). And the
mini-loader sets `AT_BASE` to an entry point (`main.rs:204-209`); `Bootstrapped`
shows that a mini-loader started by it then relocates itself at a wrong address.
The only other way it does so is without `AT_BASE`: a mini-loader that is the
interpreter of the program finds the program's headers in `AT_PHDR` and takes its
base from those.

The passing runs exclude exactly these cases, where they must, by a named
condition in the property (`Placed`, `Completed`, `Deviates`, `Supported`,
`InFirstMmap`, `SameQuestion`, `CrashOnlyInFini`, `Bootstrapped`, `shared`) rather than by
leaving them out of the model.

### Bounds

* `Loader`: pages of 2 bytes, so that a segment can start, and a `.bss` begin and
  end, at either place of a page, on a boundary and across one; seven pages
  of address space, two or three segments, every header order that matters
  (dynamic before and after its segment, data before text), files that are
  refused at each check, all backends, sync and async, hooked or not.
* `Relocation`: tables of up to three entries from every type, one symbol per
  kind (local, defined, undefined, weak, IFUNC, weak with a value, with a version
  that a library or the object itself lacks), two libraries that define the
  same name, a scope without, before and after them, all combinations of lazy, overlapping, relro, scopes.
* `LazyBinding`: two threads (races of `dl_fixup` are between two writers of a
  slot), five slots: one bound by `pre_find`, one by the second of two libraries,
  one without a local scope, one of an executable with an empty scope, one with a
  bad entry; two global functions that
  know different names; either library may go at any time. Every thread may call
  again and again. Versions that make a difference (`GetFor`) are left to the proofs.
* `Lifetime`: three objects, which is enough for chains, two users of one
  library, and one executable that is never initialised; one of the three may also
  be adopted. `MaxHandles` and `MaxBare` bound the handles per object: a clone of the
  lowest library, so that a scope can hold either, and a `CoreComponent` of the
  middle one, whose finaliser calls a library. `MaxCalls` is 1: calls only read what
  handles do, and a finaliser runs beside the call.
* `SymbolTable`: all libraries of up to three hashed symbols over three names,
  three version indices and hidden or default, with one or two buckets and bloom
  words of four bits, defining versions, only needing some, or without; symbols
  that are undefined, local, weak or of an unusable type; and one dynamic section
  with all tags, of which each entry in turn is missing, zero, too large or
  given twice; a chain without its stop bit. Three importers, two of them with indices their tables do not
  explain. `nbloom` is 1 or 2: a power of two, as the format demands.
* `Reader`: a buffer of four bytes, of which the header takes two; files that
  end before, with and after the buffer, program headers inside, at the end of
  and beyond it; four opens and calls (`MaxCalls`), so that two loads and a
  `read_ehdr`/`read_phdr` pair can leave something behind for each other.
* `MiniLoader`: up to two further arguments from nine files (so mini-loaders
  nest, and one is the interpreter of a program), up to two environment strings, started as a program or as an
  interpreter, with or without `AT_BASE` and `AT_PHNUM`.

No symmetry reduction is used: most passing runs check liveness, and the
objects of the others are all different. Deadlock
is not checked: a load or a relocation ends, a process that aborted stops, and a
program that dropped all its handles has nothing left to do.

### Fairness

`Loader` and `Relocation` state no fairness: their loops are over finite tables
and only safety is checked. `LazyBinding` assumes weak fairness of each thread inside a call:
threads are scheduled, and `dl_fixup` takes no lock and never waits. No fairness
is assumed of making calls or of `set_global_scope`. `Lifetime` only assumes that
a drop that has begun runs on: the lookups its finaliser makes end (weak fairness
of `FixupDone`), and the finaliser, which may be in one lookup after another, gets
to its end or crashes (strong fairness: lookups disable it again and again, but
each slot is looked up once; that foreign code ends is assumed), and `munmap`
follows. Calls need not return. `SymbolTable`, `Reader` and `MiniLoader` are one
thread's calls again; `Reader` assumes that a call goes on, but not that a system
call ever fails, nor anything of who shares the descriptor.

## Proofs

All theorems hold for every value of the constants that satisfies the named
assumptions of the modules. TLC evaluates each of them in the runs of its module:

| assumption | of | says |
|---|---|---|
| `PageSizeAssumption`, `UsizeAssumption`, `BoundsAssumption`, `BackendsAssumption` | Loader | sizes are naturals, a page is not empty |
| `FilesAssumption` | Loader | files are `Sane`, what the code assumes and never checks |
| `SymbolsAssumption`, `InputsAssumption` | Relocation | symbols and tables are typed; `DT_RELACOUNT` counts relative entries at the front, and no two entries are for one word; a library that defines a symbol can look up its version; no library is named like a mark of the model |
| `NamesAssumption` | LazyBinding | scopes, names, definitions and what the tables answer are typed |
| `LifetimeAssumption` | Lifetime | objects and the bounds on handles and calls are typed |
| `BaseAssumption`, `ImagesAssumption`, `TableAssumption` | SymbolTable | images and importers are typed, an importer's symbols have an index each, the tables lie at different places and the base is not 0; their content is arbitrary, and the properties say `Made` where they need it |
| `ReaderAssumption` | Reader | sizes and objects are typed, the buffer holds the ELF header, program headers do not end before they start |
| `MiniLoaderAssumption` | MiniLoader | `FileMade`, `StartMade`, the stack is aligned, headers of different objects at one address are the same |

**LoaderProofs.** `OutsideUntouched` is not inductive: that a mapping stays in
the reservation depends on a scan that ended many steps before. `LoaderInv` adds
`Control` (which fields mean what at which `pc`), `ScanBounds` (the scan is the
exact minimum and maximum over the headers seen so far), `SegmentsCovered` (once
the reservation is made, the page-rounded range of every `PT_LOAD` lies in it)
and `ParamFits` (the pending `MmapParam`, and the bytes to be read into it, lie
in the reservation). Lemmas on `PageDown`/`PageUp` (bounds, monotonicity) carry
the arithmetic. Theorems: `LoaderInvariant`, `TypeCorrect`, `Confinement`.

**LoaderImageProofs** continues with what a load leaves behind. All of its
theorems speak of the end of a load, and the reasons lie in the middle: that a
segment the loop has passed is in place, and that no later step touches its
pages. `ImageInv` is `LoaderInv` with `Ownership` (who answers for the
reservation: nobody before the first mapping has succeeded, then the
`ElfSegments`), `ScanFrom` (the scan's minimum is of one segment), `MappingOf` (the
mapping under way is that of the current header, or the first one), `BytesInPlace`, `BssInPlace`, `ProtInPlace` (header by
header, how far it is done), `FileBacked` (pages without a file behind them come
only from mapping a descriptor, and then the lowest segment starts a page),
`BuilderParsed` (what the loop has parsed so far) and `NoFault`. The lemmas
are on pages again: that two segments on separate pages have disjoint mappings,
and that rounding moves address and offset by the same amount. Theorems:
`ImageIsLoaded`, `ProtectionIsFinal`, `FailureLeavesNothing`, `FaultsExplained`,
`ParsedIsFile`, `PhdrsInImage`.

**RelocationProofs.** `RelocationInv` is `TypeOK`, `Control`, `Progress` (an entry
behind the walk through its table has its final value, one ahead has its word as
the file has it, which NONE entries and lazy stubs rely on), `RanShape` (resolvers
first, then as many initialisers as the loop has called) and `FailsOnlyForCause`.
The lemmas show that the lookup over the scope gives `DefiningLib`, stated with
the least library that defines the symbol, unless it meets a version that cannot
be looked up before it, and that each branch writes a value of
`Wanted`. Theorems: `RelocationTypes`, `WordsFinalBeforeInit`, `FailureHasCause`,
`InitialisersInOrder`, `NothingWrittenWhenSealed`.

**LazyBindingProofs.** `BindingInv` is `TypeOK`, `ScopeSeen` (the scope a thread
has loaded is among those seen in this call, and was published), `Lookup` (the
libraries passed so far lack the symbol, and `pre_find` does once one has been
passed; what was found is the answer of the loaded scope), `BoundToAnswer` (a
bound slot holds an answer of a published scope) and `AbortOnlyIfUnbound`. That a
jump finds its function gone only if the lookup would have met the hole too needs
that what is jumped to is some scope's answer. From
it: `Fresh`, `AbortsJustified`, `AgreesWithEager`, `StaysBound`, and `Refinement`,
which maps `WriteSlot` to `Bind`, `SetGlobalScope` to `Publish` and all other
steps to stuttering.

**LifetimeProofs.** That a call finds its libraries follows from what is borrowed,
and that has to be closed under borrowing at any depth. `LifetimeInv` is `TypeOK`,
`BorrowInv`, `FiniMatchesInit`, `FixupNeverLast` and `CrashOnlyInFini`; `BorrowInv`
is `Stages` (an object's stage fits its handles), `HandlesNumbered` (a handle's
number was given out, so a new one is new), `LoansClosed` (what an object borrows
holds its scope and all that the borrowed handles borrow), `CallsBorrow` (the
handle of a call and its borrows are not dropped) and `LookupsBorrowed` (a lookup
inside a call is in a library that the call has borrowed, so it is not its last
holder). `CallsFindLibraries` is then shown with the set of objects borrowed.
Theorems: `LifetimeInvariant`,
`LifetimeTypeCorrect`, `CallsKeepLibraries`, `CallsNeverCrash`,
`LookupsNeverFinalise`, `FinalisedOnce`, `NeverRevived`. `LifeInv` adds that the
handles and lookups are finitely many, so that they can be counted; with it
`HandlesImplementObjectLife` maps each operation on a handle to one step of
`ObjectLife` or to stuttering, action by action.

**SymbolTableProofs.** `SymbolInv` has a part for each stage. `DynInv`: `Typed`,
`Position` (no end marker before it), `Accumulated` (what has been accumulated
are the last entries of the part read), `Stage`, `DynamicParsed`. `TableInv`:
`TabRight` (the tables are where the section says), `QueryRight` (at most one version is
asked for, none without the feature), `WalkRight` (the walk is in the
bucket of the name, and no candidate lies before it), `CountRight` (the count is
in the last bucket with a symbol), and the properties. Working the proof out
corrected what linkers are said to guarantee: a need record is not empty, an
index is not given to two versions, `DT_VERDEF` comes with its table, and the
hash an importer asks with is the one of its version's name. Theorems:
`SectionParsed`, `LookupsRight`, `ReadsStayInTables`, `PanicsHaveCause`,
`CountIsExact`.

**ReaderProofs.** What a call sees is in a buffer that other calls have used, so
the invariant says which part of it is fresh. `ReaderInv` is `ReaderTypes`,
`CallShape` (which read a call is at, into which buffer, of what size) and `ReadProgress`
(the first `rd.got` bytes are the object's own, and the file position is behind
them), with the two properties. Theorems: `OwnProgramHeaders`,
`RefusalHasCause`.

**MiniLoaderProofs.** `MiniInv` is `Handed` (what was given is well formed, for
the next mini-loader too), `Objects` (what is loaded, and where), `Provenance`
(who described the program headers in the vector, the kernel or a mini-loader),
`OnStack` (what each word of the stack is, before, during and after the rewriting
and the move), `Registers` (what the loops over section, environment and vector
have noted) and `Relocated`. The proof found the interpreter without `AT_BASE`,
which the run did not have then and `Bootstrapped` did not allow for. Theorems:
`SelfRelocationRight`, `StackHandedOver`.

Every invariant that a passing run checks is proved, and so are the action
property and the two refinements. Only model-checked are the liveness properties
(`CallsEnd`, `Unloaded`, `LookupEnds`, `CallsReturn`, `Ends`): they rest
on fairness and `ENABLED`, which are out of the prover's reach. The five
violations are TLC's counterexamples; they need no proof.

## Not modelled

* `UserData`: values the program attaches and reads back; the loader never looks
  at them. The macros, examples and benches only call what is modelled.
* `gnu_hash` and `dl_elf_hash` themselves. The second panics on an empty version
  name and, in a debug build, on the rare names whose hash overflows.
* The mini-loader's heap of 4096 bytes, its output, and a start with `argc = 0`.
* `ElfObjectAsync` has no implementation in the repository: an await is a step of
  `Loader` at which the future may be dropped.
* Where the kernel places a mapping. In particular an executable's address is
  passed without `MAP_FIXED`; the model places it there.
* Memory orderings weaker than sequential consistency: `GLOBAL_SCOPE` is a single
  atomic stored with Release and loaded with Acquire, and slots are words written
  and read atomically on the supported targets.
* The registers the trampolines save.

## Plan

Modelling and the proofs of safety are complete. What could follow:

* the parts of liveness that are safety in disguise: a bound on the steps of a
  load, a relocation and a lookup, as a measure that every step lowers;
* proofs that are shorter to read: lemmas on sequences and on least elements are
  stated in more than one of the proof modules.

A module that composes load, relocation, calls and drops of several objects was
considered and left: the parts meet only in `is_init`, `lazy_scope` and the
symbol table, and each of the modules above already has the others' effect on
those as a nondeterministic input.
