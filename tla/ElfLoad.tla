------------------------------- MODULE ElfLoad -------------------------------
(***************************************************************************)
(* How MikanLoaderPkg/Main.c places the kernel: CalcLoadAddressRange, the  *)
(* pages asked for, CopyLoadSegments, and the entry point read from the    *)
(* loaded image.  It is the detail of the steps AllocatePages,             *)
(* CopyLoadSegments and CallKernel of Loader.                              *)
(*                                                                         *)
(* A cell of memory holds what was there before, a byte of the file (named *)
(* by its offset) or a zero.  Addresses have the width Modulus.            *)
(***************************************************************************)
EXTENDS Integers, Sequences

CONSTANTS
  Modulus,      \* 2^64
  PageSize,     \* 0x1000
  EntryOffset,  \* 24: where e_entry is in the ELF header, at offset 0 of the file
  Files,        \* the program headers of the kernel files
  Frees         \* the sets of addresses that may be free at the start

VARIABLES
  phdr,                       \* the program headers, (char*)ehdr + e_phoff
  free,                       \* the addresses of the free pages
  i,                          \* the variable of both loops
  kernel_first_addr, kernel_last_addr, num_pages,
  owned,                      \* the addresses AllocatePages has given
  memory,                     \* what is at each address
  entry_addr,                 \* what UefiMain takes for the entry point
  pc

vars == <<phdr, free, i, kernel_first_addr, kernel_last_addr, num_pages, owned,
          memory, entry_addr, pc>>

Address == 0 .. Modulus - 1
MAX_UINT64 == Modulus - 1

\* Elf64_Phdr.
Phdr == [p_type : {"PT_LOAD", "PT_NOTE"}, p_vaddr : Address, p_offset : Address,
         p_filesz : Address, p_memsz : Address]

Untouched   == <<"before">>
Zero        == <<"zero">>
FileByte(o) == <<"file", o>>

\* What ELF asks of program headers: the file part is not longer than the
\* segment, neither reaches the last address, and no two overlap.
WellFormed(f) ==
  /\ f \in Seq(Phdr)
  /\ \A n \in DOMAIN f : /\ f[n].p_filesz <= f[n].p_memsz
                         /\ f[n].p_vaddr + f[n].p_memsz < Modulus
                         /\ f[n].p_offset + f[n].p_filesz < Modulus
  /\ \A m, n \in DOMAIN f :
       m # n /\ f[m].p_type = "PT_LOAD" /\ f[n].p_type = "PT_LOAD" =>
         \/ f[m].p_vaddr + f[m].p_memsz <= f[n].p_vaddr
         \/ f[n].p_vaddr + f[n].p_memsz <= f[m].p_vaddr

ASSUME ElfSizes ==
  /\ PageSize \in Nat \ {0} /\ EntryOffset \in Nat
  /\ Modulus \in Nat /\ Modulus > PageSize /\ Modulus % PageSize = 0
ASSUME ElfFiles == \A f \in Files : WellFormed(f)
ASSUME ElfFrees == \A F \in Frees : F \subseteq Address

Init ==
  /\ phdr \in Files /\ free \in Frees
  /\ i = 1 /\ kernel_first_addr = MAX_UINT64 /\ kernel_last_addr = 0
  /\ num_pages = 0 /\ owned = {}
  /\ memory = [a \in Address |-> Untouched]
  /\ entry_addr = Untouched
  /\ pc = "CalcLoadAddressRange"

-----------------------------------------------------------------------------
IsLoad(n) == phdr[n].p_type = "PT_LOAD"
SegmentEnd(n) == phdr[n].p_vaddr + phdr[n].p_memsz

\* MIN and MAX of EDK II.
MIN(a, b) == IF a < b THEN a ELSE b
MAX(a, b) == IF a > b THEN a ELSE b

\* A turn of the loop over the headers at "at".
Turn(at) ==
  /\ pc = at /\ i <= Len(phdr)
  /\ i' = i + 1
  /\ UNCHANGED <<phdr, free, num_pages, owned, entry_addr, pc>>

\* Mutant: all segments count.
CalcEverySegment ==
  /\ Turn("CalcLoadAddressRange")
  /\ kernel_first_addr' = MIN(kernel_first_addr, phdr[i].p_vaddr)
  /\ kernel_last_addr' = MAX(kernel_last_addr, SegmentEnd(i))
  /\ UNCHANGED memory

\* Main.c:176-185
CalcLoadAddressRange ==
  /\ Turn("CalcLoadAddressRange")
  /\ IF IsLoad(i)
       THEN /\ kernel_first_addr' = MIN(kernel_first_addr, phdr[i].p_vaddr)
            /\ kernel_last_addr' = MAX(kernel_last_addr, SegmentEnd(i))
       ELSE UNCHANGED <<kernel_first_addr, kernel_last_addr>>
  /\ UNCHANGED memory

\* Mutants: no width; the size is rounded down; a page more than needed.
PagesForUnbounded(first, last) == (last - first + PageSize - 1) \div PageSize
PagesForDown(first, last) == ((last - first) % Modulus) \div PageSize
PagesForMore(first, last) == ((last - first + PageSize) % Modulus) \div PageSize

\* The pages for the addresses from first to last: the size is rounded up to
\* whole pages, in the width of an address.
PagesFor(first, last) == ((last - first + PageSize - 1) % Modulus) \div PageSize

\* Main.c:319
CountPages ==
  /\ pc = "CalcLoadAddressRange" /\ i > Len(phdr)
  /\ num_pages' = PagesFor(kernel_first_addr, kernel_last_addr)
  /\ pc' = "AllocatePages"
  /\ UNCHANGED <<phdr, free, i, kernel_first_addr, kernel_last_addr, owned, memory,
                 entry_addr>>

\* External: AllocatePages at an address gives a positive number of pages, all of
\* them free, from a page boundary on, or returns an error.
Wanted == kernel_first_addr .. kernel_first_addr + num_pages * PageSize - 1
CanAllocate ==
  /\ kernel_first_addr % PageSize = 0
  /\ num_pages > 0
  /\ Wanted \subseteq free

\* Main.c:320-325
AllocatePages ==
  /\ pc = "AllocatePages"
  /\ IF CanAllocate
       THEN owned' = Wanted /\ i' = 1 /\ pc' = "CopyLoadSegments"
       ELSE pc' = "Halt" /\ UNCHANGED <<owned, i>>
  /\ UNCHANGED <<phdr, free, kernel_first_addr, kernel_last_addr, num_pages, memory,
                 entry_addr>>

\* Memory after CopyMem and SetMem for a header p.
Placed(mem, p) ==
  [a \in Address |->
     IF a \notin p.p_vaddr .. p.p_vaddr + p.p_memsz - 1 THEN mem[a]
     ELSE IF a < p.p_vaddr + p.p_filesz THEN FileByte(p.p_offset + (a - p.p_vaddr))
     ELSE Zero]

\* Mutant: the bytes above p_filesz are left alone.
CopyNoZero ==
  /\ Turn("CopyLoadSegments")
  /\ memory' = IF IsLoad(i) THEN Placed(memory, [phdr[i] EXCEPT !.p_memsz = phdr[i].p_filesz])
                            ELSE memory
  /\ UNCHANGED <<kernel_first_addr, kernel_last_addr>>

\* Main.c:187-198
CopyLoadSegments ==
  /\ Turn("CopyLoadSegments")
  /\ memory' = IF IsLoad(i) THEN Placed(memory, phdr[i]) ELSE memory
  /\ UNCHANGED <<kernel_first_addr, kernel_last_addr>>

\* Main.c:358.  Whatever is at this place of the lowest pages.
ReadEntry ==
  /\ pc = "CopyLoadSegments" /\ i > Len(phdr)
  /\ entry_addr' = memory[(kernel_first_addr + EntryOffset) % Modulus]
  /\ pc' = "Kernel"
  /\ UNCHANGED <<phdr, free, i, kernel_first_addr, kernel_last_addr, num_pages, owned,
                 memory>>

Next ==
  CalcLoadAddressRange \/ CountPages \/ AllocatePages \/ CopyLoadSegments \/ ReadEntry

\* Fairness: straight-line code of the loader.
Spec == Init /\ [][Next]_vars /\ WF_vars(Next)

-----------------------------------------------------------------------------
TypeOK ==
  /\ phdr \in Files /\ free \in Frees
  /\ i \in 1 .. Len(phdr) + 1
  /\ kernel_first_addr \in Address /\ kernel_last_addr \in Address
  /\ num_pages \in 0 .. Modulus \div PageSize
  /\ owned \subseteq free
  /\ memory \in [Address -> {Untouched, Zero} \union {FileByte(o) : o \in Address}]
  /\ pc \in {"CalcLoadAddressRange", "AllocatePages", "CopyLoadSegments", "Kernel", "Halt"}

\* Nothing is written outside the pages that were given, whatever the order of
\* the headers and wherever the highest segment ends.
InsidePages == \A a \in Address \ owned : memory[a] = Untouched

\* Segments of the file that a reader of the ELF format expects in memory.
SegmentLoaded(n) ==
  \A a \in phdr[n].p_vaddr .. SegmentEnd(n) - 1 :
    memory[a] = IF a < phdr[n].p_vaddr + phdr[n].p_filesz
                  THEN FileByte(phdr[n].p_offset + (a - phdr[n].p_vaddr))
                  ELSE Zero

\* When the kernel is entered every loadable segment is in its place, with the
\* bytes the file does not have set to zero: no later segment, and no zero fill
\* of another one, has gone over it.
Loaded == pc = "Kernel" => \A n \in DOMAIN phdr : IsLoad(n) => SegmentLoaded(n)

\* The lowest loadable segment begins with the ELF header (the linker's
\* --image-base, Makefile:11, lays the kernel out that way).
HeaderFirst ==
  \E n \in DOMAIN phdr :
    /\ IsLoad(n) /\ phdr[n].p_offset = 0 /\ phdr[n].p_filesz > EntryOffset
    /\ \A m \in DOMAIN phdr : IsLoad(m) => phdr[n].p_vaddr <= phdr[m].p_vaddr

\* UefiMain calls the e_entry of the file, although it looks for it in the loaded
\* image, after the buffer with the file has been freed.
EntryIsElfEntry == pc = "Kernel" /\ HeaderFirst => entry_addr = FileByte(EntryOffset)

\* A file whose lowest segment begins a page, in a memory that is free, is
\* loaded: the count of pages does not ask for more than its segments need.
Loadable ==
  \E n \in DOMAIN phdr :
    /\ IsLoad(n) /\ phdr[n].p_memsz > 0 /\ phdr[n].p_vaddr % PageSize = 0
    /\ \A m \in DOMAIN phdr : IsLoad(m) =>
         /\ phdr[n].p_vaddr <= phdr[m].p_vaddr
         /\ SegmentEnd(m) + PageSize < Modulus
         /\ \A a \in phdr[n].p_vaddr .. SegmentEnd(m) + PageSize - 1 :
              a \div PageSize <= (SegmentEnd(m) - 1) \div PageSize => a \in free
LoadableIsLoaded == Loadable ~> pc = "Kernel"
=============================================================================
