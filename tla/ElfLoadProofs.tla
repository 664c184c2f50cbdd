---------------------------- MODULE ElfLoadProofs ----------------------------
(***************************************************************************)
(* Proofs about ElfLoad: for every address width, page size, file with     *)
(* well-formed program headers and set of free pages, what is written is   *)
(* inside the pages that were given, every segment is in its place when    *)
(* the kernel is entered, and it is entered at the file's e_entry.         *)
(***************************************************************************)
EXTENDS ElfLoad, TLAPS

USE ElfSizes DEF Address, MAX_UINT64

-----------------------------------------------------------------------------
(***************************************************************************)
(* Rounding.                                                               *)
(***************************************************************************)
LEMMA ModRange ==
  ASSUME NEW x \in Int, NEW d \in Nat \ {0}
  PROVE  x % d \in 0 .. d - 1
  OBVIOUS

LEMMA ModSmall ==
  ASSUME NEW x \in Nat, NEW d \in Nat \ {0}, x < d
  PROVE  x % d = x
  OBVIOUS

LEMMA ModOnce ==
  ASSUME NEW x \in Nat, NEW d \in Nat \ {0}, x >= d, x < d + d
  PROVE  x % d = x - d
  OBVIOUS

LEMMA DivSmall ==
  ASSUME NEW x \in Nat, NEW d \in Nat \ {0}, x < d
  PROVE  x \div d = 0
  OBVIOUS

LEMMA DivUp ==
  ASSUME NEW x \in Nat, NEW d \in Nat \ {0}
  PROVE  ((x + d - 1) \div d) * d >= x
  OBVIOUS

LEMMA DivMonotone ==
  ASSUME NEW x \in Nat, NEW y \in Nat, NEW d \in Nat \ {0}, x <= y
  PROVE  /\ x \div d \in Nat /\ y \div d \in Nat
         /\ x \div d <= y \div d
<1>1. x \div d \in Nat /\ y \div d \in Nat
  OBVIOUS
<1>2. x \div d <= y \div d
  OBVIOUS
<1> QED
  BY <1>1, <1>2

\* The number of pages is one that memory can have, whatever the addresses.
LEMMA PagesForRange ==
  ASSUME NEW first \in Address, NEW last \in Address
  PROVE  PagesFor(first, last) \in 0 .. Modulus \div PageSize
<1> DEFINE x == last - first + PageSize - 1
<1>1. x \in Int /\ x % Modulus \in 0 .. Modulus - 1
  BY ModRange
<1>2. (x % Modulus) \div PageSize \in Nat /\ Modulus \div PageSize \in Nat
      /\ (x % Modulus) \div PageSize <= Modulus \div PageSize
  BY <1>1, DivMonotone
<1> QED
  BY <1>2 DEF PagesFor

\* If there is a page at all, the pages reach to the last address: the sum that is
\* rounded does not wrap, because a wrapped one is less than a page.
LEMMA PagesForEnough ==
  ASSUME NEW first \in Address, NEW last \in Address, first <= last,
         PagesFor(first, last) > 0
  PROVE  PagesFor(first, last) * PageSize >= last - first
<1> DEFINE size == last - first
           x    == size + PageSize - 1
<1>1. size \in Nat /\ size < Modulus /\ x \in Nat
      /\ Modulus \in Nat \ {0} /\ PageSize \in Nat \ {0}
  OBVIOUS
<1>2. CASE x < Modulus
  <2>1. PagesFor(first, last) = x \div PageSize
    BY <1>1, <1>2, ModSmall DEF PagesFor
  <2> QED
    BY <1>1, <2>1, DivUp
<1>3. CASE x >= Modulus
  <2>1. x - Modulus \in Nat /\ x - Modulus < PageSize /\ x < Modulus + Modulus
    BY <1>1, <1>3
  <2>2. x % Modulus = x - Modulus
    <3> HIDE DEF x
    <3> QED
      BY <1>1, <1>3, <2>1, ModOnce
  <2>3. PagesFor(first, last) = 0
    BY <2>1, <2>2, DivSmall DEF PagesFor
  <2> QED
    BY <2>3
<1> QED
  BY <1>1, <1>2, <1>3

-----------------------------------------------------------------------------
(***************************************************************************)
(* The types of the state.                                                 *)
(***************************************************************************)
PcType == pc \in {"CalcLoadAddressRange", "AllocatePages", "CopyLoadSegments", "Kernel", "Halt"}

LEMMA HeaderType ==
  ASSUME phdr \in Files, NEW n \in DOMAIN phdr
  PROVE  /\ n \in Nat \ {0} /\ n <= Len(phdr)
         /\ phdr[n] \in Phdr
         /\ phdr[n].p_vaddr \in Address /\ phdr[n].p_offset \in Address
         /\ phdr[n].p_filesz \in Nat /\ phdr[n].p_memsz \in Nat
         /\ phdr[n].p_filesz <= phdr[n].p_memsz
         /\ SegmentEnd(n) \in Address
         /\ phdr[n].p_offset + phdr[n].p_filesz < Modulus
<1>1. WellFormed(phdr)
  BY ElfFiles
<1>2. phdr \in Seq(Phdr)
  BY <1>1 DEF WellFormed
<1>3. n \in Nat \ {0} /\ n <= Len(phdr) /\ phdr[n] \in Phdr
  BY <1>2
<1>4. phdr[n].p_vaddr \in Address /\ phdr[n].p_offset \in Address
      /\ phdr[n].p_filesz \in Address /\ phdr[n].p_memsz \in Address
  BY <1>3 DEF Phdr
<1> QED
  BY <1>1, <1>3, <1>4 DEF WellFormed, SegmentEnd

LEMMA LoopIndex ==
  ASSUME phdr \in Files, i \in 1 .. Len(phdr) + 1
  PROVE  /\ Len(phdr) \in Nat /\ i \in Nat
         /\ DOMAIN phdr = 1 .. Len(phdr)
         /\ i <= Len(phdr) => i \in DOMAIN phdr
<1>1. WellFormed(phdr)
  BY ElfFiles
<1>2. phdr \in Seq(Phdr)
  BY <1>1 DEF WellFormed
<1>3. Len(phdr) \in Nat /\ DOMAIN phdr = 1 .. Len(phdr)
  BY <1>2
<1> QED
  BY <1>3

\* A segment's cells get bytes of the file and zeros.
LEMMA PlacedType ==
  ASSUME phdr \in Files, NEW n \in DOMAIN phdr,
         memory \in [Address -> {Untouched, Zero} \union {FileByte(o) : o \in Address}]
  PROVE  Placed(memory, phdr[n]) \in
           [Address -> {Untouched, Zero} \union {FileByte(o) : o \in Address}]
<1> DEFINE p == phdr[n]
<1>1. p.p_vaddr \in Address /\ p.p_offset \in Address /\ p.p_filesz \in Nat
      /\ p.p_offset + p.p_filesz < Modulus /\ p.p_memsz \in Nat
  BY HeaderType
<1>2. ASSUME NEW a \in Address, a \in p.p_vaddr .. p.p_vaddr + p.p_memsz - 1,
             a < p.p_vaddr + p.p_filesz
      PROVE  p.p_offset + (a - p.p_vaddr) \in Address
  BY <1>1, <1>2
<1> QED
  BY <1>1, <1>2 DEF Placed

LEMMA TypesInit == Init => TypeOK
<1> SUFFICES ASSUME Init PROVE TypeOK
  OBVIOUS
<1>1. WellFormed(phdr)
  BY ElfFiles DEF Init
<1>2. phdr \in Seq(Phdr)
  BY <1>1 DEF WellFormed
<1>3. i \in 1 .. Len(phdr) + 1
  BY <1>2 DEF Init
<1>4. 0 \in 0 .. Modulus \div PageSize
  BY DivMonotone
<1> QED
  BY <1>3, <1>4 DEF Init, TypeOK

LEMMA TypesNext == TypeOK /\ [Next]_vars => TypeOK'
<1> SUFFICES ASSUME TypeOK, [Next]_vars PROVE TypeOK'
  OBVIOUS
<1>t. /\ phdr \in Files /\ i \in 1 .. Len(phdr) + 1
      /\ kernel_first_addr \in Address /\ kernel_last_addr \in Address
  BY DEF TypeOK
<1>i. /\ Len(phdr) \in Nat /\ i \in Nat /\ (i <= Len(phdr) => i \in DOMAIN phdr)
  BY <1>t, LoopIndex
<1>1. CASE CalcLoadAddressRange
  <2>1. i' \in 1 .. Len(phdr) + 1
    BY <1>1, <1>i DEF CalcLoadAddressRange, Turn
  <2>2. phdr[i].p_vaddr \in Address /\ SegmentEnd(i) \in Address
    BY <1>1, <1>t, <1>i, HeaderType DEF CalcLoadAddressRange, Turn
  <2>3. kernel_first_addr' \in Address /\ kernel_last_addr' \in Address
    BY <1>1, <1>t, <2>2 DEF CalcLoadAddressRange, MIN, MAX
  <2> QED
    BY <1>1, <2>1, <2>3 DEF TypeOK, CalcLoadAddressRange, Turn
<1>2. CASE CountPages
  <2>1. num_pages' \in 0 .. Modulus \div PageSize
    BY <1>2, <1>t, PagesForRange DEF CountPages
  <2> QED
    BY <1>2, <2>1 DEF TypeOK, CountPages
<1>3. CASE AllocatePages
  <2>1. i' \in 1 .. Len(phdr) + 1
    BY <1>3, <1>t, <1>i DEF AllocatePages
  <2>2. owned' \subseteq free
    BY <1>3 DEF AllocatePages, CanAllocate, TypeOK
  <2>3. pc' \in {"CopyLoadSegments", "Halt"}
    BY <1>3 DEF AllocatePages
  <2> QED
    BY <1>3, <2>1, <2>2, <2>3 DEF TypeOK, AllocatePages
<1>4. CASE CopyLoadSegments
  <2>1. i' \in 1 .. Len(phdr) + 1
    BY <1>4, <1>i DEF CopyLoadSegments, Turn
  <2>2. i \in DOMAIN phdr
    BY <1>4, <1>i DEF CopyLoadSegments, Turn
  <2>3. memory' \in [Address -> {Untouched, Zero} \union {FileByte(o) : o \in Address}]
    BY <1>4, <1>t, <2>2, PlacedType DEF TypeOK, CopyLoadSegments
  <2> QED
    BY <1>4, <2>1, <2>3 DEF TypeOK, CopyLoadSegments, Turn
<1>5. CASE ReadEntry
  BY <1>5 DEF TypeOK, ReadEntry
<1>6. CASE UNCHANGED vars
  BY <1>6 DEF TypeOK, vars
<1> QED
  BY <1>1, <1>2, <1>3, <1>4, <1>5, <1>6 DEF Next

\* The types of the loop variables and of the page count, in the width of an
\* address: the count does not become negative or too large for any file, the ones
\* without a loadable segment included (Main.c:319).
THEOREM ElfTypes == Spec => []TypeOK
<1> QED
  BY TypesInit, TypesNext, PTL DEF Spec

-----------------------------------------------------------------------------
(***************************************************************************)
(* The invariant: what the range covers, what has been given, which        *)
(* segments are placed.                                                    *)
(***************************************************************************)
Covers(n) == /\ kernel_first_addr <= phdr[n].p_vaddr
             /\ SegmentEnd(n) <= kernel_last_addr

\* The headers the first loop has passed are inside the range, and the range
\* begins at one of them.
RangeInv ==
  /\ \A n \in DOMAIN phdr :
       IsLoad(n) /\ (pc = "CalcLoadAddressRange" => n < i) => Covers(n)
  /\ kernel_first_addr # MAX_UINT64 =>
       \E n \in DOMAIN phdr : IsLoad(n) /\ phdr[n].p_vaddr = kernel_first_addr

\* The count is that of the range, and is what has been given.
PagesInv ==
  /\ pc \in {"CalcLoadAddressRange", "AllocatePages"} => owned = {}
  /\ pc \in {"AllocatePages", "CopyLoadSegments", "Kernel"} =>
       num_pages = PagesFor(kernel_first_addr, kernel_last_addr)
  /\ pc \in {"CopyLoadSegments", "Kernel"} => owned = Wanted /\ num_pages > 0

\* The headers the second loop has passed are in their place.
PlacedInv ==
  pc \in {"CopyLoadSegments", "Kernel"} =>
    \A n \in DOMAIN phdr :
      IsLoad(n) /\ (pc = "CopyLoadSegments" => n < i) => SegmentLoaded(n)

\* What the entry point is read from.
EntryInv ==
  pc = "Kernel" => entry_addr = memory[(kernel_first_addr + EntryOffset) % Modulus]

LoadInv == TypeOK /\ RangeInv /\ PagesInv /\ PlacedInv /\ InsidePages /\ EntryInv

LEMMA LoadInit == Init => LoadInv
<1> SUFFICES ASSUME Init PROVE LoadInv
  OBVIOUS
<1>1. TypeOK
  BY TypesInit
<1>2. DOMAIN phdr = 1 .. Len(phdr) /\ Len(phdr) \in Nat
  BY <1>1, LoopIndex DEF TypeOK
<1>3. RangeInv
  BY <1>2 DEF Init, RangeInv
<1> QED
  BY <1>1, <1>3 DEF Init, LoadInv, PagesInv, PlacedInv, InsidePages, EntryInv

LEMMA RangeNext == LoadInv /\ [Next]_vars => RangeInv'
<1> SUFFICES ASSUME LoadInv, [Next]_vars PROVE RangeInv'
  OBVIOUS
<1>t. /\ phdr \in Files /\ i \in 1 .. Len(phdr) + 1
      /\ kernel_first_addr \in Address /\ kernel_last_addr \in Address
      /\ RangeInv
  BY DEF TypeOK, LoadInv
<1>i. /\ Len(phdr) \in Nat /\ i \in Nat /\ DOMAIN phdr = 1 .. Len(phdr)
      /\ (i <= Len(phdr) => i \in DOMAIN phdr)
  BY <1>t, LoopIndex
<1>1. CASE CalcLoadAddressRange
  <2>1. /\ pc = "CalcLoadAddressRange" /\ pc' = pc /\ phdr' = phdr /\ i' = i + 1
        /\ i \in DOMAIN phdr
        /\ \A n : IsLoad(n)' <=> IsLoad(n)
        /\ \A n : SegmentEnd(n)' = SegmentEnd(n)
    BY <1>1, <1>i DEF CalcLoadAddressRange, Turn, IsLoad, SegmentEnd
  <2>2. /\ phdr[i].p_vaddr \in Address /\ SegmentEnd(i) \in Address
    BY <1>t, <2>1, HeaderType
  <2>3. /\ kernel_first_addr' \in Address /\ kernel_last_addr' \in Address
        /\ kernel_first_addr' <= kernel_first_addr /\ kernel_last_addr <= kernel_last_addr'
        /\ kernel_first_addr' # kernel_first_addr =>
             IsLoad(i) /\ kernel_first_addr' = phdr[i].p_vaddr
        /\ IsLoad(i) => /\ kernel_first_addr' <= phdr[i].p_vaddr
                        /\ SegmentEnd(i) <= kernel_last_addr'
    BY <1>1, <1>t, <2>2 DEF CalcLoadAddressRange, MIN, MAX
  <2>4. ASSUME NEW n \in DOMAIN phdr, IsLoad(n), n < i + 1
        PROVE  Covers(n)'
    <3>1. phdr[n].p_vaddr \in Address /\ SegmentEnd(n) \in Address /\ n \in Nat
      BY <1>t, HeaderType
    <3>2. CASE n < i
      <4>1. Covers(n)
        BY <2>1, <2>4, <3>2, <1>t DEF RangeInv
      <4> QED
        BY <1>t, <2>1, <2>3, <3>1, <4>1 DEF Covers
    <3>3. CASE n = i
      BY <2>1, <2>3, <2>4, <3>3 DEF Covers
    <3> QED
      BY <1>i, <2>4, <3>1, <3>2, <3>3
  <2>5. kernel_first_addr' # MAX_UINT64 =>
          \E n \in DOMAIN phdr : IsLoad(n) /\ phdr[n].p_vaddr = kernel_first_addr'
    BY <1>t, <2>1, <2>3 DEF RangeInv
  <2> QED
    BY <2>1, <2>4, <2>5 DEF RangeInv
<1>2. CASE CountPages
  <2>1. /\ pc = "CalcLoadAddressRange" /\ phdr' = phdr /\ i > Len(phdr)
        /\ kernel_first_addr' = kernel_first_addr /\ kernel_last_addr' = kernel_last_addr
    BY <1>2 DEF CountPages
  <2>2. \A n \in DOMAIN phdr : n < i
    BY <1>i, <2>1
  <2> QED
    BY <1>t, <2>1, <2>2 DEF RangeInv, Covers, IsLoad, SegmentEnd
<1>3. CASE AllocatePages
  BY <1>t, <1>3 DEF RangeInv, Covers, IsLoad, SegmentEnd, AllocatePages
<1>4. CASE CopyLoadSegments
  BY <1>t, <1>4 DEF RangeInv, Covers, IsLoad, SegmentEnd, CopyLoadSegments, Turn
<1>5. CASE ReadEntry
  BY <1>t, <1>5 DEF RangeInv, Covers, IsLoad, SegmentEnd, ReadEntry
<1>6. CASE UNCHANGED vars
  BY <1>t, <1>6 DEF RangeInv, Covers, IsLoad, SegmentEnd, vars
<1> QED
  BY <1>1, <1>2, <1>3, <1>4, <1>5, <1>6 DEF Next

LEMMA PagesNext == LoadInv /\ [Next]_vars => PagesInv'
<1> SUFFICES ASSUME LoadInv, [Next]_vars PROVE PagesInv'
  OBVIOUS
<1>t. PagesInv
  BY DEF LoadInv
<1>1. CASE CalcLoadAddressRange
  BY <1>t, <1>1 DEF PagesInv, CalcLoadAddressRange, Turn
<1>2. CASE CountPages
  BY <1>t, <1>2 DEF PagesInv, CountPages
<1>3. CASE AllocatePages
  BY <1>t, <1>3 DEF PagesInv, AllocatePages, CanAllocate, Wanted
<1>4. CASE CopyLoadSegments
  BY <1>t, <1>4 DEF PagesInv, CopyLoadSegments, Turn, Wanted
<1>5. CASE ReadEntry
  BY <1>t, <1>5 DEF PagesInv, ReadEntry, Wanted
<1>6. CASE UNCHANGED vars
  BY <1>t, <1>6 DEF PagesInv, vars, Wanted
<1> QED
  BY <1>1, <1>2, <1>3, <1>4, <1>5, <1>6 DEF Next

\* What has been given holds every segment.
LEMMA SegmentOwned ==
  ASSUME LoadInv, pc = "CopyLoadSegments", NEW n \in DOMAIN phdr, IsLoad(n),
         NEW a \in phdr[n].p_vaddr .. SegmentEnd(n) - 1
  PROVE  a \in owned
<1>1. /\ phdr \in Files
      /\ kernel_first_addr \in Address /\ kernel_last_addr \in Address
  BY DEF LoadInv, TypeOK
<1>2. phdr[n].p_vaddr \in Address /\ SegmentEnd(n) \in Address
  BY <1>1, HeaderType
<1>3. Covers(n)
  BY DEF LoadInv, RangeInv
<1>4. /\ num_pages = PagesFor(kernel_first_addr, kernel_last_addr)
      /\ owned = Wanted /\ num_pages > 0
  BY DEF LoadInv, PagesInv
<1>5. kernel_first_addr <= kernel_last_addr /\ kernel_first_addr <= a /\ a < kernel_last_addr
      /\ a \in Int
  BY <1>1, <1>2, <1>3 DEF Covers
<1>6. num_pages * PageSize >= kernel_last_addr - kernel_first_addr
  BY <1>1, <1>4, <1>5, PagesForEnough
<1>7. num_pages * PageSize \in Int
  <2>1. num_pages \in Int
    BY <1>1, <1>4, PagesForRange, DivMonotone
  <2> QED
    BY <2>1
<1>8. a \in kernel_first_addr .. kernel_first_addr + num_pages * PageSize - 1
  BY <1>1, <1>5, <1>6, <1>7
<1> QED
  BY <1>4, <1>8 DEF Wanted

\* A turn of the second loop changes the cells of its segment, and gives them what
\* the file says.
LEMMA PlacedEffect ==
  ASSUME TypeOK, NEW n \in DOMAIN phdr, memory' = Placed(memory, phdr[n])
  PROVE  /\ \A a \in Address : a \notin phdr[n].p_vaddr .. SegmentEnd(n) - 1 =>
                memory'[a] = memory[a]
         /\ \A a \in phdr[n].p_vaddr .. SegmentEnd(n) - 1 :
                memory'[a] = IF a < phdr[n].p_vaddr + phdr[n].p_filesz
                               THEN FileByte(phdr[n].p_offset + (a - phdr[n].p_vaddr))
                               ELSE Zero
<1>1. /\ phdr[n].p_vaddr \in Address /\ SegmentEnd(n) \in Address
      /\ phdr[n].p_memsz \in Nat
  BY HeaderType DEF TypeOK
<1>2. \A a \in phdr[n].p_vaddr .. SegmentEnd(n) - 1 : a \in Address
  BY <1>1
<1>3. memory' = Placed(memory, phdr[n])
  OBVIOUS
<1>4. ASSUME NEW a \in Address, a \notin phdr[n].p_vaddr .. SegmentEnd(n) - 1
      PROVE  memory'[a] = memory[a]
  <2>1. a \notin phdr[n].p_vaddr .. phdr[n].p_vaddr + phdr[n].p_memsz - 1
    BY <1>1, <1>4 DEF SegmentEnd
  <2> QED
    BY <1>3, <2>1 DEF Placed
<1>5. ASSUME NEW a \in phdr[n].p_vaddr .. SegmentEnd(n) - 1
      PROVE  memory'[a] = IF a < phdr[n].p_vaddr + phdr[n].p_filesz
                            THEN FileByte(phdr[n].p_offset + (a - phdr[n].p_vaddr))
                            ELSE Zero
  <2>1. a \in phdr[n].p_vaddr .. phdr[n].p_vaddr + phdr[n].p_memsz - 1
    BY <1>1, <1>5 DEF SegmentEnd
  <2>2. a \in Address
    BY <1>2, <1>5
  <2> QED
    BY <1>3, <2>1, <2>2 DEF Placed
<1> QED
  BY <1>4, <1>5

LEMMA InsideNext == LoadInv /\ [Next]_vars => InsidePages'
<1> SUFFICES ASSUME LoadInv, [Next]_vars PROVE InsidePages'
  OBVIOUS
<1>t. TypeOK /\ InsidePages /\ phdr \in Files /\ i \in 1 .. Len(phdr) + 1
  BY DEF LoadInv, TypeOK
<1>1. CASE CalcLoadAddressRange
  BY <1>t, <1>1 DEF InsidePages, CalcLoadAddressRange, Turn
<1>2. CASE CountPages
  BY <1>t, <1>2 DEF InsidePages, CountPages
<1>3. CASE AllocatePages
  <2>1. memory' = memory
    BY <1>3 DEF AllocatePages
  <2>2. \A a \in Address : memory[a] = Untouched
    BY <1>t, <1>3 DEF LoadInv, PagesInv, InsidePages, AllocatePages
  <2> QED
    BY <2>1, <2>2 DEF InsidePages
<1>4. CASE CopyLoadSegments
  <2>1. pc = "CopyLoadSegments" /\ i \in DOMAIN phdr /\ owned' = owned
    BY <1>t, <1>4, LoopIndex DEF CopyLoadSegments, Turn
  <2>2. CASE IsLoad(i)
    <3>1. memory' = Placed(memory, phdr[i])
      BY <1>4, <2>2 DEF CopyLoadSegments
    <3>2. \A a \in phdr[i].p_vaddr .. SegmentEnd(i) - 1 : a \in owned
      BY <2>1, <2>2, SegmentOwned
    <3>3. \A a \in Address : a \notin owned => memory'[a] = memory[a]
      BY <1>t, <2>1, <3>1, <3>2, PlacedEffect
    <3> QED
      BY <1>t, <2>1, <3>3 DEF InsidePages
  <2>3. CASE ~IsLoad(i)
    BY <1>t, <1>4, <2>1, <2>3 DEF InsidePages, CopyLoadSegments
  <2> QED
    BY <2>2, <2>3
<1>5. CASE ReadEntry
  BY <1>t, <1>5 DEF InsidePages, ReadEntry
<1>6. CASE UNCHANGED vars
  BY <1>t, <1>6 DEF InsidePages, vars
<1> QED
  BY <1>1, <1>2, <1>3, <1>4, <1>5, <1>6 DEF Next

LEMMA PlacedNext == LoadInv /\ [Next]_vars => PlacedInv'
<1> SUFFICES ASSUME LoadInv, [Next]_vars PROVE PlacedInv'
  OBVIOUS
<1>t. TypeOK /\ PlacedInv /\ phdr \in Files /\ i \in 1 .. Len(phdr) + 1
  BY DEF LoadInv, TypeOK
<1>i. /\ Len(phdr) \in Nat /\ i \in Nat /\ DOMAIN phdr = 1 .. Len(phdr)
      /\ (i <= Len(phdr) => i \in DOMAIN phdr)
  BY <1>t, LoopIndex
<1>1. CASE CalcLoadAddressRange
  BY <1>1 DEF PlacedInv, CalcLoadAddressRange, Turn
<1>2. CASE CountPages
  BY <1>2 DEF PlacedInv, CountPages
<1>3. CASE AllocatePages
  <2>1. phdr' = phdr /\ (pc' = "Halt" \/ (pc' = "CopyLoadSegments" /\ i' = 1))
    BY <1>3 DEF AllocatePages
  <2> QED
    BY <1>i, <2>1 DEF PlacedInv
<1>4. CASE CopyLoadSegments
  <2>1. /\ pc = "CopyLoadSegments" /\ pc' = pc /\ phdr' = phdr /\ i' = i + 1
        /\ i \in DOMAIN phdr
        /\ \A n : IsLoad(n)' <=> IsLoad(n)
        /\ \A n : SegmentEnd(n)' = SegmentEnd(n)
        /\ memory' = IF IsLoad(i) THEN Placed(memory, phdr[i]) ELSE memory
    BY <1>4, <1>i DEF CopyLoadSegments, Turn, IsLoad, SegmentEnd
  <2>2. ASSUME NEW n \in DOMAIN phdr, IsLoad(n), n < i + 1
        PROVE  SegmentLoaded(n)'
    <3>1. CASE n = i
      <4>1. memory' = Placed(memory, phdr[i])
        BY <2>1, <2>2, <3>1
      <4> QED
        BY <1>t, <2>1, <3>1, <4>1, PlacedEffect DEF SegmentLoaded
    <3>2. CASE n # i
      <4>1. n < i
        BY <1>i, <2>2, <3>2
      <4>2. SegmentLoaded(n)
        BY <1>t, <2>1, <2>2, <4>1 DEF PlacedInv
      <4>3. \A a \in phdr[n].p_vaddr .. SegmentEnd(n) - 1 : memory'[a] = memory[a]
        <5>1. CASE ~IsLoad(i)
          BY <2>1, <5>1
        <5>2. CASE IsLoad(i)
          <6>1. SegmentEnd(n) <= phdr[i].p_vaddr \/ SegmentEnd(i) <= phdr[n].p_vaddr
            BY <1>t, <2>1, <2>2, <3>2, <5>2, ElfFiles DEF WellFormed, IsLoad, SegmentEnd
          <6>2. /\ phdr[n].p_vaddr \in Address /\ SegmentEnd(n) \in Address
                /\ phdr[i].p_vaddr \in Address /\ SegmentEnd(i) \in Address
            BY <1>t, <2>1, HeaderType
          <6>3. ASSUME NEW a \in phdr[n].p_vaddr .. SegmentEnd(n) - 1
                PROVE  a \in Address /\ a \notin phdr[i].p_vaddr .. SegmentEnd(i) - 1
            BY <6>1, <6>2, <6>3
          <6> QED
            BY <1>t, <2>1, <5>2, <6>3, PlacedEffect
        <5> QED
          BY <5>1, <5>2
      <4> QED
        BY <2>1, <4>2, <4>3 DEF SegmentLoaded
    <3> QED
      BY <3>1, <3>2
  <2> QED
    BY <2>1, <2>2 DEF PlacedInv
<1>5. CASE ReadEntry
  <2>1. /\ pc = "CopyLoadSegments" /\ phdr' = phdr /\ memory' = memory /\ i > Len(phdr)
        /\ \A n : IsLoad(n)' <=> IsLoad(n)
        /\ \A n : SegmentLoaded(n)' <=> SegmentLoaded(n)
    BY <1>5 DEF ReadEntry, IsLoad, SegmentLoaded, SegmentEnd
  <2>2. \A n \in DOMAIN phdr : n < i
    BY <1>i, <2>1
  <2> QED
    BY <1>t, <2>1, <2>2 DEF PlacedInv
<1>6. CASE UNCHANGED vars
  BY <1>t, <1>6 DEF PlacedInv, vars, IsLoad, SegmentLoaded, SegmentEnd
<1> QED
  BY <1>1, <1>2, <1>3, <1>4, <1>5, <1>6 DEF Next

LEMMA EntryNext == LoadInv /\ [Next]_vars => EntryInv'
<1> SUFFICES ASSUME LoadInv, [Next]_vars PROVE EntryInv'
  OBVIOUS
<1>1. CASE CalcLoadAddressRange
  BY <1>1 DEF EntryInv, CalcLoadAddressRange, Turn
<1>2. CASE CountPages
  BY <1>2 DEF EntryInv, CountPages
<1>3. CASE AllocatePages
  BY <1>3 DEF EntryInv, AllocatePages
<1>4. CASE CopyLoadSegments
  BY <1>4 DEF EntryInv, CopyLoadSegments, Turn
<1>5. CASE ReadEntry
  BY <1>5 DEF EntryInv, ReadEntry
<1>6. CASE UNCHANGED vars
  BY <1>6 DEF EntryInv, vars, LoadInv
<1> QED
  BY <1>1, <1>2, <1>3, <1>4, <1>5, <1>6 DEF Next

LEMMA LoadNext == LoadInv /\ [Next]_vars => LoadInv'
  BY TypesNext, RangeNext, PagesNext, PlacedNext, InsideNext, EntryNext DEF LoadInv

LEMMA LoadAlways == Spec => []LoadInv
  BY LoadInit, LoadNext, PTL DEF Spec

\* The copy never leaves the pages that were given for it.
THEOREM CopyInside == Spec => []InsidePages
<1>1. LoadInv => InsidePages
  BY DEF LoadInv
<1> QED
  BY <1>1, LoadAlways, PTL

\* Every segment of a well-formed file is in memory when the kernel is entered.
THEOREM AllLoaded == Spec => []Loaded
<1>1. LoadInv => Loaded
  BY DEF LoadInv, PlacedInv, Loaded
<1> QED
  BY <1>1, LoadAlways, PTL

\* The cell the entry point is read from is the header's e_entry, if the header is
\* part of the lowest segment.
LEMMA EntryFound ==
  ASSUME LoadInv, pc = "Kernel", HeaderFirst
  PROVE  entry_addr = FileByte(EntryOffset)
<1>1. PICK n \in DOMAIN phdr :
        /\ IsLoad(n) /\ phdr[n].p_offset = 0 /\ phdr[n].p_filesz > EntryOffset
        /\ \A m \in DOMAIN phdr : IsLoad(m) => phdr[n].p_vaddr <= phdr[m].p_vaddr
  BY DEF HeaderFirst
<1>2. /\ phdr \in Files /\ kernel_first_addr \in Address
  BY DEF LoadInv, TypeOK
<1>3. /\ phdr[n].p_vaddr \in Address /\ SegmentEnd(n) \in Address
      /\ phdr[n].p_filesz \in Nat /\ phdr[n].p_memsz \in Nat
      /\ phdr[n].p_filesz <= phdr[n].p_memsz
      /\ SegmentEnd(n) = phdr[n].p_vaddr + phdr[n].p_memsz
  BY <1>2, HeaderType DEF SegmentEnd
<1>4. Covers(n)
  BY <1>1 DEF LoadInv, RangeInv
<1>5. kernel_first_addr # MAX_UINT64
  BY <1>1, <1>2, <1>3, <1>4 DEF Covers
<1>6. PICK m \in DOMAIN phdr : IsLoad(m) /\ phdr[m].p_vaddr = kernel_first_addr
  BY <1>5 DEF LoadInv, RangeInv
<1>7. kernel_first_addr = phdr[n].p_vaddr
  BY <1>1, <1>2, <1>3, <1>4, <1>6 DEF Covers
<1> DEFINE a == kernel_first_addr + EntryOffset
<1>8. /\ a \in phdr[n].p_vaddr .. SegmentEnd(n) - 1
      /\ a < phdr[n].p_vaddr + phdr[n].p_filesz /\ a - phdr[n].p_vaddr = EntryOffset
      /\ a \in Nat /\ a < Modulus
  BY <1>1, <1>2, <1>3, <1>7
<1>9. a % Modulus = a
  BY <1>8, ModSmall
<1>10. SegmentLoaded(n)
  BY <1>1 DEF LoadInv, PlacedInv
<1>11. memory[a] = FileByte(0 + EntryOffset)
  BY <1>1, <1>8, <1>10 DEF SegmentLoaded
<1> QED
  BY <1>9, <1>11 DEF LoadInv, EntryInv

\* The kernel is entered at the file's e_entry.
THEOREM EntryRight == Spec => []EntryIsElfEntry
<1>1. LoadInv => EntryIsElfEntry
  BY EntryFound DEF EntryIsElfEntry
<1> QED
  BY <1>1, LoadAlways, PTL
=============================================================================
