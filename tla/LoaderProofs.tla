---------------------------- MODULE LoaderProofs ----------------------------
(***************************************************************************)
(* Proofs about Loader: what holds when the kernel is entered, and when    *)
(* its segments are copied, for every memory, every set of kernel pages,   *)
(* every size of the map's buffer, whichever calls fail and whatever the   *)
(* firmware does.                                                          *)
(***************************************************************************)
EXTENDS Loader, FiniteSetTheorems, TLAPS

-----------------------------------------------------------------------------
(***************************************************************************)
(* What the boot services do to the pages of an owner.                     *)
(***************************************************************************)

\* Pages that pass to an owner are taken from those who had them.
LEMMA GiveOthers ==
  ASSUME NEW P, NEW owner, Give(P, owner),
         NEW o, o # owner, \A p \in Page : p \in P => memory[p] # o
  PROVE  Pages(o)' = Pages(o)
  BY DEF Give, Pages

LEMMA GiveOwner ==
  ASSUME NEW P \in SUBSET Page, NEW owner, Give(P, owner)
  PROVE  Pages(owner)' = Pages(owner) \union P
  BY DEF Give, Pages

\* The owners of what the loader has allocated.
Allocated == {"gop_handles", "kernel_buffer", "kernel"}

LEMMA PoolEffect ==
  ASSUME NEW owner \in Allocated, AllocatePool(owner)
  PROVE  /\ Pages(owner)' # {}
         /\ \A o \in Allocated : o # owner => Pages(o)' = Pages(o)
<1>1. PICK p \in PoolPages \intersect FreePages : Give({p}, owner)
  BY DEF AllocatePool
<1>2. p \in Page /\ memory[p] = "free"
  BY <1>1 DEF FreePages
<1>3. Pages(owner)' = Pages(owner) \union {p}
  BY <1>1, <1>2, GiveOwner
<1>4. \A o \in Allocated : o # owner => Pages(o)' = Pages(o)
  BY <1>1, <1>2, GiveOthers DEF Allocated
<1> QED
  BY <1>3, <1>4

LEMMA FreeEffect ==
  ASSUME NEW owner \in Allocated, FreePool(owner)
  PROVE  /\ Pages(owner)' = {}
         /\ \A o \in Allocated : o # owner => Pages(o)' = Pages(o)
<1>1. Give(Pages(owner), "free")
  BY DEF FreePool, Pages
<1>2. Pages(owner)' = {}
  BY <1>1 DEF Give, Pages, Allocated
<1>3. \A o \in Allocated : o # owner => Pages(o)' = Pages(o)
  BY <1>1, GiveOthers DEF Pages, Allocated
<1> QED
  BY <1>2, <1>3

LEMMA EventEffect ==
  ASSUME FirmwareEvent
  PROVE  boot' = boot /\ \A o \in Allocated : Pages(o)' = Pages(o)
<1>1. PICK p \in Page : \/ memory[p] = "free" /\ Give({p}, "firmware")
                        \/ memory[p] = "firmware" /\ Give({p}, "free")
  BY DEF FirmwareEvent
<1>2. \A o \in Allocated : Pages(o)' = Pages(o)
  BY <1>1, GiveOthers DEF Allocated
<1> QED
  BY <1>2 DEF FirmwareEvent

-----------------------------------------------------------------------------
(***************************************************************************)
(* The invariant: what the loader owns, and what has become of the file,   *)
(* at each point of UefiMain.                                              *)
(***************************************************************************)
Placed == {"FreePool", "ExitBootServices", "GetMemoryMapAgain", "ExitBootServicesAgain",
           "CallKernel", "Kernel"}

\* The boot services are on until they have been left.
Services ==
  /\ pc \notin {"CallKernel", "Kernel", "Halt"} => boot
  /\ pc \in {"CallKernel", "Kernel"} => ~boot
  /\ stray => format \notin Supported
  /\ pc = "Kernel" => format \in Supported

\* Each buffer is held between its allocation and its release only.
Buffers ==
  /\ pc \notin {"OpenGOP", "Halt"} => Pages("gop_handles") = {}
  /\ pc \notin {"Read", "AllocatePages", "CopyLoadSegments", "FreePool", "Halt"}
       => Pages("kernel_buffer") = {}
  /\ pc \in {"Read", "AllocatePages", "CopyLoadSegments"} => Pages("kernel_buffer") # {}

\* The file is read, then its segments are placed in the kernel's pages.
File ==
  /\ pc \in {"AllocatePages", "CopyLoadSegments"} => image = "read"
  /\ pc \in Placed => image = "placed"
  /\ pc \notin Placed \union {"CopyLoadSegments", "Halt"} => Pages("kernel") = {}
  /\ pc \in Placed \union {"CopyLoadSegments"} => Pages("kernel") = KernelPages

LoaderInv == Services /\ Buffers /\ File

LEMMA PlainEffect ==
  ASSUME NEW at, NEW next, Plain(at, next)
  PROVE  /\ pc = at /\ (pc' = next \/ pc' = "Halt") /\ stray' = (stray \/ ~boot)
         /\ memory' = memory /\ boot' = boot /\ image' = image /\ format' = format
<1>1. pc' \in {next} \union (IF at \in Failing THEN {"Halt"} ELSE {})
  BY DEF Plain
<1> QED
  BY <1>1 DEF Plain, Call, firmwareVars

LEMMA ReadMapEffect ==
  ASSUME NEW next, ReadMap(next)
  PROVE  /\ pc' = next \/ pc' = "Halt"
         /\ memory' = memory /\ boot' = boot /\ image' = image /\ format' = format
  BY DEF ReadMap

LEMMA LoaderInit == Init => LoaderInv
<1> SUFFICES ASSUME Init PROVE LoaderInv
  OBVIOUS
<1>1. \A o \in Allocated : Pages(o) = {}
  BY LoaderMemories DEF Init, Pages, Allocated
<1> QED
  BY <1>1 DEF Init, LoaderInv, Services, Buffers, File, Placed, Allocated

LEMMA LoaderNext == LoaderInv /\ [Next]_vars => LoaderInv'
<1> SUFFICES ASSUME Services, Buffers, File, [Next]_vars PROVE LoaderInv'
  BY DEF LoaderInv
<1>same. ASSUME memory' = memory
         PROVE  \A o \in Allocated : Pages(o)' = Pages(o)
  BY <1>same DEF Pages
<1>1. CASE GetMemoryMap \/ OpenRootDir \/ OpenMemmap \/ SaveMemoryMap \/ CloseMemmap \/ OpenKernel
  <2> DEFINE Start == {"GetMemoryMap", "OpenRootDir", "OpenMemmap", "SaveMemoryMap",
                       "CloseMemmap", "OpenKernel"}
             Then  == {"OpenRootDir", "OpenMemmap", "SaveMemoryMap", "CloseMemmap",
                       "LocateGOP", "AllocatePool", "Halt"}
  <2>1. /\ pc \in Start /\ pc' \in Then
        /\ UNCHANGED <<memory, boot, image, format>> /\ stray' = (stray \/ ~boot)
    <3>1. CASE GetMemoryMap
      BY <3>1, ReadMapEffect DEF GetMemoryMap, Call
    <3>2. CASE OpenRootDir
      BY <3>2, PlainEffect DEF OpenRootDir
    <3>3. CASE OpenMemmap
      <4>1. pc' \in {"SaveMemoryMap", "LocateGOP"}
        BY <3>3 DEF OpenMemmap
      <4> QED BY <3>3, <4>1 DEF OpenMemmap, Call, firmwareVars
    <3>4. CASE SaveMemoryMap
      BY <3>4 DEF SaveMemoryMap, Call, firmwareVars
    <3>5. CASE CloseMemmap
      BY <3>5, PlainEffect DEF CloseMemmap
    <3>6. CASE OpenKernel
      BY <3>6, PlainEffect DEF OpenKernel
    <3> QED BY <1>1, <3>1, <3>2, <3>3, <3>4, <3>5, <3>6
  <2>2. boot /\ (stray' <=> stray)
    BY <2>1 DEF Services
  <2>3. /\ Pages("gop_handles") = {} /\ Pages("kernel_buffer") = {} /\ Pages("kernel") = {}
    BY <2>1 DEF Buffers, File, Placed
  <2>4. /\ Pages("gop_handles")' = {} /\ Pages("kernel_buffer")' = {} /\ Pages("kernel")' = {}
    BY <2>1, <2>3, <1>same DEF Allocated
  <2>5. Services'
    BY <2>1, <2>2 DEF Services
  <2>6. Buffers' /\ File'
    BY <2>1, <2>4 DEF Buffers, File, Placed
  <2> QED BY <2>5, <2>6 DEF LoaderInv
<1>2. CASE LocateGOP \/ AllocateBuffer
  <2>0. boot /\ (stray' <=> stray) /\ UNCHANGED <<boot, image, format>>
    BY <1>2 DEF LocateGOP, AllocateBuffer, Allocating, Call, Services
  <2>1. CASE pc = "LocateGOP" /\ AllocatePool("gop_handles") /\ pc' = "OpenGOP"
    <3>1. \A o \in {"kernel_buffer", "kernel"} : Pages(o)' = Pages(o)
      BY <2>1, PoolEffect DEF Allocated
    <3>2. Services' /\ Buffers' /\ File'
      BY <2>0, <2>1, <3>1 DEF Services, Buffers, File, Placed
    <3> QED BY <3>2 DEF LoaderInv
  <2>2. CASE pc = "AllocatePool" /\ AllocatePool("kernel_buffer") /\ pc' = "Read"
    <3>1. /\ Pages("kernel_buffer")' # {}
          /\ \A o \in {"gop_handles", "kernel"} : Pages(o)' = Pages(o)
      BY <2>2, PoolEffect DEF Allocated
    <3>2. Services' /\ Buffers' /\ File'
      BY <2>0, <2>2, <3>1 DEF Services, Buffers, File, Placed
    <3> QED BY <3>2 DEF LoaderInv
  <2>3. CASE pc' = "Halt"
    <3>1. Services' /\ Buffers' /\ File'
      BY <2>0, <2>3 DEF Services, Buffers, File, Placed
    <3> QED BY <3>1 DEF LoaderInv
  <2> QED BY <1>2, <2>1, <2>2, <2>3 DEF LocateGOP, AllocateBuffer, Allocating, Call
<1>3. CASE OpenGOP \/ FreeBuffer
  <2>0. boot /\ (stray' <=> stray) /\ UNCHANGED <<boot, image, format>>
    BY <1>3 DEF OpenGOP, FreeBuffer, Freeing, Call, Services, firmwareVars
  <2>1. CASE pc = "OpenGOP" /\ FreePool("gop_handles") /\ pc' = "FillScreen"
    <3>1. /\ Pages("gop_handles")' = {}
          /\ \A o \in {"kernel_buffer", "kernel"} : Pages(o)' = Pages(o)
      BY <2>1, FreeEffect DEF Allocated
    <3>2. Services' /\ Buffers' /\ File'
      BY <2>0, <2>1, <3>1 DEF Services, Buffers, File, Placed
    <3> QED BY <3>2 DEF LoaderInv
  <2>2. CASE pc = "FreePool" /\ FreePool("kernel_buffer") /\ pc' = "ExitBootServices"
    <3>1. /\ Pages("kernel_buffer")' = {}
          /\ \A o \in {"gop_handles", "kernel"} : Pages(o)' = Pages(o)
      BY <2>2, FreeEffect DEF Allocated
    <3>2. Services' /\ Buffers' /\ File'
      BY <2>0, <2>2, <3>1 DEF Services, Buffers, File, Placed
    <3> QED BY <3>2 DEF LoaderInv
  <2>3. CASE pc' = "Halt"
    <3>1. Services' /\ Buffers' /\ File'
      BY <2>0, <2>3 DEF Services, Buffers, File, Placed
    <3> QED BY <3>1 DEF LoaderInv
  <2> QED BY <1>3, <2>1, <2>2, <2>3 DEF OpenGOP, FreeBuffer, Freeing, Call
<1>10. CASE FillScreen
  <2>1. /\ pc = "FillScreen" /\ pc' = "OpenKernel"
        /\ UNCHANGED <<memory, boot, image, format, stray>>
    BY <1>10 DEF FillScreen, firmwareVars
  <2>2. Services' /\ Buffers' /\ File'
    BY <2>1, <1>same DEF Services, Buffers, File, Placed, Allocated
  <2> QED BY <2>2 DEF LoaderInv
<1>4. CASE Read \/ CopyLoadSegments
  <2>1. /\ \/ pc = "Read" /\ image' = "read" /\ pc' = "AllocatePages"
           \/ pc = "CopyLoadSegments" /\ image' = "placed" /\ pc' = "FreePool"
           \/ pc = "Read" /\ pc' = "Halt"
        /\ UNCHANGED <<memory, boot, format>> /\ stray' = (stray \/ ~boot)
    BY <1>4 DEF Read, CopyLoadSegments, Call, firmwareVars
  <2>2. boot /\ (stray' <=> stray)
    BY <2>1 DEF Services
  <2>3. Services' /\ Buffers' /\ File'
    BY <2>1, <2>2, <1>same DEF Services, Buffers, File, Placed, Allocated
  <2> QED BY <2>3 DEF LoaderInv
<1>5. CASE PlaceKernel
  <2>0. boot /\ (stray' <=> stray) /\ UNCHANGED <<boot, image, format>> /\ pc = "AllocatePages"
    BY <1>5 DEF PlaceKernel, Call, Services
  <2>1. CASE AllocatePages(KernelPages, "kernel") /\ pc' = "CopyLoadSegments"
    <3>1. Give(KernelPages, "kernel") /\ \A p \in KernelPages : memory[p] = "free"
      BY <2>1 DEF AllocatePages, FreePages
    <3>2. Pages("kernel")' = Pages("kernel") \union KernelPages
      BY <3>1, GiveOwner, LoaderSizes
    <3>3. \A o \in {"gop_handles", "kernel_buffer"} : Pages(o)' = Pages(o)
      BY <3>1, GiveOthers
    <3>4. Services' /\ Buffers' /\ File'
      BY <2>0, <2>1, <3>2, <3>3 DEF Services, Buffers, File, Placed
    <3> QED BY <3>4 DEF LoaderInv
  <2>2. CASE pc' = "Halt"
    <3>1. Services' /\ Buffers' /\ File'
      BY <2>0, <2>2 DEF Services, Buffers, File, Placed
    <3> QED BY <3>1 DEF LoaderInv
  <2> QED BY <1>5, <2>1, <2>2 DEF PlaceKernel
<1>6. CASE ExitBootServices \/ GetMemoryMapAgain \/ ExitBootServicesAgain
  <2>1. /\ pc \in {"ExitBootServices", "GetMemoryMapAgain", "ExitBootServicesAgain"}
        /\ \/ pc' \in {"GetMemoryMapAgain", "ExitBootServicesAgain", "Halt"} /\ boot' = boot
           \/ pc' = "CallKernel" /\ boot' = FALSE
        /\ UNCHANGED <<memory, image, format>> /\ stray' = (stray \/ ~boot)
    BY <1>6 DEF ExitBootServices, GetMemoryMapAgain, ExitBootServicesAgain, Exit, ReadMap, Call
  <2>2. boot /\ (stray' <=> stray)
    BY <2>1 DEF Services
  <2>3. Services' /\ Buffers' /\ File'
    BY <2>1, <2>2, <1>same DEF Services, Buffers, File, Placed, Allocated
  <2> QED BY <2>3 DEF LoaderInv
<1>7. CASE CallKernel
  <2>1. /\ pc = "CallKernel" /\ UNCHANGED <<memory, boot, image, format>>
        /\ \/ format \in Supported /\ pc' = "Kernel" /\ stray' = stray
           \/ format \notin Supported /\ pc' = "Halt"
    BY <1>7 DEF CallKernel, Call, firmwareVars
  <2>2. Services' /\ Buffers' /\ File'
    BY <2>1, <1>same DEF Services, Buffers, File, Placed, Allocated
  <2> QED BY <2>2 DEF LoaderInv
<1>8. CASE FirmwareEvent /\ UNCHANGED <<pc, map_size, lines, image, fill, format, stray>>
  <2>1. Services' /\ Buffers' /\ File'
    BY <1>8, EventEffect DEF Services, Buffers, File, Placed, Allocated
  <2> QED BY <2>1 DEF LoaderInv
<1>9. CASE UNCHANGED vars
  <2>1. Services' /\ Buffers' /\ File'
    BY <1>9, <1>same DEF vars, Services, Buffers, File, Placed, Allocated
  <2> QED BY <2>1 DEF LoaderInv
<1> QED
  BY <1>1, <1>2, <1>3, <1>4, <1>5, <1>6, <1>7, <1>8, <1>9, <1>10 DEF Next, Step

\* What is known of the screen once the loop has filled it.
Before  == {"GetMemoryMap", "OpenRootDir", "OpenMemmap", "SaveMemoryMap", "CloseMemmap",
            "LocateGOP", "OpenGOP", "FillScreen"}
Filled == pc \notin Before \union {"Halt"} => fill = "screen" \/ format = "BltOnly"

LEMMA FilledNext == Filled /\ [Next]_vars => Filled'
<1> SUFFICES ASSUME Filled, [Next]_vars PROVE Filled'
  OBVIOUS
<1>1. CASE FillScreen
  BY <1>1 DEF FillScreen, Filled
<1>2. CASE GetMemoryMap \/ OpenRootDir \/ OpenMemmap \/ SaveMemoryMap \/ CloseMemmap \/ LocateGOP \/ OpenGOP
  <2>1. pc' \in Before \union {"Halt"}
    <3>1. CASE GetMemoryMap \/ SaveMemoryMap \/ LocateGOP \/ OpenGOP
      BY <3>1 DEF GetMemoryMap, SaveMemoryMap, LocateGOP, OpenGOP, ReadMap, Allocating, Freeing,
         Call, Before
    <3>2. CASE OpenRootDir \/ CloseMemmap
      BY <3>2, PlainEffect DEF OpenRootDir, CloseMemmap, Before
    <3>3. CASE OpenMemmap
      <4>1. pc' \in {"SaveMemoryMap", "LocateGOP"}
        BY <3>3 DEF OpenMemmap
      <4> QED BY <4>1 DEF Before
    <3> QED BY <1>2, <3>1, <3>2, <3>3
  <2> QED BY <2>1 DEF Filled
<1>3. CASE OpenKernel \/ AllocateBuffer \/ Read \/ PlaceKernel \/ CopyLoadSegments \/ FreeBuffer
           \/ ExitBootServices \/ GetMemoryMapAgain \/ ExitBootServicesAgain \/ CallKernel
  <2>1. pc \notin Before \union {"Halt"} /\ UNCHANGED <<fill, format>>
    BY <1>3 DEF OpenKernel, AllocateBuffer, Read, PlaceKernel, CopyLoadSegments, FreeBuffer,
       ExitBootServices, GetMemoryMapAgain, ExitBootServicesAgain, CallKernel, Exit, Plain,
       ReadMap, Allocating, Freeing, Call, Before
  <2> QED BY <2>1 DEF Filled
<1>4. CASE (FirmwareEvent /\ UNCHANGED <<pc, map_size, lines, image, fill, format, stray>>)
           \/ UNCHANGED vars
  BY <1>4 DEF vars, Filled
<1> QED
  BY <1>1, <1>2, <1>3, <1>4 DEF Next, Step

-----------------------------------------------------------------------------
(***************************************************************************)
(* Types.  TypeOK is not inductive: that the file of the map has no more   *)
(* lines than the buffer has descriptors rests on map_size being that of a *)
(* map that fitted.                                                        *)
(***************************************************************************)
Saving == {"OpenRootDir", "OpenMemmap", "SaveMemoryMap"}

TypeInv == TypeOK /\ (pc \in Saving => map_size <= MapSlots)

LEMMA MapNat ==
  /\ Descriptors \in 0 .. Cardinality(Page)
  /\ Cardinality(Page) \in Nat /\ MapSlots \in Nat
<1> DEFINE first == {p \in Page : p - 1 \in Page => memory[p - 1] # memory[p]}
<1>1. Cardinality(first) \in Nat /\ Cardinality(first) <= Cardinality(Page)
  BY FirmwarePages, FS_Subset, FS_CardinalityType
<1>2. Cardinality(Page) \in Nat
  BY FirmwarePages, FS_CardinalityType
<1> QED
  BY <1>1, <1>2, LoaderSizes DEF Descriptors

LEMMA GiveType ==
  ASSUME memory \in [Page -> Owner], NEW P, NEW owner \in Owner, Give(P, owner)
  PROVE  memory' \in [Page -> Owner] /\ fresh' \in BOOLEAN
  BY DEF Give

LEMMA ReadMapType ==
  ASSUME TypeOK, NEW next \in ControlPoint, ReadMap(next), stray' \in BOOLEAN
  PROVE  TypeInv'
<1>1. pc' \in ControlPoint
  BY DEF ReadMap, ControlPoint
<1>2. fresh' \in BOOLEAN
  BY DEF ReadMap, TypeOK
<1>3. map_size' \in 0 .. Cardinality(Page) /\ (pc' \in Saving => map_size' <= MapSlots)
  BY MapNat DEF ReadMap, Saving
<1> QED
  BY <1>1, <1>2, <1>3 DEF TypeInv, TypeOK, ReadMap

\* A step that changes none of the loader's own numbers.
LEMMA QuietType ==
  ASSUME TypeInv, pc' \in ControlPoint, stray' \in BOOLEAN,
         memory' \in [Page -> Owner], fresh' \in BOOLEAN, boot' \in BOOLEAN,
         UNCHANGED <<map_size, lines, format>>, image' \in {"none", "read", "placed"},
         fill' \in {"nothing", "screen", "other"},
         pc' \in Saving => pc \in Saving
  PROVE  TypeInv'
  BY DEF TypeInv, TypeOK

LEMMA TypeInit == Init => TypeInv
<1> SUFFICES ASSUME Init PROVE TypeInv
  OBVIOUS
<1>1. memory \in [Page -> Owner]
  BY LoaderMemories DEF Init, Owner
<1>2. pc \in ControlPoint /\ pc \notin Saving
  BY DEF Init, ControlPoint, Saving
<1>3. 0 \in 0 .. Cardinality(Page) /\ 0 \in 0 .. MapSlots + 1
  BY MapNat
<1>4. fresh \in BOOLEAN /\ boot \in BOOLEAN /\ stray \in BOOLEAN
  BY DEF Init
<1>5. map_size = 0 /\ lines = 0 /\ image = "none" /\ fill = "nothing" /\ format \in Formats
  BY DEF Init
<1> QED
  BY <1>1, <1>2, <1>3, <1>4, <1>5 DEF TypeInv, TypeOK

LEMMA TypeNext == TypeInv /\ [Next]_vars => TypeInv'
<1> SUFFICES ASSUME TypeInv, [Next]_vars PROVE TypeInv'
  OBVIOUS
<1>0. /\ TypeOK /\ memory \in [Page -> Owner] /\ fresh \in BOOLEAN /\ boot \in BOOLEAN
      /\ pc \in ControlPoint /\ stray \in BOOLEAN /\ image \in {"none", "read", "placed"}
      /\ fill \in {"nothing", "screen", "other"}
  BY DEF TypeInv, TypeOK
<1>call. ASSUME NEW at, Call(at) PROVE pc = at /\ stray' \in BOOLEAN
  BY <1>0, <1>call DEF Call
<1>1. CASE GetMemoryMap \/ GetMemoryMapAgain
  <2>1. \E next \in ControlPoint : ReadMap(next)
    BY <1>1 DEF GetMemoryMap, GetMemoryMapAgain, ControlPoint
  <2> QED BY <1>0, <1>1, <1>call, <2>1, ReadMapType DEF GetMemoryMap, GetMemoryMapAgain
<1>2. CASE OpenRootDir \/ CloseMemmap \/ OpenKernel
  <2>1. \/ pc = "OpenRootDir" /\ pc' \in {"OpenMemmap", "Halt"}
        \/ pc \in {"CloseMemmap", "OpenKernel"} /\ pc' \in {"LocateGOP", "AllocatePool", "Halt"}
    BY <1>2, PlainEffect DEF OpenRootDir, CloseMemmap, OpenKernel
  <2>2. pc' \in ControlPoint /\ (pc' \in Saving => pc \in Saving)
    BY <2>1 DEF ControlPoint, Saving
  <2>3. /\ stray' \in BOOLEAN /\ UNCHANGED <<memory, fresh, boot, map_size, lines, image, fill, format>>
    BY <1>2, <1>call DEF OpenRootDir, CloseMemmap, OpenKernel, Plain, firmwareVars
  <2> QED BY <1>0, <2>2, <2>3, QuietType
<1>3. CASE OpenMemmap
  <2>1. pc = "OpenMemmap" /\ pc' \in {"SaveMemoryMap", "LocateGOP"} /\ stray' \in BOOLEAN
    BY <1>3, <1>call DEF OpenMemmap
  <2>2. pc' \in ControlPoint /\ pc \in Saving
    BY <2>1 DEF ControlPoint, Saving
  <2>3. UNCHANGED <<memory, fresh, boot, map_size, lines, image, fill, format>>
    BY <1>3 DEF OpenMemmap, firmwareVars
  <2> QED BY <1>0, <2>1, <2>2, <2>3, QuietType
<1>4. CASE SaveMemoryMap
  <2>1. pc = "SaveMemoryMap" /\ stray' \in BOOLEAN /\ pc' \in {"SaveMemoryMap", "CloseMemmap", "Halt"}
    BY <1>4, <1>call DEF SaveMemoryMap
  <2>2. pc' \in ControlPoint /\ pc \in Saving
    BY <2>1 DEF ControlPoint, Saving
  <2>3. UNCHANGED <<memory, fresh, boot, map_size, image, fill, format>>
    BY <1>4 DEF SaveMemoryMap, firmwareVars
  <2>4. map_size \in Nat /\ map_size <= MapSlots /\ lines \in 0 .. MapSlots + 1
    BY <2>2, MapNat DEF TypeInv, TypeOK
  <2>5. lines' \in 0 .. MapSlots + 1
    BY <1>4, <2>4, MapNat DEF SaveMemoryMap
  <2> QED BY <1>0, <2>1, <2>2, <2>3, <2>4, <2>5 DEF TypeInv, TypeOK
<1>5. CASE LocateGOP \/ AllocateBuffer \/ OpenGOP \/ FreeBuffer
  <2>1. /\ memory' \in [Page -> Owner] /\ fresh' \in BOOLEAN
    BY <1>0, <1>5, GiveType DEF LocateGOP, AllocateBuffer, OpenGOP, FreeBuffer, Allocating,
       Freeing, AllocatePool, FreePool, firmwareVars, Owner
  <2>2. pc' \in {"OpenGOP", "Read", "FillScreen", "ExitBootServices", "Halt"} /\ stray' \in BOOLEAN
    BY <1>5, <1>call DEF LocateGOP, AllocateBuffer, OpenGOP, FreeBuffer, Allocating, Freeing
  <2>3. pc' \in ControlPoint /\ pc' \notin Saving
    BY <2>2 DEF ControlPoint, Saving
  <2>4. UNCHANGED <<boot, map_size, lines, image, fill, format>>
    BY <1>5 DEF LocateGOP, AllocateBuffer, OpenGOP, FreeBuffer, Allocating, Freeing, firmwareVars
  <2> QED BY <1>0, <2>1, <2>2, <2>3, <2>4, QuietType
<1>6. CASE Read \/ CopyLoadSegments
  <2>1. /\ pc' \in {"AllocatePages", "FreePool", "Halt"} /\ stray' \in BOOLEAN
        /\ image' \in {"none", "read", "placed"}
    BY <1>0, <1>6, <1>call DEF Read, CopyLoadSegments
  <2>2. pc' \in ControlPoint /\ pc' \notin Saving
    BY <2>1 DEF ControlPoint, Saving
  <2>3. UNCHANGED <<memory, fresh, boot, map_size, lines, fill, format>>
    BY <1>6 DEF Read, CopyLoadSegments, firmwareVars
  <2> QED BY <1>0, <2>1, <2>2, <2>3, QuietType
<1>7. CASE PlaceKernel
  <2>1. /\ memory' \in [Page -> Owner] /\ fresh' \in BOOLEAN
    BY <1>0, <1>7, GiveType DEF PlaceKernel, AllocatePages, Owner
  <2>2. pc' \in {"CopyLoadSegments", "Halt"} /\ stray' \in BOOLEAN
    BY <1>7, <1>call DEF PlaceKernel
  <2>3. pc' \in ControlPoint /\ pc' \notin Saving
    BY <2>2 DEF ControlPoint, Saving
  <2>4. UNCHANGED <<boot, map_size, lines, image, fill, format>>
    BY <1>7 DEF PlaceKernel
  <2> QED BY <1>0, <2>1, <2>2, <2>3, <2>4, QuietType
<1>8. CASE ExitBootServices \/ ExitBootServicesAgain
  <2>1. /\ pc' \in {"CallKernel", "GetMemoryMapAgain", "Halt"} /\ stray' \in BOOLEAN
        /\ boot' \in BOOLEAN
    BY <1>0, <1>8, <1>call DEF ExitBootServices, ExitBootServicesAgain, Exit
  <2>2. pc' \in ControlPoint /\ pc' \notin Saving
    BY <2>1 DEF ControlPoint, Saving
  <2>3. UNCHANGED <<memory, fresh, map_size, lines, image, fill, format>>
    BY <1>8 DEF ExitBootServices, ExitBootServicesAgain, Exit
  <2> QED BY <1>0, <2>1, <2>2, <2>3, QuietType
<1>9. CASE CallKernel
  <2>1. pc' \in {"Kernel", "Halt"} /\ stray' \in BOOLEAN
    BY <1>0, <1>9, <1>call DEF CallKernel
  <2>2. pc' \in ControlPoint /\ pc' \notin Saving
    BY <2>1 DEF ControlPoint, Saving
  <2>3. UNCHANGED <<memory, fresh, boot, map_size, lines, image, fill, format>>
    BY <1>9 DEF CallKernel, firmwareVars
  <2> QED BY <1>0, <2>1, <2>2, <2>3, QuietType
<1>10. CASE FirmwareEvent /\ UNCHANGED <<pc, map_size, lines, image, fill, format, stray>>
  <2>1. memory' \in [Page -> Owner] /\ fresh' \in BOOLEAN /\ boot' = boot
    BY <1>0, <1>10, GiveType DEF FirmwareEvent, Owner
  <2> QED BY <1>0, <1>10, <2>1, QuietType
<1>11. CASE UNCHANGED vars
  BY <1>0, <1>11, QuietType DEF vars
<1>12. CASE FillScreen
  <2>1. /\ pc' \in ControlPoint /\ pc' \notin Saving /\ fill' \in {"nothing", "screen", "other"}
        /\ UNCHANGED <<memory, fresh, boot, map_size, lines, image, format, stray>>
    BY <1>12 DEF FillScreen, firmwareVars, ControlPoint, Saving
  <2> QED BY <1>0, <2>1, QuietType
<1> QED
  BY <1>1, <1>2, <1>3, <1>4, <1>5, <1>6, <1>7, <1>8, <1>9, <1>10, <1>11, <1>12 DEF Next, Step

\* The types of the loader's state; in particular SaveMemoryMap never reads
\* past the end of memmap_buf.
THEOREM LoaderTypes == Spec => []TypeOK
<1>1. TypeInv => TypeOK
  BY DEF TypeInv
<1> QED
  BY <1>1, TypeInit, TypeNext, PTL DEF Spec

-----------------------------------------------------------------------------
\* The segments are copied out of a buffer that holds the file into pages the
\* loader was given for them.
THEOREM CopySafe == Spec => []CopyIsSafe
<1>1. LoaderInv => CopyIsSafe
  BY DEF LoaderInv, Buffers, File, CopyIsSafe
<1> QED
  BY <1>1, LoaderInit, LoaderNext, PTL DEF Spec

\* The kernel is entered with the boot services off, its segments in its own
\* pages, the loader's buffers given back, a pixel format it knows, and the
\* screen filled.
THEOREM HandedOver == Spec => []Handover
<1>1. LoaderInv /\ Filled => Handover
  BY DEF LoaderInv, Services, Buffers, File, Placed, Handover, Supported, Filled, Before
<1>2. Init => Filled
  BY DEF Init, Filled, Before
<1> QED
  BY <1>1, <1>2, LoaderInit, LoaderNext, FilledNext, PTL DEF Spec

\* No boot service is called after they were left, unless to report a pixel
\* format the kernel does not know.
THEOREM StrayOnly == Spec => []StrayOnlyForFormat
<1>1. LoaderInv => StrayOnlyForFormat
  BY DEF LoaderInv, Services, StrayOnlyForFormat
<1> QED
  BY <1>1, LoaderInit, LoaderNext, PTL DEF Spec
=============================================================================
