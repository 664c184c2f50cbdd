------------------------------- MODULE Loader -------------------------------
(***************************************************************************)
(* UefiMain of MikanLoaderPkg/Main.c: read and save the memory map, open   *)
(* and fill the screen, read the kernel's file, put its segments in their  *)
(* place, leave the boot services and call the kernel.                     *)
(*                                                                         *)
(* pc names the next call.  A step is one call of a boot service with the  *)
(* test of its status, or several in a row whose failure has one outcome,  *)
(* or the loop that fills the screen.                                      *)
(* Between any two steps the firmware may change the memory map.           *)
(***************************************************************************)
EXTENDS Firmware

CONSTANTS
  MapSlots,     \* memory descriptors that fit memmap_buf (4 pages)
  KernelPages,  \* the pages from kernel_first_addr on
  Failing,      \* the calls that may return an error for reasons of their own
  Memories,     \* the memory at the start
  Formats       \* the pixel formats of the screen

Supported == {"RGB", "BGR"}

VARIABLES
  pc,
  map_size,   \* memmap.map_size, in descriptors
  lines,      \* the lines written to \memmap
  image,      \* the kernel's file: "none", then "read" into its buffer, then "placed"
  fill,       \* what the loop over the frame buffer has filled: "nothing", "screen" or "other"
  format,     \* gop->Mode->Info->PixelFormat
  stray       \* has a boot service been called after they were left?

vars == <<memory, fresh, boot, pc, map_size, lines, image, fill, format, stray>>

ASSUME LoaderSizes == MapSlots \in Nat /\ KernelPages \subseteq Page
ASSUME LoaderMemories == Memories \subseteq [Page -> {"free", "firmware"}]

ControlPoint ==
  {"GetMemoryMap", "OpenRootDir", "OpenMemmap", "SaveMemoryMap", "CloseMemmap",
   "LocateGOP", "OpenGOP", "FillScreen", "OpenKernel", "AllocatePool", "Read", "AllocatePages",
   "CopyLoadSegments", "FreePool", "ExitBootServices", "GetMemoryMapAgain",
   "ExitBootServicesAgain", "CallKernel", "Kernel", "Halt"}

Init ==
  /\ memory \in Memories /\ fresh = FALSE /\ boot = TRUE
  /\ pc = "GetMemoryMap"
  /\ map_size = 0 /\ lines = 0 /\ image = "none" /\ fill = "nothing"
  /\ format \in Formats
  /\ stray = FALSE

\* At at, a boot service (Print is one too) is called.
Call(at) == pc = at /\ stray' = (stray \/ ~boot)

firmwareVars == <<memory, fresh, boot>>

\* A call without effect on this state: next follows, or the loader prints the
\* error and halts.
Plain(at, next) ==
  /\ Call(at)
  /\ pc' \in {next} \union (IF at \in Failing THEN {"Halt"} ELSE {})
  /\ UNCHANGED <<firmwareVars, map_size, lines, image, fill, format>>

-----------------------------------------------------------------------------
\* Mutants: the status is not looked at; map_size, which the service overwrites,
\* is not set again.
ReadMapUnchecked(next) ==
  /\ map_size' = Descriptors
  /\ pc' = next
  /\ fresh' = (Descriptors <= MapSlots \/ fresh)
  /\ UNCHANGED <<memory, boot, lines, image, fill, format>>
ReadMapNoReset(next) ==
  /\ map_size' = Descriptors
  /\ IF Descriptors <= IF map_size = 0 THEN MapSlots ELSE map_size
       THEN pc' = next /\ fresh' = TRUE
       ELSE pc' = "Halt" /\ UNCHANGED fresh
  /\ UNCHANGED <<memory, boot, lines, image, fill, format>>

\* Main.c:25-33.  The whole buffer is offered; a map that does not fit is an
\* error, which sets map_size all the same.
ReadMap(next) ==
  /\ map_size' = Descriptors
  /\ IF Descriptors <= MapSlots
       THEN pc' = next /\ fresh' = TRUE
       ELSE pc' = "Halt" /\ UNCHANGED fresh
  /\ UNCHANGED <<memory, boot, lines, image, fill, format>>

\* Main.c:210-216
GetMemoryMap == Call("GetMemoryMap") /\ ReadMap("OpenRootDir")

\* Main.c:218-223, 109-129
OpenRootDir == Plain("OpenRootDir", "OpenMemmap")

\* Main.c:225-232.  An error is ignored, and nothing saved.
OpenMemmap ==
  /\ Call("OpenMemmap")
  /\ pc' \in {"SaveMemoryMap"} \union
             (IF "OpenMemmap" \in Failing THEN {"LocateGOP"} ELSE {})
  /\ UNCHANGED <<firmwareVars, map_size, lines, image, fill, format>>

\* Main.c:74-107.  One Write: of the header, then of a descriptor.
SaveMemoryMap ==
  /\ Call("SaveMemoryMap")
  /\ \/ /\ lines <= map_size
        /\ \/ lines' = lines + 1 /\ UNCHANGED pc
           \/ "SaveMemoryMap" \in Failing /\ pc' = "Halt" /\ UNCHANGED lines
     \/ lines > map_size /\ pc' = "CloseMemmap" /\ UNCHANGED lines
  /\ UNCHANGED <<firmwareVars, map_size, image, fill, format>>

\* Main.c:238-242
CloseMemmap == Plain("CloseMemmap", "LocateGOP")

\* A call that allocates memory for owner, or returns an error.
Allocating(at, owner, next) ==
  /\ Call(at)
  /\ \/ AllocatePool(owner) /\ pc' = next
     \/ /\ at \in Failing \/ PoolPages \intersect FreePages = {}
        /\ pc' = "Halt" /\ UNCHANGED <<memory, fresh>>
  /\ UNCHANGED <<boot, map_size, lines, image, fill, format>>

\* A call that frees the memory of owner, or returns an error.
Freeing(at, owner, next) ==
  /\ Call(at)
  /\ \/ FreePool(owner) /\ pc' = next
     \/ at \in Failing /\ pc' = "Halt" /\ UNCHANGED <<memory, fresh>>
  /\ UNCHANGED <<boot, map_size, lines, image, fill, format>>

\* Main.c:131-141.  LocateHandleBuffer allocates the array of handles.
LocateGOP == Allocating("LocateGOP", "gop_handles", "OpenGOP")

\* Main.c:143-152, 249-264.  The handles are freed unless OpenProtocol fails; that the
\* library's FreePool, which returns nothing, does free them is assumed.
OpenGOP == Freeing("OpenGOP", "gop_handles", "FillScreen")

\* Main.c:266-269.  A loop, which calls nothing, from FrameBufferBase on, and before any
\* look at the format: in a PixelBltOnly mode there is no frame buffer there.
FillScreen ==
  /\ pc = "FillScreen" /\ pc' = "OpenKernel"
  /\ fill' = IF format = "BltOnly" THEN "other" ELSE "screen"
  /\ UNCHANGED <<firmwareVars, map_size, lines, image, format, stray>>

\* Main.c:275-290
OpenKernel == Plain("OpenKernel", "AllocatePool")

\* Main.c:296-304
AllocateBuffer == Allocating("AllocatePool", "kernel_buffer", "Read")

\* Main.c:305-309
Read ==
  /\ Call("Read")
  /\ \/ image' = "read" /\ pc' = "AllocatePages"
     \/ "Read" \in Failing /\ pc' = "Halt" /\ UNCHANGED image
  /\ UNCHANGED <<firmwareVars, map_size, lines, fill, format>>

\* Mutant: the status of AllocatePages is not looked at.
PlaceKernelUnchecked ==
  /\ Call("AllocatePages")
  /\ pc' = "CopyLoadSegments"
  /\ IF KernelPages \subseteq FreePages THEN Give(KernelPages, "kernel")
                                        ELSE UNCHANGED <<memory, fresh>>
  /\ UNCHANGED <<boot, map_size, lines, image, fill, format>>

\* Main.c:315-325.  The pages the file names, or nothing.
PlaceKernel ==
  /\ Call("AllocatePages")
  /\ \/ AllocatePages(KernelPages, "kernel") /\ pc' = "CopyLoadSegments"
     \/ /\ ~(KernelPages \subseteq FreePages) \/ "AllocatePages" \in Failing
        /\ pc' = "Halt" /\ UNCHANGED <<memory, fresh>>
  /\ UNCHANGED <<boot, map_size, lines, image, fill, format>>

\* Main.c:327-328.  The segments are copied out of the buffer (a plain memory
\* copy), and the range printed.
CopyLoadSegments ==
  /\ Call("CopyLoadSegments")
  /\ image' = "placed" /\ pc' = "FreePool"
  /\ UNCHANGED <<firmwareVars, map_size, lines, fill, format>>

\* Main.c:330-334
FreeBuffer == Freeing("FreePool", "kernel_buffer", "ExitBootServices")

-----------------------------------------------------------------------------
\* The boot services end if the key is current; otherwise otherwise follows.
Exit(at, otherwise) ==
  /\ Call(at)
  /\ IF fresh THEN boot' = FALSE /\ pc' = "CallKernel"
              ELSE pc' = otherwise /\ UNCHANGED boot
  /\ UNCHANGED <<memory, fresh, map_size, lines, image, fill, format>>

\* Main.c:340-341
ExitBootServices == Exit("ExitBootServices", "GetMemoryMapAgain")

\* Main.c:342-346
GetMemoryMapAgain == Call("GetMemoryMapAgain") /\ ReadMap("ExitBootServicesAgain")

\* Mutants: it tries again for ever; the status of the second try is not looked at.
ExitForever == Exit("ExitBootServicesAgain", "GetMemoryMapAgain")
ExitAnyway  == Exit("ExitBootServicesAgain", "CallKernel")

\* Main.c:347-351
ExitBootServicesAgain == Exit("ExitBootServicesAgain", "Halt")

\* Mutant: the entry point is printed.
CallKernelPrints ==
  /\ Call("CallKernel")
  /\ pc' = IF format \in Supported THEN "Kernel" ELSE "Halt"
  /\ UNCHANGED <<firmwareVars, map_size, lines, image, fill, format>>

\* Main.c:358-378.  A format the kernel does not know is reported with Print.
CallKernel ==
  /\ \/ format \in Supported /\ pc = "CallKernel" /\ pc' = "Kernel" /\ UNCHANGED stray
     \/ format \notin Supported /\ Call("CallKernel") /\ pc' = "Halt"
  /\ UNCHANGED <<firmwareVars, map_size, lines, image, fill, format>>

Step ==
  \/ GetMemoryMap \/ OpenRootDir \/ OpenMemmap \/ SaveMemoryMap \/ CloseMemmap
  \/ LocateGOP \/ OpenGOP \/ FillScreen \/ OpenKernel \/ AllocateBuffer \/ Read
  \/ PlaceKernel \/ CopyLoadSegments \/ FreeBuffer
  \/ ExitBootServices \/ GetMemoryMapAgain \/ ExitBootServicesAgain \/ CallKernel

Next ==
  \/ Step
  \/ FirmwareEvent /\ UNCHANGED <<pc, map_size, lines, image, fill, format, stray>>

\* Fairness: the loader is the only program; the firmware's own work does not
\* keep it from running for ever.
Spec == Init /\ [][Next]_vars /\ WF_vars(Step)

-----------------------------------------------------------------------------
TypeOK ==
  /\ memory \in [Page -> Owner] /\ fresh \in BOOLEAN /\ boot \in BOOLEAN
  /\ pc \in ControlPoint
  /\ map_size \in 0 .. Cardinality(Page)
  /\ lines \in 0 .. MapSlots + 1
  /\ image \in {"none", "read", "placed"} /\ fill \in {"nothing", "screen", "other"}
  /\ format \in Formats /\ stray \in BOOLEAN

Pages(owner) == {p \in Page : memory[p] = owner}

\* The segments are copied from memory the loader holds the file in to memory
\* it was given for them, at the addresses the file asks for: the copy neither
\* overwrites what somebody else keeps there, nor the file it is reading.
CopyIsSafe ==
  pc = "CopyLoadSegments" =>
    /\ image = "read" /\ Pages("kernel_buffer") # {}
    /\ KernelPages = Pages("kernel")

\* The kernel is entered after the boot services have been left, with its
\* segments in place, in pages that are its own, none of the loader's own
\* buffers leaked, and a frame buffer it can write to, which the loader has filled.
Handover ==
  pc = "Kernel" =>
    /\ ~boot
    /\ image = "placed" /\ KernelPages = Pages("kernel")
    /\ Pages("gop_handles") = {} /\ Pages("kernel_buffer") = {}
    /\ format \in {"RGB", "BGR"} /\ fill = "screen"

\* Once the boot services are left, none is called on a machine whose pixel
\* format the kernel knows.  (On the others it is: Print, Main.c:372.)
StrayOnlyForFormat == stray => format \notin Supported

\* Whatever fails and whatever the firmware does, the loader gets to the kernel
\* or to Halt: it does not try for ever to leave the boot services.
LoaderEnds == <>(pc \in {"Kernel", "Halt"})
=============================================================================
