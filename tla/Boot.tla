-------------------------------- MODULE Boot --------------------------------
(***************************************************************************)
(* From power on to the desktop: the loader, and the kernel it calls.      *)
(* They meet in the frame buffer, which the loader fills and the kernel    *)
(* draws on, in its description, which the loader fills in on its stack    *)
(* from the mode of the screen and the kernel reads, and in the numbers    *)
(* kernel/frame_buffer_config.h gives to the pixel formats.                *)
(* Configs holds the descriptions of the screens, in both formats.         *)
(***************************************************************************)
EXTENDS Desktop, FiniteSets

CONSTANTS
  Page, PoolPages, Restless, MapSlots, KernelPages, Failing, Memories, Formats, \* of Loader
  Marks     \* the bytes that some text of the firmware's console changes on the screen

VARIABLES
  memory, fresh, boot, pc, map_size, lines, image, fill, format, stray, \* of Loader
  mode              \* gop->Mode->Info, as a config with the format the initializer gives it

loaderVars == <<memory, fresh, boot, pc, map_size, lines, image, fill, format, stray>>
bootVars   == <<loaderVars, mode, vars>>

\* The least value of enum PixelFormat, 0.
FirstFormat == "RGB"

\* The config the loader's initializer makes of a mode; its format is one of the kernel's.
Config(m, f) == [m EXCEPT !.pixel_format = f]

Ldr == INSTANCE Loader

\* What Firmware and Loader assume of their constants.
ASSUME BootMemory ==
  /\ Page \subseteq Nat /\ IsFiniteSet(Page) /\ PoolPages \subseteq Page
  /\ KernelPages \subseteq Page /\ Restless \in BOOLEAN /\ MapSlots \in Nat
  /\ Memories \subseteq [Page -> {"free", "firmware"}]

\* The format of the pixels does not change the size of a screen.
ASSUME BootConfigs == \A f \in Configs, g \in Ldr!Supported : Config(f, g) \in Configs

\* Each mark gives some offsets their bytes.
ASSUME BootMarks == \A m \in Marks : \A a \in DOMAIN m : m[a] \in 0 .. 255

\* A dark screen.  The kernel's memory is as it will be when it is entered.
BootInit ==
  /\ Ldr!Init
  /\ mode \in {Config(f, FirstFormat) : f \in Configs}
  /\ config = mode
  /\ bytes = [a \in FrameBuffer(mode) |-> 0]
  /\ pixel_writer = "null" /\ main = "ChooseWriter" /\ row = 0

\* Mutant: the initializer's 0 stays in config.pixel_format.
PixelFormatZero(f) == FirstFormat

\* Main.c:365-374.  What a format of the firmware becomes; it does not matter for
\* those that make the loader halt.
PixelFormat(f) == IF f \in Ldr!Supported THEN f ELSE FirstFormat

\* Main.c:358-378
CallKernel ==
  /\ Ldr!CallKernel
  /\ config' = Config(mode, PixelFormat(format))
  /\ UNCHANGED <<mode, pixel_writer, bytes, main, row>>

\* Main.c:266-269.  Without a frame buffer the loop does not reach the screen.
Fill ==
  bytes' = IF format = "BltOnly" THEN bytes ELSE [a \in DOMAIN bytes |-> 255]

\* The firmware's console, which Print writes to, changes the screen when it likes, as
\* long as there are boot services.
FirmwarePrints ==
  \/ UNCHANGED bytes
  \/ boot /\ \E m \in Marks :
       bytes' = [a \in DOMAIN bytes |-> IF a \in DOMAIN m THEN m[a] ELSE bytes[a]]

\* A step of the loader, or of the firmware, and what it does to the screen.
LoaderStep(A) ==
  /\ pc # "CallKernel" /\ A
  /\ IF pc = "FillScreen" /\ pc' # pc THEN Fill ELSE FirmwarePrints
  /\ UNCHANGED <<mode, config, pixel_writer, main, row>>

\* The loader runs before the kernel.
Loading == LoaderStep(Ldr!Next)

\* KernelMain does not return.
KernelMain == pc = "Kernel" /\ Next /\ UNCHANGED <<loaderVars, mode>>

BootNext == Loading \/ CallKernel \/ KernelMain

\* Fairness: the loader and then the kernel is the only program of the machine.
BootSpec == BootInit /\ [][BootNext]_bootVars
                     /\ WF_bootVars(LoaderStep(Ldr!Step))
                     /\ WF_bootVars(CallKernel) /\ WF_bootVars(KernelMain)

-----------------------------------------------------------------------------
\* The switch of KernelMain has no default (main.cc:78), and needs none: when
\* KernelMain comes to draw, its config describes this screen, it has the writer of the
\* format the screen is in, its image is in place, and the boot services are left.
KernelHasWriter ==
  main # "ChooseWriter" =>
    /\ config = Config(mode, format) /\ pixel_writer = format
    /\ image = "placed" /\ ~boot

\* When no call fails, the firmware leaves the memory map alone, the map fits the
\* buffer and there is memory, the machine comes to show the whole desktop and its
\* text: the second map key is good although the first one never is, and the second map
\* is read whole although it is longer than the first.  With a pixel format the kernel
\* does not know it halts in the loader, and the kernel draws nothing.  (When something
\* is drawn outside of the frame buffer, what comes of it is not followed.)
BootEnds ==
  <>[](IF format \in Ldr!Supported THEN InBuffer(config) => main = "Lines" /\ row = Len(Text)
                                   ELSE pc = "Halt" /\ main = "ChooseWriter")
=============================================================================
