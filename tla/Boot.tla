-------------------------------- MODULE Boot --------------------------------
(***************************************************************************)
(* The two boot stages together, from the BIOS's jump to 0x7C00 to the jump *)
(* to the kernel at 1 MiB, or to whatever else they end in.                 *)
(***************************************************************************)
EXTENDS Stage1, Loader

\* The two programs are in the root directory once, if they are: the second
\* stage fits between 0x500 and the stack of the first, and the kernel has the
\* clusters its size needs.
ASSUME ProgramsAssumption ==
    \A im \in Images : \A f \in im.files :
        /\ f.name \in {file_stage2_bin, Wanted} => \A g \in im.files : g.name = f.name => g = f
        /\ f.name = file_stage2_bin =>
              Len(f.clusters) \in 1..((StackTop - S2LoadOffset - 1) \div Bpb.bytesPerSector)
        /\ f.name = Wanted =>
              /\ f.size \in Nat
              /\ Len(f.clusters) = (f.size + Bpb.bytesPerSector - 1) \div Bpb.bytesPerSector

vars == <<bootVars, stage1Vars, stage2Vars>>

\* Where the processor stays: the kernel, a reboot, the endless loop of main,
\* a null pointer followed, a processor reset by the keyboard controller.
Ends == {"kernel", "reboot", "halt", "wild", "reset"}

Init == DiskInit /\ Init1 /\ Init2
Stopped == pc \in Ends /\ UNCHANGED vars
Next ==
    \/ Next1 /\ UNCHANGED stage2Vars
    \/ Next2 /\ UNCHANGED stage1Vars
    \/ Stopped

\* The processor runs, and the keyboard controller takes what it is sent.
Spec == Init /\ [][Next]_vars
             /\ WF_vars(Next1 /\ UNCHANGED stage2Vars)
             /\ WF_vars(Next2 /\ UNCHANGED stage1Vars)

-----------------------------------------------------------------------------
Kernel == FileNamed(Wanted)
FaultsSeen == MaxFaults - faults

\* The geometry the second stage works with is that of another drive.
WrongGeometry ==
    \/ disk.sectors # Geometry[BootDrive].sectors
    \/ disk.heads # Geometry[BootDrive].heads

\* When the first stage jumps to the second, memory from 0x500 on holds the
\* sectors of STAGE2.BIN in order, below the stack: the 12-bit decoding, the
\* conversion of addresses and every retry were right.
Stage2Whole ==
    pc = "entry" =>
        LET chain == FileNamed(file_stage2_bin).clusters
        IN /\ \A i \in DOMAIN chain : mem[S2LoadOffset + 512 * (i - 1)] = SectorOf(chain[i])
           /\ bx = S2LoadOffset + 512 * Len(chain)
           /\ bx < StackTop

\* A kernel of less than 64 KiB that is started is the file, unless the second
\* stage worked with the geometry of another drive: every piece is at its place
\* and of its length, and is the right sector unless the reading of that very
\* sector was given up (FAT_Read then hands out the sector before).
KernelWhole ==
    (pc = "kernel" /\ ~WrongGeometry /\ Kernel.size < MEMORY_LOAD_SIZE) =>
        /\ Len(kernel) = (Kernel.size + 511) \div 512
        /\ \A i \in DOMAIN kernel :
              /\ kernel[i].size = Lesser(512, Kernel.size - 512 * (i - 1))
              /\ \/ kernel[i].lba = SectorOf(Kernel.clusters[i])
                 \/ SectorOf(Kernel.clusters[i]) \in bad

\* The boot fails only for a cause: a drive that failed three times, a reset
\* or a question about its geometry that failed, the geometry of another
\* drive, a file that is not there, or a key pressed in EnableA20.
FailsForACause ==
    /\ pc = "reboot" => \/ bad # {} \/ resetBad
                        \/ ret = "none" /\ FaultsSeen = 1
                        \/ FileNamed(file_stage2_bin) = NoFile
    /\ pc = "halt" => bad # {} \/ WrongGeometry
    /\ pc = "wild" => bad # {} \/ WrongGeometry \/ Kernel = NoFile
    /\ pc = "reset" => kbc.byte - 2 \in Scancodes \/ kbc.byte \in Scancodes

\* A sector is given up after three failures of its own, never because of those
\* of an earlier one, in both stages; with the geometry of another drive the
\* second asks for sectors that are not there.
GivenUpAfterThree ==
    (pc = "reboot" \/ ~WrongGeometry) => FaultsSeen >= 3 * Cardinality(bad)

\* There is no interrupt table in protected mode: interrupts are on only in
\* real mode; and memory above 1 MiB is written only with the A20 gate open.
SafeProtectedMode ==
    /\ iflag => cpu = "real"
    /\ pc \in {"returned", "kernel"} => A20On

\* The boot comes to an end: no wait, retry or chain goes on for ever.
BootEnds == <>(pc \in Ends)
=============================================================================
