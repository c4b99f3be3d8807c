------------------------------- MODULE Stage2 -------------------------------
(***************************************************************************)
(* The second boot stage: entry.asm (the A20 gate and protected mode),      *)
(* x86.asm (a BIOS call from protected mode), disk.c, fat.c and main.c: it  *)
(* opens /kernel.bin on the floppy, reads it in pieces of 64 KiB into low   *)
(* memory, copies each to 1 MiB and jumps there.                            *)
(***************************************************************************)
EXTENDS Fat12

CONSTANTS StrayIds,   \* what the uninitialised disk->id may hold
          Scancodes   \* what a key pressed while A20 is switched may send

ASSUME ScancodesAssumption == Scancodes \subseteq 0..255

VARIABLES kbc,      \* the keyboard controller: its two buffers and its output port
          step,     \* the step of EnableA20
          al,       \* the byte EnableA20 keeps
          cpu,      \* "real", or the kind of code segment in protected mode
          iflag,    \* the interrupt flag
          bios,     \* the BIOS function called and its answer in EAX
          disk,     \* DISK: drive number and geometry
          ok,       \* what DISK_ReadSectors returned
          root,     \* RootDirectory: position and current sector
          hit,      \* the entry FAT_ReadEntry copied last
          fd,       \* the open file
          from,     \* its position when FAT_Read was called
          left,     \* byteCount in FAT_Read
          got,      \* the load buffer: pieces [lba, size]
          kernel    \* memory from 1 MiB on, as pieces

stage2Vars == <<kbc, step, al, cpu, iflag, bios, disk, ok, root, hit, fd, from, left, got, kernel>>
entryVars == <<kbc, step, al>>
fileVars == <<root, hit, fd, from, left, got, kernel>>

MEMORY_FAT_ADDR == 131072               \* 0x20000
MEMORY_FAT_SIZE == 65536
MEMORY_LOAD_SIZE == 65536
FileDataSize == 544                     \* sizeof(FAT_FileData)
MAX_FILE_HANDLES == 10
FatDataSize == 512 + FileDataSize * (MAX_FILE_HANDLES + 1)
BootSectorAt == MEMORY_FAT_ADDR
RootBuffer == MEMORY_FAT_ADDR + 512
FileBuffer == RootBuffer + FileDataSize \* handle 0, the first free one
FatAt == MEMORY_FAT_ADDR + FatDataSize
\* Mutant: two tries.
TwoAttempts == 2
Attempts == 3
NoBytes == [lba |-> -1, size |-> 0]

Init2 ==
    /\ kbc \in [in : {"none"}, byte : {0}, full : {FALSE}, out : {0}, port : {1, 3},
                write : {FALSE}, keys : {TRUE}]
    /\ step = 1 /\ al = 0 /\ cpu = "real" /\ iflag = TRUE
    /\ bios = [fn |-> "none", back |-> "none", eax |-> 1]
    /\ disk = [id |-> -1, sectors |-> 0, heads |-> 0]
    /\ ok = TRUE
    /\ root = [pos |-> 0, cluster |-> 0] /\ hit = NoFile
    /\ fd = [opened |-> FALSE, pos |-> 0, size |-> 0, cluster |-> 0]
    /\ from = 0 /\ left = 0 /\ got = <<>> /\ kernel = <<>>

-----------------------------------------------------------------------------
(* entry.asm: the A20 gate, through the keyboard controller.                *)

\* entry: interrupts off, a stack.
Entry ==
    /\ pc = "entry" /\ pc' = "a20"
    /\ iflag' = FALSE
    /\ UNCHANGED <<image, faults, mem, ret, req, tries, bad, entryVars, cpu, bios, disk, ok, fileVars>>

\* What EnableA20 does, step by step: a wait, then a byte out or in.
EnableA20 ==
    << [wait |-> "input", does |-> "disable"], [wait |-> "input", does |-> "readport"],
       [wait |-> "output", does |-> "in"], [wait |-> "input", does |-> "writeport"],
       [wait |-> "input", does |-> "data"], [wait |-> "input", does |-> "enable"],
       [wait |-> "input", does |-> "return"] >>

OrA20(byte) == IF (byte \div 2) % 2 = 1 THEN byte ELSE byte + 2
A20On == (kbc.port \div 2) % 2 = 1

\* A20WaitInput and A20WaitOutput: the loop goes on when the status allows.
Waited(what) == IF what = "input" THEN kbc.in = "none" ELSE kbc.full

StepA20 ==
    LET s == EnableA20[step]
    IN /\ pc = "a20" /\ Waited(s.wait)
       /\ step' = step + 1
       /\ \/ s.does = "in" /\ al' = kbc.out /\ kbc' = [kbc EXCEPT !.full = FALSE]
          \/ s.does = "return" /\ UNCHANGED <<al, kbc>>
          \/ /\ s.does \notin {"in", "return"}
             /\ kbc' = [kbc EXCEPT !.in = s.does, !.byte = OrA20(al)]
             /\ UNCHANGED al
       /\ pc' = IF s.does = "return" THEN "pmode" ELSE pc
       /\ UNCHANGED <<image, faults, mem, ret, req, tries, bad, cpu, iflag, bios, disk, ok, fileVars>>

\* The controller takes what it was sent; a byte of its output port needs room.
\* The reset line of the processor is bit 0 of the port it is told to write.
Controller ==
    /\ kbc.in # "none" /\ pc = "a20"
    /\ kbc.in = "readport" => ~kbc.full
    /\ kbc' = [kbc EXCEPT !.in = "none",
                  !.full = IF kbc.in = "readport" THEN TRUE ELSE @,
                  !.out = IF kbc.in = "readport" THEN kbc.port ELSE @,
                  !.write = kbc.in = "writeport",
                  !.port = IF kbc.in = "data" /\ kbc.write THEN kbc.byte ELSE @,
                  !.keys = IF kbc.in = "disable" THEN FALSE ELSE IF kbc.in = "enable" THEN TRUE ELSE @]
    /\ pc' = IF kbc'.port % 2 = 0 THEN "reset" ELSE pc
    /\ UNCHANGED <<image, faults, mem, ret, req, tries, bad, step, al, cpu, iflag, bios, disk, ok, fileVars>>

\* A key, before the keyboard is switched off; only one matters.
KeyPressed ==
    /\ pc = "a20" /\ step < 3 /\ kbc.keys /\ ~kbc.full
    /\ \E s \in Scancodes : kbc' = [kbc EXCEPT !.full = TRUE, !.out = s]
    /\ UNCHANGED <<image, faults, mem, pc, ret, req, tries, bad, step, al, cpu, iflag, bios, disk, ok, fileVars>>

\* The descriptors: 32-bit and 16-bit, code and data, over all of memory.
Gdt == 8 :> "code32" @@ 16 :> "data32" @@ 24 :> "code16" @@ 32 :> "data16"

\* .pmode: 32-bit segments, a cleared bss, and the C code, which asks for the
\* geometry of the drive in disk->id before anything is stored there.
Start ==
    /\ pc = "pmode"
    /\ cpu' = Gdt[8]
    /\ \E id \in StrayIds : disk' = [disk EXCEPT !.id = id]
    /\ bios' = [fn |-> "params", back |-> "params", eax |-> 0]
    /\ pc' = "leave"
    /\ UNCHANGED <<image, faults, mem, ret, req, tries, bad, entryVars, iflag, ok, fileVars>>

-----------------------------------------------------------------------------
(* x86.asm: a BIOS call from protected mode.                                *)

\* x86_EnterRealMode: to a 16-bit segment, out of protected mode, interrupts.
Enter16Bit ==
    /\ pc = "leave" /\ pc' = "rmode"
    /\ cpu' = Gdt[24]
    /\ UNCHANGED <<image, faults, mem, ret, req, tries, bad, entryVars, iflag, bios, disk, ok, fileVars>>

LeaveProtected ==
    /\ pc = "rmode" /\ pc' = "sti"
    /\ cpu' = "real"
    /\ UNCHANGED <<image, faults, mem, ret, req, tries, bad, entryVars, iflag, bios, disk, ok, fileVars>>

Sti ==
    /\ pc = "sti" /\ pc' = "int13"
    /\ iflag' = TRUE
    /\ UNCHANGED <<image, faults, mem, ret, req, tries, bad, entryVars, cpu, bios, disk, ok, fileVars>>

\* DISK_LBA2CHS, and how x86_Disk_Read packs it into CH, CL and DH.
Lba2Chs(lba) ==
    LET track == lba \div disk.sectors
        cylinder == track \div disk.heads
    IN [ch |-> cylinder % 256,
        cl |-> 64 * ((cylinder \div 256) % 4) + (((lba % disk.sectors) + 1) % 64),
        dh |-> (track % disk.heads) % 256]

\* LinearToSegOffset: the BIOS stores at segment * 16 + offset.
SegOffset(addr) == [seg |-> (addr \div 16) % 65536, off |-> addr % 16]
RealAddress(s) == s.seg * 16 + s.off

Int13Read ==
    LET c == Lba2Chs(req.lba)
    IN /\ bios.fn = "read"
       /\ \/ /\ BiosReads(disk.id, c.ch, c.cl, c.dh, req.count, RealAddress(SegOffset(req.at)))
             /\ bios' = [bios EXCEPT !.eax = 1]
          \/ /\ BiosFails \/ BiosRefuses(disk.id, c.ch, c.cl, c.dh)
             /\ bios' = [bios EXCEPT !.eax = 0]
       /\ UNCHANGED disk

Int13Reset ==
    /\ bios.fn = "reset"
    /\ \/ UNCHANGED <<faults, mem>> /\ bios' = [bios EXCEPT !.eax = 1]
       \/ BiosFails /\ bios' = [bios EXCEPT !.eax = 0]
    /\ UNCHANGED disk

\* x86_Disk_GetDriveParams of whatever the uninitialised id is: CH, CL and DH
\* hold the greatest cylinder, sector and head.
Int13Params ==
    /\ bios.fn = "params"
    /\ \/ /\ disk.id \in DOMAIN Geometry
          /\ LET g == Geometry[disk.id]
                 cl == g.sectors + 64 * ((g.cylinders - 1) \div 256)
             IN disk' = [disk EXCEPT !.sectors = cl % 64, !.heads = (g.heads - 1) + 1]
          /\ bios' = [bios EXCEPT !.eax = 1]
          /\ UNCHANGED <<faults, mem>>
       \/ /\ BiosFails \/ (disk.id \notin DOMAIN Geometry /\ UNCHANGED <<faults, mem>>)
          /\ bios' = [bios EXCEPT !.eax = 0]
          /\ UNCHANGED disk

Int13 ==
    /\ pc = "int13" /\ pc' = "cli"
    /\ Int13Read \/ Int13Reset \/ Int13Params
    /\ UNCHANGED <<image, ret, req, tries, bad, entryVars, cpu, iflag, ok, fileVars>>

\* Mutant: protected mode with the interrupts still on.
CliForgotten ==
    /\ pc = "cli" /\ pc' = "protect"
    /\ UNCHANGED <<iflag, image, faults, mem, ret, req, tries, bad, entryVars, cpu, bios, disk, ok, fileVars>>

\* x86_EnterProtectedMode.
Cli ==
    /\ pc = "cli" /\ pc' = "protect"
    /\ iflag' = FALSE
    /\ UNCHANGED <<image, faults, mem, ret, req, tries, bad, entryVars, cpu, bios, disk, ok, fileVars>>

EnterProtected ==
    /\ pc = "protect" /\ pc' = bios.back
    /\ cpu' = Gdt[8]
    /\ UNCHANGED <<image, faults, mem, ret, req, tries, bad, entryVars, iflag, bios, disk, ok, fileVars>>
=============================================================================
