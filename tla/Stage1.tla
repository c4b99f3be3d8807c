------------------------------- MODULE Stage1 -------------------------------
(***************************************************************************)
(* stage1/boot.asm: the boot sector.  It asks the BIOS for the geometry,    *)
(* reads the root directory, looks for STAGE2.BIN, reads the FAT over the   *)
(* directory and follows the chain of the file, loading it from 0x500 on.   *)
(* Every read is tried three times with a reset of the controller between.  *)
(***************************************************************************)
EXTENDS Fat12

VARIABLES geo,       \* bdb_sectors_per_track and bdb_heads, as the BIOS answered
          cluster,   \* stage2_cluster
          bx,        \* where the next sector of stage 2 goes (ES = 0)
          resetBad   \* history: a reset of the controller failed

stage1Vars == <<geo, cluster, bx, resetBad>>

file_stage2_bin == <<"S", "T", "A", "G", "E", "2", " ", " ", "B", "I", "N">>
S2LoadOffset == 1280           \* 0x500
StackTop == 31744              \* 0x7C00: the stack grows down from here
Buffer == 32256                \* 0x7E00: behind the boot sector
Retries == 3

\* DX:AX / 2 after the multiplication by 3: the byte of the entry.
EntryByte(c) == (c * 3) \div 2

\* .odd and .even: the 12 bits of entry c.
NextInChain(c) ==
    LET ax == FatWord(Buffer, EntryByte(c))
    IN IF (c * 3) % 2 # 0 THEN ax \div 16 ELSE ax % 4096

\* lba_to_chs: CH, CL and DH for a sector.
Chs(lba) ==
    LET track == lba \div geo.sectors
        cyl == track \div geo.heads
    IN [ch |-> cyl % 256,
        cl |-> ((lba % geo.sectors) + 1) + 64 * ((cyl \div 256) % 4),
        dh |-> track % geo.heads]

RootDirLba == Bpb.sectorsPerFat * Bpb.fatCount + Bpb.reservedSectors
RootDirSize ==
    LET bytes == EntrySize * Bpb.dirEntryCount
    IN bytes \div Bpb.bytesPerSector + (IF bytes % Bpb.bytesPerSector # 0 THEN 1 ELSE 0)

Init1 ==
    /\ pc = "start"
    /\ geo = [sectors |-> 18, heads |-> 2]
    /\ cluster = 0 /\ bx = 0 /\ resetBad = FALSE

-----------------------------------------------------------------------------
\* The geometry of the drive, in place of what the disk says; then the root.
ReadParams ==
    /\ pc = "start"
    /\ \/ /\ BootDrive \in DOMAIN Geometry
          /\ geo' = [sectors |-> Geometry[BootDrive].sectors, heads |-> Geometry[BootDrive].heads]
          /\ Request(RootDirLba, RootDirSize, Buffer, "search")
          /\ pc' = "try1"
          /\ UNCHANGED <<faults, mem>>
       \/ BiosFails /\ pc' = "floppy_error" /\ UNCHANGED <<geo, req, ret, tries>>
    /\ UNCHANGED <<image, bad, cluster, bx, resetBad>>

\* .retry: one INT 13h.
TrySector1 ==
    LET c == Chs(req.lba)
    IN /\ pc = "try1"
       /\ \/ BiosReads(BootDrive, c.ch, c.cl, c.dh, req.count, req.at) /\ pc' = ret
          \/ /\ BiosFails \/ BiosRefuses(BootDrive, c.ch, c.cl, c.dh)
             /\ pc' = "reset1"
       /\ UNCHANGED <<image, ret, req, tries, bad, geo, cluster, bx, resetBad>>

\* disk_reset, then the count of the tries left.
Reset1 ==
    /\ pc = "reset1"
    /\ \/ /\ UNCHANGED faults
          /\ tries' = tries + 1
          /\ pc' = IF tries' < Retries THEN "try1" ELSE "floppy_error"
          /\ bad' = IF tries' < Retries THEN bad ELSE bad \union {req.lba}
          /\ UNCHANGED resetBad
       \/ /\ faults > 0 /\ faults' = faults - 1
          /\ pc' = "floppy_error"
          /\ resetBad' = TRUE
          /\ UNCHANGED <<tries, bad>>
    /\ UNCHANGED <<image, mem, ret, req, geo, cluster, bx>>

\* Entry i of the root directory, and the entries that are STAGE2.BIN's.
RootEntry(i) ==
    EntryAt(Buffer + Bpb.bytesPerSector * (i \div EntriesPerSector), i % EntriesPerSector)
Stage2Entries == {i \in 0..(Bpb.dirEntryCount - 1) : RootEntry(i).name = file_stage2_bin}

\* .search_kernel: every entry of the root directory, in order.
Search ==
    /\ pc = "search"
    /\ \/ /\ Stage2Entries = {}
          /\ pc' = "stage2_not_found_error"
          /\ UNCHANGED <<req, ret, tries, cluster, bx>>
       \/ \E i \in Stage2Entries :
          /\ \A j \in Stage2Entries : i <= j
          /\ cluster' = RootEntry(i).clusters[1]
          /\ Request(Bpb.reservedSectors, Bpb.sectorsPerFat, Buffer, "load")
          /\ bx' = S2LoadOffset
          /\ pc' = "try1"
    /\ UNCHANGED <<image, faults, mem, bad, geo, resetBad>>

\* .load_kernel_loop: the sector of the cluster; 31 stands in the code.
LoadCluster ==
    /\ pc = "load"
    /\ Request(cluster + 31, 1, bx, "next")
    /\ pc' = "try1"
    /\ UNCHANGED <<image, faults, mem, bad, geo, cluster, bx, resetBad>>

\* Mutant: the next sector goes to the same place.
NextLinkInPlace ==
    LET ax == NextInChain(cluster)
    IN /\ pc = "next"
       /\ \/ ax >= EndOfChain /\ pc' = "entry" /\ UNCHANGED cluster
          \/ ax < EndOfChain /\ pc' = "load" /\ cluster' = ax
       /\ UNCHANGED <<bx, image, faults, mem, ret, req, tries, bad, geo, resetBad>>

\* The place of the next sector and the next cluster, or the jump to stage 2.
NextLink ==
    LET ax == NextInChain(cluster)
    IN /\ pc = "next"
       /\ bx' = (bx + Bpb.bytesPerSector) % 65536
       /\ \/ ax >= EndOfChain /\ pc' = "entry" /\ UNCHANGED cluster
          \/ ax < EndOfChain /\ pc' = "load" /\ cluster' = ax
       /\ UNCHANGED <<image, faults, mem, ret, req, tries, bad, geo, resetBad>>

\* The error handlers: a message, a key, and the beginning of the BIOS.
WaitKeyAndReboot ==
    /\ pc \in {"floppy_error", "stage2_not_found_error"}
    /\ pc' = "reboot"
    /\ UNCHANGED <<image, faults, mem, ret, req, tries, bad, stage1Vars>>

Next1 ==
    \/ ReadParams \/ TrySector1 \/ Reset1 \/ Search
    \/ LoadCluster \/ NextLink \/ WaitKeyAndReboot
=============================================================================
