------------------------------- MODULE Loader -------------------------------
(***************************************************************************)
(* The C half of the second stage: disk.c, fat.c and main.c.  DISK calls    *)
(* the BIOS through Stage2; FAT keeps the boot sector, the FAT, the root    *)
(* directory's current sector and one buffer per open file; main reads the  *)
(* kernel until FAT_Read returns 0 and never asks whether anything failed.  *)
(***************************************************************************)
EXTENDS Stage2, SequencesExt

CallBios(fn, back) ==
    /\ bios' = [fn |-> fn, back |-> back, eax |-> 0]
    /\ pc' = "leave"

diskUnchanged == UNCHANGED <<image, faults, mem, entryVars, cpu, iflag>>

-----------------------------------------------------------------------------
(* disk.c *)

\* DISK_Initialize: the geometry came from disk->id, which is set only now.
DiskInitialized ==
    /\ pc = "params"
    /\ \/ /\ bios.eax = 1
          /\ disk' = [disk EXCEPT !.id = BootDrive]
          /\ Request(0, 1, BootSectorAt, "bootsector")
          /\ pc' = "disk"
       \/ bios.eax = 0 /\ pc' = "halt" /\ UNCHANGED <<disk, req, ret, tries>>
    /\ diskUnchanged /\ UNCHANGED <<bad, bios, ok, fileVars>>

\* DISK_ReadSectors: a try.
DiskTry ==
    /\ pc = "disk"
    /\ CallBios("read", "readdone")
    /\ diskUnchanged /\ UNCHANGED <<ret, req, tries, bad, disk, ok, fileVars>>

\* A try that worked returns; after one that failed the drive is reset.
DiskTried ==
    /\ pc = "readdone"
    /\ \/ bios.eax = 1 /\ ok' = TRUE /\ pc' = ret /\ UNCHANGED bios
       \/ bios.eax = 0 /\ CallBios("reset", "resetdone") /\ UNCHANGED ok
    /\ diskUnchanged /\ UNCHANGED <<ret, req, tries, bad, disk, fileVars>>

\* Mutant: the tries are not counted.
DiskResetUncounted ==
    /\ pc = "resetdone" /\ pc' = "disk"
    /\ diskUnchanged /\ UNCHANGED <<tries, ok, bad, ret, req, bios, disk, fileVars>>

\* Whatever the reset answered, the next try or, after the third, false.
DiskReset ==
    /\ pc = "resetdone"
    /\ tries' = tries + 1
    /\ \/ tries' < Attempts /\ pc' = "disk" /\ UNCHANGED <<ok, bad>>
       \/ /\ tries' >= Attempts
          /\ ok' = FALSE /\ bad' = bad \union {req.lba} /\ pc' = ret
    /\ diskUnchanged /\ UNCHANGED <<ret, req, bios, disk, fileVars>>

ReadSectors(lba, count, at, back) == Request(lba, count, at, back) /\ pc' = "disk"

-----------------------------------------------------------------------------
(* fat.c: FAT_Initialize *)

rootDirLba == Bpb.reservedSectors + Bpb.sectorsPerFat * Bpb.fatCount
rootDirSize == EntrySize * Bpb.dirEntryCount
dataSectionLba ==
    rootDirLba + (rootDirSize + Bpb.bytesPerSector - 1) \div Bpb.bytesPerSector
FatFits == FatDataSize + Bpb.bytesPerSector * Bpb.sectorsPerFat < MEMORY_FAT_SIZE

\* The boot sector is there: the FAT, if it fits.
BootSectorRead ==
    /\ pc = "bootsector"
    /\ IF ok /\ FatFits
       THEN ReadSectors(Bpb.reservedSectors, Bpb.sectorsPerFat, FatAt, "fatread")
       ELSE pc' = "halt" /\ UNCHANGED <<req, ret, tries>>
    /\ diskUnchanged /\ UNCHANGED <<bad, bios, disk, ok, fileVars>>

\* The FAT is there: the root directory becomes an open file.
FatRead ==
    /\ pc = "fatread"
    /\ \/ /\ ok
          /\ root' = [pos |-> 0, cluster |-> rootDirLba]
          /\ ReadSectors(rootDirLba, 1, RootBuffer, "rootread")
       \/ ~ok /\ pc' = "halt" /\ UNCHANGED <<root, req, ret, tries>>
    /\ diskUnchanged /\ UNCHANGED <<bad, bios, disk, ok, hit, fd, from, left, got, kernel>>

RootRead ==
    /\ pc = "rootread"
    /\ pc' = IF ok THEN "find" ELSE "halt"
    /\ diskUnchanged /\ UNCHANGED <<ret, req, tries, bad, bios, disk, ok, fileVars>>

-----------------------------------------------------------------------------
(* fat.c: FAT_Open("/kernel.bin") *)

Path == <<"/", "k", "e", "r", "n", "e", "l", ".", "b", "i", "n">>
Letters == <<"a", "b", "c", "d", "e", "f", "g", "h", "i", "j", "k", "l", "m",
             "n", "o", "p", "q", "r", "s", "t", "u", "v", "w", "x", "y", "z">>
Capitals == <<"A", "B", "C", "D", "E", "F", "G", "H", "I", "J", "K", "L", "M",
              "N", "O", "P", "Q", "R", "S", "T", "U", "V", "W", "X", "Y", "Z">>
toupper(c) == IF c \in ToSet(Letters) THEN Capitals[CHOOSE i \in 1..26 : Letters[i] = c] ELSE c

\* The last component of a path, with the byte before its NUL, which nothing
\* has written.
Component(path) ==
    SubSeq(path, IF path[1] = "/" THEN 2 ELSE 1, Len(path)) \o <<"unwritten">>

\* 8 characters before the first dot and 3 after it, in capitals, with spaces.
FatName(name) ==
    LET dot == CHOOSE i \in DOMAIN name : name[i] = "." /\ \A j \in 1..(i - 1) : name[j] # "."
    IN [i \in 1..11 |->
          IF i <= 8 THEN IF i < dot THEN toupper(name[i]) ELSE " "
          ELSE IF dot + i - 8 <= Len(name) THEN toupper(name[dot + i - 8]) ELSE " "]

Wanted == FatName(Component(Path))

\* FAT_OpenEntry: the first free handle, and the first sector of the file.
ClusterToLba(cluster) == dataSectionLba + (cluster - 2) * Bpb.sectorsPerCluster
FirstCluster(entry) == IF entry.clusters = <<>> THEN 0 ELSE entry.clusters[1]
OpenEntry(entry) ==
    /\ fd' = [opened |-> FALSE, pos |-> 0, size |-> entry.size, cluster |-> FirstCluster(entry)]
    /\ root' = [pos |-> 0, cluster |-> rootDirLba]
    /\ ReadSectors(ClusterToLba(FirstCluster(entry)), 1, FileBuffer, "opened")

\* FAT_FindFile, a sector at a time.  FAT_ReadEntry reads the next sector as
\* soon as it has copied the last entry of this one, before that is compared.
FindFile ==
    LET hits == {i \in 0..(EntriesPerSector - 2) : EntryAt(RootBuffer, i).name = Wanted}
    IN /\ pc = "find"
       /\ \/ /\ root.pos < rootDirSize /\ hits # {}
             /\ hit' = EntryAt(RootBuffer, CHOOSE i \in hits : \A j \in hits : i <= j)
             /\ OpenEntry(hit')
          \/ /\ root.pos < rootDirSize /\ hits = {}
             /\ hit' = EntryAt(RootBuffer, EntriesPerSector - 1)
             /\ root' = [pos |-> root.pos + Bpb.bytesPerSector, cluster |-> root.cluster + 1]
             /\ ReadSectors(root.cluster + 1, 1, RootBuffer, "compare")
             /\ UNCHANGED fd
          \/ /\ root.pos >= rootDirSize        \* not found: NULL, which main reads from
             /\ pc' = "wild"
             /\ root' = [pos |-> 0, cluster |-> rootDirLba]
             /\ UNCHANGED <<req, ret, tries, hit, fd>>
       /\ diskUnchanged /\ UNCHANGED <<bad, bios, disk, ok, from, left, got, kernel>>

\* Mutant: the entry is not compared.
LastSkipped ==
    /\ pc = "compare" /\ pc' = "find"
    /\ diskUnchanged
    /\ UNCHANGED <<root, fd, req, ret, tries, bad, bios, disk, ok, hit, from, left, got, kernel>>

\* The last entry of a sector; a read error of the next one is not passed on.
CompareLast ==
    /\ pc = "compare"
    /\ IF hit.name = Wanted THEN OpenEntry(hit)
       ELSE pc' = "find" /\ UNCHANGED <<root, fd, req, ret, tries>>
    /\ diskUnchanged /\ UNCHANGED <<bad, bios, disk, ok, hit, from, left, got, kernel>>

Opened ==
    /\ pc = "opened"
    /\ \/ ok /\ fd' = [fd EXCEPT !.opened = TRUE] /\ pc' = "readfile"
       \/ ~ok /\ pc' = "wild" /\ UNCHANGED fd
    /\ diskUnchanged
    /\ UNCHANGED <<ret, req, tries, bad, bios, disk, ok, root, hit, from, left, got, kernel>>

-----------------------------------------------------------------------------
(* fat.c: FAT_Read, and the loop of main *)

\* Mutant: the halves of the odd and the even entries are mixed up.
NextClusterSwapped(c) ==
    LET word == FatWord(FatAt, (c * 3) \div 2)
    IN IF c % 2 # 0 THEN word % 4096 ELSE word \div 16

\* FAT_NextCluster: the 12 bits of entry c.
NextCluster(c) ==
    LET word == FatWord(FatAt, (c * 3) \div 2)
    IN IF c % 2 = 0 THEN word % 4096 ELSE word \div 16

Lesser(a, b) == IF a < b THEN a ELSE b

\* main calls FAT_Read: never past the end of the file.
ReadBegins ==
    /\ pc = "readfile"
    /\ from' = fd.pos /\ got' = <<>>
    /\ left' = Lesser(MEMORY_LOAD_SIZE, fd.size - fd.pos)
    /\ pc' = "copy"
    /\ diskUnchanged /\ UNCHANGED <<ret, req, tries, bad, bios, disk, ok, root, hit, fd, kernel>>

\* One turn of the loop: what the buffer has, then the sector after it.
ReadTurn ==
    LET inBuffer == Bpb.bytesPerSector - (fd.pos % Bpb.bytesPerSector)
        take == Lesser(left, inBuffer)
        next == NextCluster(fd.cluster)
        moved == [fd EXCEPT !.pos = @ + take]
    IN /\ pc = "copy" /\ left > 0
       /\ got' = Append(got, [lba |-> mem[FileBuffer], size |-> take])
       /\ left' = left - take
       /\ \/ take < inBuffer /\ fd' = moved /\ UNCHANGED <<pc, req, ret, tries>>
          \/ /\ take = inBuffer /\ next >= EndOfChain
             /\ fd' = [moved EXCEPT !.size = moved.pos, !.cluster = next]
             /\ pc' = "returned" /\ UNCHANGED <<req, ret, tries>>
          \/ /\ take = inBuffer /\ next < EndOfChain
             /\ fd' = [moved EXCEPT !.cluster = next]
             /\ ReadSectors(ClusterToLba(next), 1, FileBuffer, "nextsector")
       /\ diskUnchanged /\ UNCHANGED <<bad, bios, disk, ok, root, hit, from, kernel>>

\* A sector that cannot be read ends the call; the buffer keeps the old one.
NextSector ==
    /\ pc = "nextsector"
    /\ pc' = IF ok THEN "copy" ELSE "returned"
    /\ diskUnchanged /\ UNCHANGED <<ret, req, tries, bad, bios, disk, ok, fileVars>>

ReadReturns ==
    /\ pc = "copy" /\ left = 0
    /\ pc' = "returned"
    /\ diskUnchanged /\ UNCHANGED <<ret, req, tries, bad, bios, disk, ok, fileVars>>

\* memcpy counts its bytes in 16 bits.
Copied(n) == n % 65536

\* main: copies what was read and asks for more, until there is nothing.
CopyKernel ==
    LET read == fd.pos - from
    IN /\ pc = "returned"
       /\ \/ /\ read > 0
             /\ kernel' = kernel \o (IF Copied(read) = read THEN got
                                     ELSE <<[lba |-> -1, size |-> read]>>)
             /\ pc' = "readfile" /\ UNCHANGED fd
          \/ /\ read = 0
             /\ fd' = [fd EXCEPT !.opened = FALSE]
             /\ pc' = "kernel" /\ UNCHANGED kernel
       /\ diskUnchanged
       /\ UNCHANGED <<ret, req, tries, bad, bios, disk, ok, root, hit, from, left, got>>

Next2 ==
    \/ Entry \/ StepA20 \/ Controller \/ KeyPressed \/ Start
    \/ Enter16Bit \/ LeaveProtected \/ Sti \/ Int13 \/ Cli \/ EnterProtected
    \/ DiskInitialized \/ DiskTry \/ DiskTried \/ DiskReset
    \/ BootSectorRead \/ FatRead \/ RootRead
    \/ FindFile \/ CompareLast \/ Opened
    \/ ReadBegins \/ ReadTurn \/ NextSector \/ ReadReturns \/ CopyKernel
=============================================================================
