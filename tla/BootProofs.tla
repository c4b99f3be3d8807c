----------------------------- MODULE BootProofs -----------------------------
(***************************************************************************)
(* The proofs of the invariants of Boot, for every floppy the build can     *)
(* make, every drive that holds it, every stray drive number, every key and *)
(* every number of failures of the BIOS.  The inductive invariant has four  *)
(* parts: which labels go with which mode and which caller (Control), the   *)
(* A20 gate (A20Protocol), the first stage (FirstStage, FirstFaults) and    *)
(* the second (Drive, SecondStage).                                         *)
(***************************************************************************)
EXTENDS Boot, FiniteSetTheorems, WellFoundedInduction, SequenceTheorems, TLAPS

-----------------------------------------------------------------------------
(* The labels.                                                              *)

Labels1 == {"start", "try1", "reset1", "search", "load", "next", "floppy_error",
            "stage2_not_found_error", "reboot"}
Returns1 == {"search", "load", "next"}
BiosLabels == {"leave", "rmode", "sti", "int13", "cli", "protect"}
Returns2 == {"bootsector", "fatread", "rootread", "compare", "opened", "nextsector"}
Unread == {"params", "bootsector", "fatread", "rootread", "find", "compare", "opened"}
Before == Labels1 \union {"entry", "a20", "pmode", "reset"}
Labels2 == BiosLabels \union Returns2 \union
           {"params", "disk", "readdone", "resetdone", "find", "readfile", "copy", "returned",
            "kernel", "halt", "wild"}

\* DISK_Initialize asks for the geometry; DISK_ReadSectors is under way; the
\* point of the C code the second stage is at, or will return to.
AskingGeometry == pc = "params" \/ (pc \in BiosLabels /\ bios.fn = "params")
Asking == pc \in {"disk", "readdone", "resetdone"} \/ (pc \in BiosLabels /\ bios.fn # "params")
Point == IF Asking THEN ret ELSE pc

\* Where a processor in this state is, and what it will return to.
Control ==
    /\ pc \in Before \union Labels2
    /\ pc \in {"try1", "reset1"} => ret \in Returns1
    /\ Asking => ret \in Returns2
    /\ pc \in BiosLabels =>
          \/ bios.fn = "params" /\ bios.back = "params"
          \/ bios.fn = "read" /\ bios.back = "readdone"
          \/ bios.fn = "reset" /\ bios.back = "resetdone"
    /\ pc = "params" => bios.fn = "params"
    /\ pc = "readdone" => bios.fn = "read"

\* Interrupts and mode at each label.
Modes ==
    /\ iflag \in BOOLEAN
    /\ iflag => pc \in Labels1 \union {"entry", "int13", "cli"}
    /\ pc \in Before \union {"sti", "int13", "cli", "protect"} => cpu = "real"

TypeOK ==
    /\ image \in Images
    /\ faults \in 0..MaxFaults
    /\ IsFiniteSet(bad)
    /\ tries \in Nat

\* The fields of the records, for the steps that change some of them.
Records ==
    /\ bios = [fn |-> bios.fn, back |-> bios.back, eax |-> bios.eax]
    /\ bios.eax \in {0, 1}
    /\ disk = [id |-> disk.id, sectors |-> disk.sectors, heads |-> disk.heads]
    /\ fd = [opened |-> fd.opened, pos |-> fd.pos, size |-> fd.size, cluster |-> fd.cluster]

-----------------------------------------------------------------------------
(* The A20 gate: what has been sent to the controller at each step.         *)

KbcType ==
    /\ kbc \in [in : {"none", "disable", "readport", "writeport", "data", "enable"}, byte : Nat,
                full : BOOLEAN, out : Nat, port : Nat, write : BOOLEAN, keys : BOOLEAN]
    /\ al \in Nat

A20Protocol ==
    /\ pc \in Labels1 \union {"entry"} =>
          step = 1 /\ kbc.in = "none" /\ kbc.port \in {1, 3} /\ kbc.full = FALSE
    /\ pc = "a20" =>
          /\ step \in 1..7
          /\ kbc.port % 2 = 1
          /\ step = 1 => kbc.in = "none"
          /\ step = 2 => kbc.in \in {"disable", "none"}
          /\ step \in {3, 4} => kbc.in \in {"readport", "none"}
          /\ step = 5 => kbc.in = "writeport" \/ (kbc.in = "none" /\ kbc.write = TRUE)
          /\ step = 6 => /\ kbc.byte = OrA20(al)
                         /\ \/ kbc.in = "data" /\ kbc.write = TRUE
                            \/ kbc.in = "none" /\ kbc.port = kbc.byte
          /\ step = 7 => kbc.in \in {"enable", "none"} /\ kbc.port = OrA20(al)
          /\ step <= 5 => kbc.port \in {1, 3}
          /\ step <= 3 /\ kbc.full = TRUE => kbc.out \in Scancodes \union {1, 3}
          /\ step >= 4 => al \in Scancodes \union {1, 3}
    /\ pc \notin Before => A20On
    /\ pc = "pmode" => A20On
    /\ pc = "reset" => kbc.byte \in Scancodes \/ kbc.byte - 2 \in Scancodes

-----------------------------------------------------------------------------
(* The first stage.                                                         *)

Stage2File == FileNamed(file_stage2_bin)
Chain == Stage2File.clusters
Place(k) == S2LoadOffset + 512 * (k - 1)
Found(f, name) == f \in image.files /\ f.name = name
Holds(a, lba) == a \in DOMAIN mem /\ mem[a] = lba
AskedFor(lba, n, at) == req.lba = lba /\ req.count = n /\ req.at = at

\* The clusters before the k-th are where they belong.
Loading(k) ==
    /\ k \in DOMAIN Chain
    /\ cluster = Chain[k] /\ bx = Place(k)
    /\ \A i \in 1..(k - 1) : Holds(Place(i), SectorOf(Chain[i]))

FirstStage ==
    /\ pc \in {"try1", "reset1", "search", "load", "next"} =>
          geo.sectors = Geometry[BootDrive].sectors /\ geo.heads = Geometry[BootDrive].heads
    /\ pc \in {"try1", "reset1"} =>
          /\ ret = "search" => AskedFor(RootStart, 14, Buffer)
          /\ ret = "load" => /\ AskedFor(FatStart, 9, Buffer)
                             /\ Found(Stage2File, file_stage2_bin) /\ Loading(1)
          /\ ret = "next" => /\ AskedFor(SectorOf(cluster), 1, bx)
                             /\ Holds(Buffer, FatStart)
                             /\ Found(Stage2File, file_stage2_bin)
                             /\ \E k \in DOMAIN Chain : Loading(k)
    /\ pc = "search" => \A i \in 0..13 : Holds(Buffer + 512 * i, RootStart + i)
    /\ pc \in {"load", "next"} =>
          /\ Holds(Buffer, FatStart)
          /\ Found(Stage2File, file_stage2_bin)
          /\ \E k \in DOMAIN Chain : Loading(k)
    /\ pc = "next" => Holds(bx, SectorOf(cluster))
    /\ Stage2Whole

\* Each request is tried three times, and a sector given up ends the boot.
FirstFaults ==
    /\ pc = "start" => faults = MaxFaults /\ ret = "none"
    /\ pc \in Before \ {"floppy_error", "reboot"} => bad = {}
    /\ pc = "try1" => tries \in 0..2 /\ FaultsSeen >= tries
    /\ pc = "reset1" => tries \in 0..2 /\ FaultsSeen >= tries + 1
    /\ pc \in {"floppy_error", "reboot"} => FaultsSeen >= 3 * Cardinality(bad)
    /\ pc = "floppy_error" => bad # {} \/ resetBad \/ (ret = "none" /\ FaultsSeen = 1)
    /\ pc = "stage2_not_found_error" => Stage2File = NoFile
    /\ pc = "reboot" => \/ bad # {} \/ resetBad \/ (ret = "none" /\ FaultsSeen = 1)
                        \/ Stage2File = NoFile

-----------------------------------------------------------------------------
(* The second stage.                                                        *)

\* A read or a reset that is not over, after a failure not yet counted.
Failed ==
    \/ pc = "resetdone"
    \/ pc \in BiosLabels /\ bios.fn = "reset"
    \/ pc \in {"cli", "protect", "readdone"} /\ bios.fn = "read" /\ bios.eax = 0

\* The geometry: none before the BIOS answered, and then kept.
Drive ==
    /\ pc \in {"leave", "rmode", "sti", "int13"} => bios.eax = 0
    /\ pc \in Before => disk.sectors = 0 /\ ok = TRUE
    /\ AskingGeometry /\ bios.eax = 0 => disk.sectors = 0
    /\ AskingGeometry => bad = {}
    /\ pc \notin Before /\ ~AskingGeometry => disk.id = BootDrive \/ disk.sectors = 0
    /\ ok \in BOOLEAN
    /\ ~ok => bad # {}
    /\ pc = "halt" => bad # {} \/ WrongGeometry
    /\ Point \in Before \union BiosLabels \union Unread => kernel = <<>>

\* What is asked for at each point.
Asked2 ==
    /\ Point = "bootsector" => AskedFor(0, 1, BootSectorAt)
    /\ Point = "fatread" => AskedFor(FatStart, 9, FatAt)
    /\ Point = "rootread" => AskedFor(RootStart, 1, RootBuffer)
    /\ Point = "compare" => AskedFor(root.cluster, 1, RootBuffer)
    /\ Point = "opened" => AskedFor(ClusterToLba(FirstCluster(Kernel)), 1, FileBuffer)
    /\ Point = "nextsector" => AskedFor(ClusterToLba(fd.cluster), 1, FileBuffer)
    /\ Point \in Returns2 => req.lba \in 0..(ImageSectors - 1)

\* What an answer means.
Answered ==
    /\ pc \in {"cli", "protect", "readdone"} /\ bios.fn = "read" =>
          bios.eax = 0 \/ Holds(req.at, req.lba)
    /\ pc \in Returns2 => (ok /\ Holds(req.at, req.lba)) \/ (~ok /\ req.lba \in bad)

Faults2 ==
    /\ Asking => tries \in 0..2
    /\ Asking => FaultsSeen >= 3 * Cardinality(bad) + tries + (IF Failed THEN 1 ELSE 0)
    /\ ~Asking => FaultsSeen >= 3 * Cardinality(bad)

\* The search of the root directory: the sectors before this one have not the
\* file, if nothing was given up.
Directory ==
    /\ Point \in {"rootread", "find", "compare"} =>
          /\ root.cluster \in RootStart..DataStart
          /\ root.pos = 512 * (root.cluster - RootStart)
    /\ Point = "rootread" => root.cluster = RootStart
    /\ Point = "compare" => root.cluster > RootStart
    /\ Point = "find" /\ bad = {} => Holds(RootBuffer, root.cluster)
    /\ Point = "find" /\ bad = {} =>
          \A f \in image.files : f.name = Wanted => f.slot >= 16 * (root.cluster - RootStart)
    /\ Point = "compare" /\ bad = {} =>
          \A f \in image.files :
              f.name = Wanted => f = hit \/ f.slot >= 16 * (root.cluster - RootStart)
    /\ Point = "compare" /\ hit.name = Wanted => hit \in image.files
    /\ pc = "wild" => bad # {} \/ Kernel = NoFile

\* The open file: at the start of a cluster whose sector is in the buffer
\* (unless that was given up), or at the end.
AtCluster(i) ==
    /\ i \in DOMAIN Kernel.clusters
    /\ fd.pos = 512 * (i - 1) /\ fd.cluster = Kernel.clusters[i]
Buffered(i) ==
    Holds(FileBuffer, SectorOf(Kernel.clusters[i])) \/ SectorOf(Kernel.clusters[i]) \in bad

ReadingPoints == {"readfile", "copy", "nextsector", "returned"}
Reading ==
    /\ Point \in ReadingPoints \union {"opened"} => Found(Kernel, Wanted) /\ fd.size = Kernel.size
    /\ Point = "opened" => fd.pos = 0 /\ fd.cluster = FirstCluster(Kernel)
    /\ Point \in ReadingPoints => FileBuffer \in DOMAIN mem /\ mem[FileBuffer] \in Int
    /\ Point \in ReadingPoints =>
          \/ fd.pos = Kernel.size
          \/ \E i \in DOMAIN Kernel.clusters : 
                AtCluster(i) /\ (Point # "nextsector" => Buffered(i))
    /\ Point = "nextsector" => \E i \in DOMAIN Kernel.clusters : AtCluster(i)
    /\ Point \in {"copy", "nextsector"} =>
          /\ left \in 0..(Kernel.size - fd.pos)
          /\ left % 512 = 0 \/ left = Kernel.size - fd.pos
    /\ Point \in {"copy", "nextsector", "returned"} => from \in 0..fd.pos
    /\ Point = "nextsector" => from < fd.pos
    /\ Point = "copy" /\ from = fd.pos /\ left = 0 => fd.pos = Kernel.size
    /\ Point = "returned" /\ from = fd.pos => fd.pos = Kernel.size

\* The pieces that were read so far, of a kernel of less than 64 KiB.
Piece == [lba : Int, size : Nat]
Good(s) ==
    /\ s \in Seq(Piece)
    /\ \A j \in DOMAIN s :
          /\ s[j].size = Lesser(512, Kernel.size - 512 * (j - 1))
          /\ s[j].lba = SectorOf(Kernel.clusters[j]) \/ SectorOf(Kernel.clusters[j]) \in bad

Pieces ==
    Kernel.size < MEMORY_LOAD_SIZE =>
        /\ Point \in {"copy", "nextsector", "returned"} =>
              /\ got \in Seq(Piece) /\ kernel \in Seq(Piece)
              /\ Good(kernel \o got)
              /\ Len(kernel \o got) = (fd.pos + 511) \div 512
              /\ from = fd.pos => got = <<>>
        /\ Point = "readfile" => Good(kernel) /\ Len(kernel) = (fd.pos + 511) \div 512
        /\ pc = "kernel" => Good(kernel) /\ Len(kernel) = (Kernel.size + 511) \div 512

\* With the geometry of the boot drive.
SecondStage ==
    ~WrongGeometry =>
        /\ Asked2 /\ Answered /\ Faults2 /\ Directory /\ Reading /\ Pieces
        /\ Point \in ReadingPoints \union {"rootread", "find", "compare", "opened"} => Holds(FatAt, FatStart)

Inv ==
    /\ TypeOK /\ Records /\ Control /\ Modes
    /\ KbcType /\ A20Protocol
    /\ FirstStage /\ FirstFaults
    /\ Drive /\ SecondStage

-----------------------------------------------------------------------------
(* The modes and the A20 gate.                                              *)

\* Setting bit 1 of a byte that may have it.
LEMMA OrA20Sets ==
    ASSUME NEW n \in Nat
    PROVE  /\ OrA20(n) \in Nat
           /\ (OrA20(n) \div 2) % 2 = 1
           /\ OrA20(n) = n \/ OrA20(n) = n + 2
           /\ OrA20(n) % 2 = n % 2
BY DEF OrA20

\* Labels, callers and types.
LEMMA ControlInit == Init => TypeOK /\ Records /\ Control /\ Modes
<1> SUFFICES ASSUME Init PROVE TypeOK /\ Records /\ Control /\ Modes
    OBVIOUS
<1>1. TypeOK
  BY FS_EmptySet, GeometryAssumption DEF Init, DiskInit, TypeOK
<1>2. Control
  BY DEF Init, DiskInit, Init1, Init2, Control, Asking, BiosLabels, Before, Labels1, Labels2,
        Returns1, Returns2
<1>3. Modes
  BY DEF Init, DiskInit, Init1, Init2, Modes, Before, Labels1
<1>4. Records
  BY DEF Init, Init2, Records
<1>5. QED  BY <1>1, <1>2, <1>3, <1>4

LEMMA TypeStep == TypeOK /\ [Next]_vars => TypeOK'
<1> SUFFICES ASSUME TypeOK, [Next]_vars PROVE TypeOK'
    OBVIOUS
<1> DEFINE Same == image' = image /\ faults' = faults /\ bad' = bad /\ tries' = tries
           Keeps == /\ image' = image /\ faults' \in 0..MaxFaults /\ tries' \in Nat
                    /\ bad' = bad \/ bad' = bad \union {req.lba}
<1>1. Keeps => TypeOK'
  BY FS_AddElement DEF TypeOK
<1>2. Same => Keeps
  BY DEF TypeOK
<1> HIDE DEF Same, Keeps
<1>3. CASE Next1
  <2>1. CASE ReadParams
      BY <2>1, <1>1, GeometryAssumption DEF ReadParams, Request, Keeps, TypeOK, BiosFails
  <2>2. CASE TrySector1
      BY <2>2, <1>1, GeometryAssumption DEF TrySector1, Keeps, TypeOK, BiosReads,
        BiosFails, BiosRefuses
  <2>3. CASE Reset1
      BY <2>3, <1>1, GeometryAssumption DEF Reset1, Keeps, TypeOK
  <2>4. CASE Search
      BY <2>4, <1>1, GeometryAssumption DEF Search, Request, Keeps, TypeOK
  <2>5. CASE LoadCluster
      BY <2>5, <1>1, GeometryAssumption DEF LoadCluster, Request, Keeps, TypeOK
  <2>6. CASE NextLink
      BY <2>6, <1>1, <1>2 DEF NextLink, Same
  <2>7. CASE WaitKeyAndReboot
      BY <2>7, <1>1, <1>2 DEF WaitKeyAndReboot, stage1Vars, Same
  <2>8. QED  BY <1>3, <2>1, <2>2, <2>3, <2>4, <2>5, <2>6, <2>7 DEF Next1
<1>4. CASE Next2
  <2>1. CASE Entry
      BY <2>1, <1>1, <1>2 DEF Entry, entryVars, fileVars, Same
  <2>2. CASE StepA20
      BY <2>2, <1>1, <1>2 DEF StepA20, fileVars, Same
  <2>3. CASE Controller
      BY <2>3, <1>1, <1>2 DEF Controller, fileVars, Same
  <2>4. CASE KeyPressed
      BY <2>4, <1>1, <1>2 DEF KeyPressed, fileVars, Same
  <2>5. CASE Start
      BY <2>5, <1>1, <1>2 DEF Start, entryVars, fileVars, Same
  <2>6. CASE Enter16Bit
      BY <2>6, <1>1, <1>2 DEF Enter16Bit, entryVars, fileVars, Same
  <2>7. CASE LeaveProtected
      BY <2>7, <1>1, <1>2 DEF LeaveProtected, entryVars, fileVars, Same
  <2>8. CASE Sti
      BY <2>8, <1>1, <1>2 DEF Sti, entryVars, fileVars, Same
  <2>9. CASE Int13
      BY <2>9, <1>1, GeometryAssumption DEF Int13, entryVars, fileVars, Keeps, TypeOK,
        Int13Read, Int13Reset, Int13Params, BiosReads, BiosFails, BiosRefuses
  <2>10. CASE Cli
      BY <2>10, <1>1, <1>2 DEF Cli, entryVars, fileVars, Same
  <2>11. CASE EnterProtected
      BY <2>11, <1>1, <1>2 DEF EnterProtected, entryVars, fileVars, Same
  <2>12. CASE DiskInitialized
      BY <2>12, <1>1, GeometryAssumption DEF DiskInitialized, diskUnchanged, entryVars,
        fileVars, Request, Keeps, TypeOK
  <2>13. CASE DiskTry
      BY <2>13, <1>1, <1>2 DEF DiskTry, diskUnchanged, entryVars, fileVars, CallBios, Same
  <2>14. CASE DiskTried
      BY <2>14, <1>1, <1>2 DEF DiskTried, diskUnchanged, entryVars, fileVars, CallBios,
        Same
  <2>15. CASE DiskReset
      BY <2>15, <1>1, GeometryAssumption DEF DiskReset, diskUnchanged, entryVars, fileVars,
        Keeps, TypeOK
  <2>16. CASE BootSectorRead
      BY <2>16, <1>1, GeometryAssumption DEF BootSectorRead, diskUnchanged, entryVars,
        fileVars, ReadSectors, Request, Keeps, TypeOK
  <2>17. CASE FatRead
      BY <2>17, <1>1, GeometryAssumption DEF FatRead, diskUnchanged, entryVars,
        ReadSectors, Request, Keeps, TypeOK
  <2>18. CASE RootRead
      BY <2>18, <1>1, <1>2 DEF RootRead, diskUnchanged, entryVars, fileVars, Same
  <2>19. CASE FindFile
      BY <2>19, <1>1, GeometryAssumption DEF FindFile, diskUnchanged, entryVars, OpenEntry,
        ReadSectors, Request, Keeps, TypeOK
  <2>20. CASE CompareLast
      BY <2>20, <1>1, GeometryAssumption DEF CompareLast, diskUnchanged, entryVars,
        OpenEntry, ReadSectors, Request, Keeps, TypeOK
  <2>21. CASE Opened
      BY <2>21, <1>1, <1>2 DEF Opened, diskUnchanged, entryVars, Same
  <2>22. CASE ReadBegins
      BY <2>22, <1>1, <1>2 DEF ReadBegins, diskUnchanged, entryVars, Same
  <2>23. CASE ReadTurn
      BY <2>23, <1>1, GeometryAssumption DEF ReadTurn, diskUnchanged, entryVars,
        ReadSectors, Request, Keeps, TypeOK
  <2>24. CASE NextSector
      BY <2>24, <1>1, <1>2 DEF NextSector, diskUnchanged, entryVars, fileVars, Same
  <2>25. CASE ReadReturns
      BY <2>25, <1>1, <1>2 DEF ReadReturns, diskUnchanged, entryVars, fileVars, Same
  <2>26. CASE CopyKernel
      BY <2>26, <1>1, <1>2 DEF CopyKernel, diskUnchanged, entryVars, Same
  <2>27. QED  BY <1>4, <2>1, <2>2, <2>3, <2>4, <2>5, <2>6, <2>7, <2>8, <2>9, <2>10, <2>11, <2>12,
        <2>13, <2>14, <2>15, <2>16, <2>17, <2>18, <2>19, <2>20, <2>21, <2>22, <2>23, <2>24, <2>25,
        <2>26 DEF Next2
<1>5. CASE UNCHANGED vars
  BY <1>1, <1>2, <1>5 DEF vars, bootVars, Same
<1>6. QED  BY <1>3, <1>4, <1>5 DEF Next, Stopped

LEMMA RecordsStep == Records /\ [Next]_vars => Records'
<1> SUFFICES ASSUME Records, [Next]_vars PROVE Records'
    OBVIOUS
<1>1. CASE UNCHANGED <<bios, disk, fd>>
  BY <1>1 DEF Records
<1> USE DEF Records
<1>2. CASE UNCHANGED stage2Vars
  BY <1>1, <1>2 DEF stage2Vars, fileVars
<1>3. CASE Next2
  <2>1. CASE Entry
      BY <2>1 DEF Entry, entryVars, fileVars
  <2>2. CASE StepA20
      BY <2>2 DEF StepA20, fileVars
  <2>3. CASE Controller
      BY <2>3 DEF Controller, fileVars
  <2>4. CASE KeyPressed
      BY <2>4 DEF KeyPressed, fileVars
  <2>5. CASE Start
      BY <2>5 DEF Start, entryVars, fileVars
  <2>6. CASE Enter16Bit
      BY <2>6 DEF Enter16Bit, entryVars, fileVars
  <2>7. CASE LeaveProtected
      BY <2>7 DEF LeaveProtected, entryVars, fileVars
  <2>8. CASE Sti
      BY <2>8 DEF Sti, entryVars, fileVars
  <2>9. CASE Int13
      BY <2>9 DEF Int13, entryVars, fileVars, Int13Read, Int13Reset, Int13Params
  <2>10. CASE Cli
      BY <2>10 DEF Cli, entryVars, fileVars
  <2>11. CASE EnterProtected
      BY <2>11 DEF EnterProtected, entryVars, fileVars
  <2>12. CASE DiskInitialized
      BY <2>12 DEF DiskInitialized, diskUnchanged, entryVars, fileVars, Request
  <2>13. CASE DiskTry
      BY <2>13 DEF DiskTry, diskUnchanged, entryVars, fileVars, CallBios
  <2>14. CASE DiskTried
      BY <2>14 DEF DiskTried, diskUnchanged, entryVars, fileVars, CallBios
  <2>15. CASE DiskReset
      BY <2>15 DEF DiskReset, diskUnchanged, entryVars, fileVars
  <2>16. CASE BootSectorRead
      BY <2>16 DEF BootSectorRead, diskUnchanged, entryVars, fileVars, ReadSectors, Request
  <2>17. CASE FatRead
      BY <2>17 DEF FatRead, diskUnchanged, entryVars, ReadSectors, Request
  <2>18. CASE RootRead
      BY <2>18 DEF RootRead, diskUnchanged, entryVars, fileVars
  <2>19. CASE FindFile
      BY <2>19 DEF FindFile, diskUnchanged, entryVars, OpenEntry, ReadSectors, Request
  <2>20. CASE CompareLast
      BY <2>20 DEF CompareLast, diskUnchanged, entryVars, OpenEntry, ReadSectors, Request
  <2>21. CASE Opened
      BY <2>21 DEF Opened, diskUnchanged, entryVars
  <2>22. CASE ReadBegins
      BY <2>22 DEF ReadBegins, diskUnchanged, entryVars
  <2>23. CASE ReadTurn
      BY <2>23 DEF ReadTurn, diskUnchanged, entryVars, ReadSectors, Request
  <2>24. CASE NextSector
      BY <2>24 DEF NextSector, diskUnchanged, entryVars, fileVars
  <2>25. CASE ReadReturns
      BY <2>25 DEF ReadReturns, diskUnchanged, entryVars, fileVars
  <2>26. CASE CopyKernel
      BY <2>26 DEF CopyKernel, diskUnchanged, entryVars
  <2>27. QED  BY <1>3, <2>1, <2>2, <2>3, <2>4, <2>5, <2>6, <2>7, <2>8, <2>9, <2>10, <2>11, <2>12,
        <2>13, <2>14, <2>15, <2>16, <2>17, <2>18, <2>19, <2>20, <2>21, <2>22, <2>23, <2>24, <2>25,
        <2>26 DEF Next2
<1>4. QED  BY <1>2, <1>3 DEF Next, Stopped, vars

LEMMA ControlStep == Records /\ Control /\ [Next]_vars => Control'
<1> SUFFICES ASSUME Records, Control, [Next]_vars PROVE Control'
    OBVIOUS
<1> USE DEF Control, Asking, Before, Labels1, Labels2, Returns1, Returns2, BiosLabels
<1>1. CASE Next1
  <2>1. CASE ReadParams
      BY <2>1 DEF ReadParams, Request, BiosFails
  <2>2. CASE TrySector1
      BY <2>2 DEF TrySector1
  <2>3. CASE Reset1
      BY <2>3 DEF Reset1
  <2>4. CASE Search
      BY <2>4 DEF Search, Request
  <2>5. CASE LoadCluster
      BY <2>5 DEF LoadCluster, Request
  <2>6. CASE NextLink
      BY <2>6 DEF NextLink
  <2>7. CASE WaitKeyAndReboot
      BY <2>7 DEF WaitKeyAndReboot, stage1Vars
  <2>8. QED  BY <1>1, <2>1, <2>2, <2>3, <2>4, <2>5, <2>6, <2>7 DEF Next1
<1>2. CASE Next2
  <2>1. CASE Entry
      BY <2>1 DEF Entry, entryVars, fileVars
  <2>2. CASE StepA20
      BY <2>2 DEF StepA20, fileVars
  <2>3. CASE Controller
      BY <2>3 DEF Controller, fileVars
  <2>4. CASE KeyPressed
      BY <2>4 DEF KeyPressed, fileVars
  <2>5. CASE Start
      BY <2>5 DEF Start, entryVars, fileVars
  <2>6. CASE Enter16Bit
      BY <2>6 DEF Enter16Bit, entryVars, fileVars
  <2>7. CASE LeaveProtected
      BY <2>7 DEF LeaveProtected, entryVars, fileVars
  <2>8. CASE Sti
      BY <2>8 DEF Sti, entryVars, fileVars
  <2>9. CASE Int13
    <3>1. pc = "int13" /\ pc' = "cli" /\ ret' = ret
      BY <2>9 DEF Int13
    <3>2. bios'.fn = bios.fn /\ bios'.back = bios.back
      BY <2>9 DEF Int13, Int13Read, Int13Reset, Int13Params, Records
    <3>3. QED  BY <3>1, <3>2
  <2>10. CASE Cli
      BY <2>10 DEF Cli, entryVars, fileVars
  <2>11. CASE EnterProtected
      BY <2>11 DEF EnterProtected, entryVars, fileVars
  <2>12. CASE DiskInitialized
      BY <2>12 DEF DiskInitialized, diskUnchanged, entryVars, fileVars, Request
  <2>13. CASE DiskTry
      BY <2>13 DEF DiskTry, diskUnchanged, entryVars, fileVars, CallBios
  <2>14. CASE DiskTried
      BY <2>14 DEF DiskTried, diskUnchanged, entryVars, fileVars, CallBios
  <2>15. CASE DiskReset
      BY <2>15 DEF DiskReset, diskUnchanged, entryVars, fileVars
  <2>16. CASE BootSectorRead
      BY <2>16 DEF BootSectorRead, diskUnchanged, entryVars, fileVars, ReadSectors, Request
  <2>17. CASE FatRead
      BY <2>17 DEF FatRead, diskUnchanged, entryVars, ReadSectors, Request
  <2>18. CASE RootRead
      BY <2>18 DEF RootRead, diskUnchanged, entryVars, fileVars
  <2>19. CASE FindFile
      BY <2>19 DEF FindFile, diskUnchanged, entryVars, OpenEntry, ReadSectors, Request
  <2>20. CASE CompareLast
      BY <2>20 DEF CompareLast, diskUnchanged, entryVars, OpenEntry, ReadSectors, Request
  <2>21. CASE Opened
      BY <2>21 DEF Opened, diskUnchanged, entryVars
  <2>22. CASE ReadBegins
      BY <2>22 DEF ReadBegins, diskUnchanged, entryVars
  <2>23. CASE ReadTurn
      BY <2>23 DEF ReadTurn, diskUnchanged, entryVars, ReadSectors, Request
  <2>24. CASE NextSector
      BY <2>24 DEF NextSector, diskUnchanged, entryVars, fileVars
  <2>25. CASE ReadReturns
      BY <2>25 DEF ReadReturns, diskUnchanged, entryVars, fileVars
  <2>26. CASE CopyKernel
      BY <2>26 DEF CopyKernel, diskUnchanged, entryVars
  <2>27. QED  BY <1>2, <2>1, <2>2, <2>3, <2>4, <2>5, <2>6, <2>7, <2>8, <2>9, <2>10, <2>11, <2>12,
        <2>13, <2>14, <2>15, <2>16, <2>17, <2>18, <2>19, <2>20, <2>21, <2>22, <2>23, <2>24, <2>25,
        <2>26 DEF Next2
<1>3. CASE UNCHANGED vars
  BY <1>3 DEF vars, bootVars, stage2Vars
<1>4. QED  BY <1>1, <1>2, <1>3 DEF Next, Stopped

LEMMA ModesStep == Control /\ Modes /\ [Next]_vars => Modes'
<1> SUFFICES ASSUME Control, Modes, [Next]_vars PROVE Modes'
    OBVIOUS
<1> USE DEF Modes, Before, Labels1, Returns1, Returns2, BiosLabels
<1> DEFINE Same == iflag' = iflag /\ cpu' = cpu
<1>1. CASE Next1 /\ UNCHANGED stage2Vars
  <2>1. CASE ReadParams
      BY <1>1, <2>1 DEF ReadParams, Request, stage2Vars, BiosFails
  <2>2. CASE TrySector1
      BY <1>1, <2>2 DEF TrySector1, Control, stage2Vars
  <2>3. CASE Reset1
      BY <1>1, <2>3 DEF Reset1, stage2Vars
  <2>4. CASE Search
      BY <1>1, <2>4 DEF Search, Request, stage2Vars
  <2>5. CASE LoadCluster
      BY <1>1, <2>5 DEF LoadCluster, Request, stage2Vars
  <2>6. CASE NextLink
      BY <1>1, <2>6 DEF NextLink, stage2Vars
  <2>7. CASE WaitKeyAndReboot
      BY <1>1, <2>7 DEF WaitKeyAndReboot, stage1Vars, stage2Vars
  <2>8. QED  BY <1>1, <2>1, <2>2, <2>3, <2>4, <2>5, <2>6, <2>7 DEF Next1
<1>2. CASE Next2
  <2>1. CASE Entry
      BY <2>1 DEF Entry, entryVars, fileVars
  <2>2. CASE StepA20
      BY <2>2 DEF StepA20, fileVars
  <2>3. CASE Controller
      BY <2>3 DEF Controller, fileVars
  <2>4. CASE KeyPressed
      BY <2>4 DEF KeyPressed, fileVars
  <2>5. CASE Start
      BY <2>5 DEF Start, entryVars, fileVars
  <2>6. CASE Enter16Bit
      BY <2>6 DEF Enter16Bit, entryVars, fileVars
  <2>7. CASE LeaveProtected
      BY <2>7 DEF LeaveProtected, entryVars, fileVars
  <2>8. CASE Sti
      BY <2>8 DEF Sti, entryVars, fileVars
  <2>9. CASE Int13
      BY <2>9 DEF Int13, entryVars, fileVars
  <2>10. CASE Cli
      BY <2>10 DEF Cli, entryVars, fileVars
  <2>11. CASE EnterProtected
      BY <2>11 DEF EnterProtected, entryVars, fileVars, Control, Gdt
  <2>12. CASE DiskInitialized
      BY <2>12 DEF DiskInitialized, diskUnchanged, entryVars, fileVars, Request
  <2>13. CASE DiskTry
      BY <2>13 DEF DiskTry, diskUnchanged, entryVars, fileVars, CallBios
  <2>14. CASE DiskTried
      BY <2>14 DEF DiskTried, diskUnchanged, entryVars, fileVars, CallBios, Control, Asking
  <2>15. CASE DiskReset
      BY <2>15 DEF DiskReset, diskUnchanged, entryVars, fileVars, Control, Asking
  <2>16. CASE BootSectorRead
      BY <2>16 DEF BootSectorRead, diskUnchanged, entryVars, fileVars, ReadSectors, Request
  <2>17. CASE FatRead
      BY <2>17 DEF FatRead, diskUnchanged, entryVars, ReadSectors, Request
  <2>18. CASE RootRead
      BY <2>18 DEF RootRead, diskUnchanged, entryVars, fileVars
  <2>19. CASE FindFile
      BY <2>19 DEF FindFile, diskUnchanged, entryVars, OpenEntry, ReadSectors, Request
  <2>20. CASE CompareLast
      BY <2>20 DEF CompareLast, diskUnchanged, entryVars, OpenEntry, ReadSectors, Request
  <2>21. CASE Opened
      BY <2>21 DEF Opened, diskUnchanged, entryVars
  <2>22. CASE ReadBegins
      BY <2>22 DEF ReadBegins, diskUnchanged, entryVars
  <2>23. CASE ReadTurn
      BY <2>23 DEF ReadTurn, diskUnchanged, entryVars, ReadSectors, Request
  <2>24. CASE NextSector
      BY <2>24 DEF NextSector, diskUnchanged, entryVars, fileVars
  <2>25. CASE ReadReturns
      BY <2>25 DEF ReadReturns, diskUnchanged, entryVars, fileVars
  <2>26. CASE CopyKernel
      BY <2>26 DEF CopyKernel, diskUnchanged, entryVars
  <2>27. QED  BY <1>2, <2>1, <2>2, <2>3, <2>4, <2>5, <2>6, <2>7, <2>8, <2>9, <2>10, <2>11, <2>12,
        <2>13, <2>14, <2>15, <2>16, <2>17, <2>18, <2>19, <2>20, <2>21, <2>22, <2>23, <2>24, <2>25,
        <2>26 DEF Next2
<1>3. CASE UNCHANGED vars
  BY <1>3 DEF vars, bootVars, stage2Vars
<1>4. QED  BY <1>1, <1>2, <1>3 DEF Next, Stopped

LEMMA A20Init == Init => KbcType /\ A20Protocol
<1> SUFFICES ASSUME Init PROVE KbcType /\ A20Protocol
    OBVIOUS
<1>1. KbcType
  <2>1. kbc \in [in : {"none"}, byte : {0}, full : {FALSE}, out : {0}, port : {1, 3},
                 write : {FALSE}, keys : {TRUE}] /\ al = 0
    BY DEF Init, Init2
  <2>2. {"none"} \subseteq {"none", "disable", "readport", "writeport", "data", "enable"}
    OBVIOUS
  <2>3. {0} \subseteq Nat /\ {1, 3} \subseteq Nat /\ {FALSE} \subseteq BOOLEAN /\ {TRUE} \subseteq BOOLEAN
    OBVIOUS
  <2>4. QED  BY <2>1, <2>2, <2>3, Zenon DEF KbcType
<1>2. pc = "start" /\ step = 1 /\ kbc.in = "none" /\ kbc.port \in {1, 3} /\ kbc.full = FALSE
  BY DEF Init, Init1, Init2
<1>3. QED  BY <1>1, <1>2 DEF A20Protocol, Before, Labels1

\* Each step of EnableA20, with what the controller has been sent before it.
LEMMA A20StepKeeps == KbcType /\ A20Protocol /\ StepA20 => KbcType' /\ A20Protocol'
<1> SUFFICES ASSUME KbcType, A20Protocol, StepA20 PROVE KbcType' /\ A20Protocol'
    OBVIOUS
<1>1. /\ pc = "a20" /\ step \in 1..7
      /\ OrA20(al) \in Nat /\ (OrA20(al) \div 2) % 2 = 1
      /\ OrA20(al) = al \/ OrA20(al) = al + 2
      /\ OrA20(al) % 2 = al % 2
  BY OrA20Sets DEF StepA20, A20Protocol, KbcType
<1> DEFINE Rest == /\ kbc'.out = kbc.out /\ kbc'.port = kbc.port /\ kbc'.write = kbc.write
                   /\ step' = step + 1
           Sends(what) == /\ pc' = pc /\ al' = al /\ kbc.in = "none" /\ Rest
                          /\ kbc'.in = what /\ kbc'.byte = OrA20(al) /\ kbc'.full = kbc.full
<1>2. CASE step = 1
  <2>1. KbcType' /\ Sends("disable")
    BY <1>1, <1>2 DEF StepA20, EnableA20, Waited, KbcType
  <2>2. QED  BY <1>1, <1>2, <2>1 DEF A20Protocol, Before, Labels1
<1>3. CASE step = 2
  <2>1. KbcType' /\ Sends("readport")
    BY <1>1, <1>3 DEF StepA20, EnableA20, Waited, KbcType
  <2>2. QED  BY <1>1, <1>3, <2>1 DEF A20Protocol, Before, Labels1
<1>4. CASE step = 4
  <2>1. KbcType' /\ Sends("writeport")
    BY <1>1, <1>4 DEF StepA20, EnableA20, Waited, KbcType
  <2>2. QED  BY <1>1, <1>4, <2>1 DEF A20Protocol, Before, Labels1
<1>5. CASE step = 5
  <2>1. KbcType' /\ Sends("data")
    BY <1>1, <1>5 DEF StepA20, EnableA20, Waited, KbcType
  <2>2. QED  BY <1>1, <1>5, <2>1 DEF A20Protocol, Before, Labels1
<1>6. CASE step = 6
  <2>1. KbcType' /\ Sends("enable")
    BY <1>1, <1>6 DEF StepA20, EnableA20, Waited, KbcType
  <2>2. QED  BY <1>1, <1>6, <2>1 DEF A20Protocol, Before, Labels1
<1>7. CASE step = 3
  <2>1. /\ KbcType' /\ Rest /\ pc' = pc /\ al' = kbc.out /\ kbc.full = TRUE
        /\ kbc'.in = kbc.in /\ kbc'.full = FALSE
    BY <1>1, <1>7 DEF StepA20, EnableA20, Waited, KbcType
  <2>2. QED  BY <1>1, <1>7, <2>1 DEF A20Protocol, Before, Labels1
<1>8. CASE step = 7
  <2>1. pc' = "pmode" /\ al' = al /\ kbc' = kbc /\ kbc.port = OrA20(al)
    BY <1>1, <1>8 DEF StepA20, EnableA20, A20Protocol
  <2>2. QED  BY <1>1, <1>8, <2>1 DEF A20On, KbcType, A20Protocol, Before, Labels1
<1>9. QED  BY <1>1, <1>2, <1>3, <1>4, <1>5, <1>6, <1>7, <1>8

LEMMA ControllerKeeps == KbcType /\ A20Protocol /\ Controller => KbcType' /\ A20Protocol'
<1> SUFFICES ASSUME KbcType, A20Protocol, Controller PROVE KbcType' /\ A20Protocol'
    OBVIOUS
<1>1. KbcType'
  BY ZenonT(60) DEF Controller, KbcType
<1>2. /\ pc = "a20" /\ step \in 1..7 /\ kbc.in # "none" /\ kbc'.in = "none"
      /\ step' = step /\ al' = al /\ kbc'.byte = kbc.byte
      /\ kbc'.write = (kbc.in = "writeport")
      /\ pc' = IF kbc'.port % 2 = 0 THEN "reset" ELSE pc
      /\ kbc'.port = IF kbc.in = "data" /\ kbc.write THEN kbc.byte ELSE kbc.port
      /\ kbc'.full = (IF kbc.in = "readport" THEN TRUE ELSE kbc.full)
      /\ kbc'.out = IF kbc.in = "readport" THEN kbc.port ELSE kbc.out
  BY DEF Controller, KbcType, A20Protocol
<1>3. /\ OrA20(al) \in Nat /\ (OrA20(al) \div 2) % 2 = 1
      /\ OrA20(al) = al \/ OrA20(al) = al + 2
      /\ OrA20(al) % 2 = al % 2
  BY OrA20Sets DEF KbcType
<1>4. CASE step = 6
  BY <1>1, <1>2, <1>3, <1>4 DEF A20Protocol, KbcType, Before, Labels1
<1>5. CASE step # 6
  BY <1>1, <1>2, <1>3, <1>5 DEF A20Protocol, KbcType, Before, Labels1
<1>6. QED  BY <1>4, <1>5

LEMMA A20ProtocolStep == Control /\ KbcType /\ A20Protocol /\ [Next]_vars => KbcType' /\ A20Protocol'
<1> SUFFICES ASSUME Control, KbcType, A20Protocol, [Next]_vars PROVE KbcType' /\ A20Protocol'
    OBVIOUS
<1> DEFINE Same == UNCHANGED <<kbc, step, al>>
<1>1. CASE Same /\ pc \in Labels1 \union {"entry"} /\ pc' \in Labels1 \union {"entry", "a20"}
  BY <1>1 DEF KbcType, A20Protocol, Before, Labels1
<1>2. CASE Same /\ (pc \notin Before \/ pc = "pmode") /\ pc' \notin Before
  BY <1>2 DEF KbcType, A20Protocol, A20On, Before, Labels1
<1>3. CASE UNCHANGED vars
  BY <1>3 DEF KbcType, A20Protocol, A20On, vars, bootVars, stage2Vars
<1>4. CASE Next1 /\ UNCHANGED stage2Vars
  <2>1. pc \in Labels1 /\ pc' \in Labels1 \union {"entry"}
    BY <1>4 DEF Next1, Control, Labels1, Returns1, ReadParams, TrySector1, Reset1, Search,
        LoadCluster, NextLink, WaitKeyAndReboot
  <2>2. QED  BY <1>1, <1>4, <2>1 DEF stage2Vars
<1>5. CASE Next2
  <2>1. CASE StepA20
    BY <2>1, A20StepKeeps
  <2>2. CASE Controller
    BY <2>2, ControllerKeeps
  <2>3. CASE KeyPressed
    <3>1. PICK s \in Scancodes : kbc' = [kbc EXCEPT !.full = TRUE, !.out = s]
      BY <2>3 DEF KeyPressed
    <3> s \in Nat
      BY ScancodesAssumption
    <3>2. /\ KbcType' /\ kbc'.out = s /\ kbc'.full = TRUE
          /\ kbc'.in = kbc.in /\ kbc'.byte = kbc.byte /\ kbc'.port = kbc.port /\ kbc'.write = kbc.write
      <4>1. al' = al
        BY <2>3 DEF KeyPressed
      <4>2. QED  BY <3>1, <4>1 DEF KbcType
    <3>3. pc = "a20" /\ pc' = pc /\ step' = step /\ al' = al
      BY <2>3 DEF KeyPressed
    <3>4. QED  BY <3>2, <3>3 DEF A20Protocol, Before, Labels1
  <2>4. CASE Entry
    BY <1>1, <2>4 DEF Entry, entryVars, fileVars, Labels1
  <2>5. CASE Start
      BY <2>5, <1>2 DEF Start, entryVars, fileVars, Before, Labels1
  <2>6. CASE Enter16Bit
      BY <2>6, <1>2 DEF Enter16Bit, entryVars, fileVars, Before, Labels1
  <2>7. CASE LeaveProtected
      BY <2>7, <1>2 DEF LeaveProtected, entryVars, fileVars, Before, Labels1
  <2>8. CASE Sti
      BY <2>8, <1>2 DEF Sti, entryVars, fileVars, Before, Labels1
  <2>9. CASE Int13
      BY <2>9, <1>2 DEF Int13, entryVars, fileVars, Before, Labels1
  <2>10. CASE Cli
      BY <2>10, <1>2 DEF Cli, entryVars, fileVars, Before, Labels1
  <2>11. CASE EnterProtected
      BY <2>11, <1>2 DEF EnterProtected, entryVars, fileVars, Before, Labels1, Control,
        Returns2, BiosLabels, Asking
  <2>12. CASE DiskInitialized
      BY <2>12, <1>2 DEF DiskInitialized, diskUnchanged, entryVars, fileVars, Request,
        Before, Labels1
  <2>13. CASE DiskTry
      BY <2>13, <1>2 DEF DiskTry, diskUnchanged, entryVars, fileVars, CallBios, Before,
        Labels1
  <2>14. CASE DiskTried
      BY <2>14, <1>2 DEF DiskTried, diskUnchanged, entryVars, fileVars, CallBios, Before,
        Labels1, Control, Returns2, BiosLabels, Asking
  <2>15. CASE DiskReset
      BY <2>15, <1>2 DEF DiskReset, diskUnchanged, entryVars, fileVars, Before, Labels1,
        Control, Returns2, BiosLabels, Asking
  <2>16. CASE BootSectorRead
      BY <2>16, <1>2 DEF BootSectorRead, diskUnchanged, entryVars, fileVars, ReadSectors,
        Request, Before, Labels1
  <2>17. CASE FatRead
      BY <2>17, <1>2 DEF FatRead, diskUnchanged, entryVars, ReadSectors, Request, Before,
        Labels1
  <2>18. CASE RootRead
      BY <2>18, <1>2 DEF RootRead, diskUnchanged, entryVars, fileVars, Before, Labels1
  <2>19. CASE FindFile
      BY <2>19, <1>2 DEF FindFile, diskUnchanged, entryVars, OpenEntry, ReadSectors,
        Request, Before, Labels1
  <2>20. CASE CompareLast
      BY <2>20, <1>2 DEF CompareLast, diskUnchanged, entryVars, OpenEntry, ReadSectors,
        Request, Before, Labels1
  <2>21. CASE Opened
      BY <2>21, <1>2 DEF Opened, diskUnchanged, entryVars, Before, Labels1
  <2>22. CASE ReadBegins
      BY <2>22, <1>2 DEF ReadBegins, diskUnchanged, entryVars, Before, Labels1
  <2>23. CASE ReadTurn
      BY <2>23, <1>2 DEF ReadTurn, diskUnchanged, entryVars, ReadSectors, Request, Before,
        Labels1
  <2>24. CASE NextSector
      BY <2>24, <1>2 DEF NextSector, diskUnchanged, entryVars, fileVars, Before, Labels1
  <2>25. CASE ReadReturns
      BY <2>25, <1>2 DEF ReadReturns, diskUnchanged, entryVars, fileVars, Before, Labels1
  <2>26. CASE CopyKernel
      BY <2>26, <1>2 DEF CopyKernel, diskUnchanged, entryVars, Before, Labels1
  <2>27. QED  BY <1>5, <2>1, <2>2, <2>3, <2>4, <2>5, <2>6, <2>7, <2>8, <2>9, <2>10, <2>11, <2>12,
        <2>13, <2>14, <2>15, <2>16, <2>17, <2>18, <2>19, <2>20, <2>21, <2>22, <2>23, <2>24, <2>25,
        <2>26 DEF Next2
<1>6. QED  BY <1>3, <1>4, <1>5 DEF Next, Stopped

-----------------------------------------------------------------------------
(* Addresses: the two conversions of a sector number give the BIOS the      *)
(* place of that sector, on any drive that holds the disk.                  *)

LEMMA Division ==
    ASSUME NEW n \in Nat, NEW d \in Nat \ {0}
    PROVE  /\ n \div d \in Nat /\ n % d \in 0..(d - 1)
           /\ n = (d * (n \div d)) + (n % d)
OBVIOUS

LEMMA ProductGrows ==
    ASSUME NEW a \in Nat, NEW b \in Nat, NEW k \in Nat, a <= b
    PROVE  a * k <= b * k
OBVIOUS

\* Sector l in cylinder, head and sector of a drive.
Splits(l, s, h, c) ==
    /\ (l \div s) \div h \in 0..(c - 1)
    /\ (l \div s) % h \in 0..(h - 1)
    /\ l % s \in 0..(s - 1)
    /\ ((((l \div s) \div h) * h + ((l \div s) % h)) * s) + (l % s) = l

LEMMA TrackOfSector ==
    ASSUME NEW l \in 0..(ImageSectors - 1), NEW s \in 1..63, NEW h \in 1..256, NEW c \in 1..1024,
           c * (h * s) >= ImageSectors
    PROVE  Splits(l, s, h, c)
<1> DEFINE t == l \div s
           y == t \div h
<1>1. t \in Nat /\ l % s \in 0..(s - 1) /\ l = (s * t) + (l % s)
  <2>1. l \in Nat /\ s \in Nat \ {0}
    BY DEF ImageSectors
  <2>2. QED  BY <2>1, Division
<1> HIDE DEF t
<1>2. y \in Nat /\ t % h \in 0..(h - 1) /\ t = (h * y) + (t % h)
  <2>1. h \in Nat \ {0}
    OBVIOUS
  <2>2. QED  BY <1>1, <2>1, Division
<1> HIDE DEF y
<1>3. ((y * h) + (t % h)) * s + (l % s) = l
  BY <1>1, <1>2
<1>4. y < c
  <2> SUFFICES ASSUME y >= c PROVE FALSE
    BY <1>2
  <2> DEFINE needed == c * (h * s)
             start == y * (h * s)
             first == t * s
  <2>1. h * s \in Nat /\ needed \in Nat /\ start \in Nat /\ first \in Nat
    BY <1>1, <1>2
  <2>2. needed <= start
    BY <1>2, <2>1, ProductGrows
  <2>3. start <= first
    <3>1. start = (y * h) * s
      BY <1>2
    <3>2. y * h \in Nat /\ y * h <= t
      BY <1>1, <1>2
    <3>3. (y * h) * s <= first
      BY <1>1, <3>2, ProductGrows
    <3>4. QED  BY <3>1, <3>3
  <2>4. first <= l
    BY <1>1
  <2>5. needed >= ImageSectors
    OBVIOUS
  <2> HIDE DEF needed, start, first
  <2>6. l \in Int /\ l < ImageSectors /\ ImageSectors \in Int
    BY DEF ImageSectors
  <2>7. needed <= l
    BY <2>1, <2>2, <2>3, <2>4, <2>6
  <2>8. QED  BY <2>1, <2>5, <2>6, <2>7
<1>5. QED  BY <1>1, <1>2, <1>3, <1>4 DEF t, y, Splits

\* CL holds the sector and two bits of the cylinder.
LEMMA Packed ==
    ASSUME NEW s \in 1..63, NEW y \in 0..1023
    PROVE  /\ Cylinder(y % 256, s + (64 * ((y \div 256) % 4))) = y
           /\ (s + (64 * ((y \div 256) % 4))) % 64 = s
BY DEF Cylinder

LEMMA BootGeometry ==
    /\ BootDrive \in DOMAIN Geometry
    /\ Geometry[BootDrive].cylinders \in 1..1024
    /\ Geometry[BootDrive].heads \in 1..255
    /\ Geometry[BootDrive].sectors \in 1..63
    /\ Geometry[BootDrive].cylinders * (Geometry[BootDrive].heads * Geometry[BootDrive].sectors)
          >= ImageSectors
<1>1. BootDrive \in DOMAIN Geometry /\ Geometry[BootDrive].heads \in 1..256
  BY GeometryAssumption
<1>2. Geometry[BootDrive].heads \in 1..255
  BY <1>1, GeometryAssumption
<1>3. QED  BY <1>1, <1>2, GeometryAssumption

\* A drive whose geometry was never asked for is not the boot drive's.
LEMMA HasSectors == Geometry[BootDrive].sectors # 0
<1>1. Geometry[BootDrive].sectors \in 1..63
  BY BootGeometry, Zenon
<1>2. QED  BY <1>1

\* What the BIOS makes of CH, CL and DH for cylinder y, head k and sector q + 1.
LEMMA Addressed ==
    ASSUME NEW y \in 0..(Geometry[BootDrive].cylinders - 1),
           NEW k \in 0..(Geometry[BootDrive].heads - 1),
           NEW q \in 0..(Geometry[BootDrive].sectors - 1)
    PROVE  LET cl == (q + 1) + (64 * ((y \div 256) % 4))
           IN /\ Addressable(BootDrive, y % 256, cl, k)
              /\ LbaOf(BootDrive, y % 256, cl, k)
                   = (((y * Geometry[BootDrive].heads) + k) * Geometry[BootDrive].sectors) + q
<1> DEFINE c == Geometry[BootDrive].cylinders
           h == Geometry[BootDrive].heads
           s == Geometry[BootDrive].sectors
           cl == (q + 1) + (64 * ((y \div 256) % 4))
<1>1. s \in 1..63 /\ h \in 1..255 /\ c \in 1..1024 /\ BootDrive \in DOMAIN Geometry
  BY BootGeometry
<1>2. y \in 0..(c - 1) /\ k \in 0..(h - 1) /\ q \in 0..(s - 1)
  OBVIOUS
<1> HIDE DEF c, h, s
<1>3. y \in 0..1023 /\ q + 1 \in 1..63 /\ y < c /\ k < h /\ q + 1 \in 1..s /\ q \in Nat
  BY <1>1, <1>2
<1>4. Cylinder(y % 256, cl) = y /\ cl % 64 = q + 1
  <2> DEFINE n == q + 1
  <2>1. n \in 1..63
    BY <1>3
  <2> HIDE DEF n
  <2>2. /\ Cylinder(y % 256, n + (64 * ((y \div 256) % 4))) = y
        /\ (n + (64 * ((y \div 256) % 4))) % 64 = n
    BY <1>3, <2>1, Packed, ZenonT(60)
  <2>3. QED  BY <2>2 DEF n
<1> HIDE DEF cl
<1>5. Addressable(BootDrive, y % 256, cl, k)
  BY <1>1, <1>3, <1>4 DEF Addressable, c, h, s
<1>6. LbaOf(BootDrive, y % 256, cl, k) = (((y * h) + k) * s) + (q + 1) - 1
  BY <1>4 DEF LbaOf, h, s
<1>7. ((y * h) + k) * s \in Int
  BY <1>1, <1>2, <1>3
<1>8. QED  BY <1>3, <1>5, <1>6, <1>7 DEF cl, h, s

\* The same for the sector l of the disk.
LEMMA AddressOfSector ==
    ASSUME NEW l \in 0..(ImageSectors - 1)
    PROVE  LET s == Geometry[BootDrive].sectors
               h == Geometry[BootDrive].heads
               y == (l \div s) \div h
               cl == ((l % s) + 1) + (64 * ((y \div 256) % 4))
           IN /\ l \div s \in Nat /\ y \in Nat
              /\ (l \div s) % h \in 0..(h - 1) /\ l % s \in 0..(s - 1)
              /\ Addressable(BootDrive, y % 256, cl, (l \div s) % h)
              /\ LbaOf(BootDrive, y % 256, cl, (l \div s) % h) = l
<1> DEFINE c == Geometry[BootDrive].cylinders
           h == Geometry[BootDrive].heads
           s == Geometry[BootDrive].sectors
           y == (l \div s) \div h
           k == (l \div s) % h
           q == l % s
<1>1. s \in 1..63 /\ h \in 1..255 /\ c \in 1..1024 /\ c * (h * s) >= ImageSectors
  BY BootGeometry
<1> HIDE DEF c, h, s
<1>2. l \div s \in Nat
  <2>1. l \in Nat
    BY DEF ImageSectors
  <2>2. s \in Nat \ {0}
    BY <1>1
  <2>3. QED  BY <2>1, <2>2, Division
<1>3. /\ y \in 0..(c - 1) /\ k \in 0..(h - 1) /\ q \in 0..(s - 1)
      /\ (((y * h) + k) * s) + q = l
  <2>1. h \in 1..256 /\ s \in 1..63 /\ c \in 1..1024
    BY <1>1
  <2>2. c * (h * s) >= ImageSectors
    BY <1>1
  <2> HIDE DEF y, k, q
  <2>3. \A s1 \in 1..63, h1 \in 1..256, c1 \in 1..1024 :
          c1 * (h1 * s1) >= ImageSectors => Splits(l, s1, h1, c1)
    BY TrackOfSector, ZenonT(60)
  <2>4. c * (h * s) >= ImageSectors => Splits(l, s, h, c)
    BY <2>1, <2>3, ZenonT(60)
  <2>5. QED  BY <2>2, <2>4 DEF y, k, q, Splits
<1> HIDE DEF k, q, y
<1>4. y \in Nat
  BY <1>1, <1>3
<1>5. /\ Addressable(BootDrive, y % 256, (q + 1) + (64 * ((y \div 256) % 4)), k)
      /\ LbaOf(BootDrive, y % 256, (q + 1) + (64 * ((y \div 256) % 4)), k)
           = (((y * Geometry[BootDrive].heads) + k) * Geometry[BootDrive].sectors) + q
  BY <1>3, Addressed DEF c, h, s
<1>6. LbaOf(BootDrive, y % 256, (q + 1) + (64 * ((y \div 256) % 4)), k) = (((y * h) + k) * s) + q
  BY <1>5 DEF h, s
<1>7. LbaOf(BootDrive, y % 256, (q + 1) + (64 * ((y \div 256) % 4)), k) = l
  BY <1>3, <1>6
<1>8. QED  BY <1>2, <1>3, <1>4, <1>5, <1>7, Zenon DEF k, q, y, h, s

\* lba_to_chs of the first stage.
LEMMA ChsRight ==
    ASSUME NEW l \in 0..(ImageSectors - 1),
           geo.sectors = Geometry[BootDrive].sectors, geo.heads = Geometry[BootDrive].heads
    PROVE  /\ Addressable(BootDrive, Chs(l).ch, Chs(l).cl, Chs(l).dh)
           /\ LbaOf(BootDrive, Chs(l).ch, Chs(l).cl, Chs(l).dh) = l
<1>1. /\ Chs(l).ch = ((l \div geo.sectors) \div geo.heads) % 256
      /\ Chs(l).dh = (l \div geo.sectors) % geo.heads
      /\ Chs(l).cl = ((l % geo.sectors) + 1)
                       + (64 * ((((l \div geo.sectors) \div geo.heads) \div 256) % 4))
  BY DEF Chs
<1>2. QED  BY <1>1, AddressOfSector

\* DISK_LBA2CHS and the packing of x86_Disk_Read.
LEMMA Lba2ChsRight ==
    ASSUME NEW l \in 0..(ImageSectors - 1), disk.id = BootDrive, ~WrongGeometry
    PROVE  /\ Addressable(disk.id, Lba2Chs(l).ch, Lba2Chs(l).cl, Lba2Chs(l).dh)
           /\ LbaOf(disk.id, Lba2Chs(l).ch, Lba2Chs(l).cl, Lba2Chs(l).dh) = l
<1> DEFINE s == disk.sectors
           h == disk.heads
           y == (l \div s) \div h
           k == (l \div s) % h
           q == l % s
<1>1. s = Geometry[BootDrive].sectors /\ h = Geometry[BootDrive].heads
  BY DEF WrongGeometry
<1>2. s \in 1..63 /\ h \in 1..255
  BY <1>1, BootGeometry
<1>3. /\ Lba2Chs(l).ch = y % 256
      /\ Lba2Chs(l).dh = k % 256
      /\ Lba2Chs(l).cl = (64 * ((y \div 256) % 4)) + ((q + 1) % 64)
  BY DEF Lba2Chs
<1> HIDE DEF s, h
<1>4. /\ y \in Nat /\ k \in 0..(h - 1) /\ q \in 0..(s - 1)
      /\ Addressable(BootDrive, y % 256, (q + 1) + (64 * ((y \div 256) % 4)), k)
      /\ LbaOf(BootDrive, y % 256, (q + 1) + (64 * ((y \div 256) % 4)), k) = l
  BY <1>1, AddressOfSector
<1> HIDE DEF k, q, y
<1>5. (q + 1) % 64 = q + 1 /\ k % 256 = k /\ q \in Nat
  BY <1>2, <1>4
<1>6. (64 * ((y \div 256) % 4)) + (q + 1) = (q + 1) + (64 * ((y \div 256) % 4))
  BY <1>4, <1>5
<1>7. QED  BY <1>3, <1>4, <1>5, <1>6
-----------------------------------------------------------------------------
(* The floppy: its files, and the packed table of 12-bit entries.           *)

\* What ImageAssumption says of the floppy in the drive.
LEMMA FileFacts ==
    ASSUME image \in Images, NEW f \in image.files
    PROVE  /\ f.slot \in Nat /\ f.slot < 224
           /\ f.clusters \in Seq(Nat)
           /\ \A i \in DOMAIN f.clusters : 2 <= f.clusters[i] /\ f.clusters[i] <= 2848
           /\ \A g \in image.files :
                 /\ f.slot = g.slot => f = g
                 /\ \A i \in DOMAIN f.clusters, j \in DOMAIN g.clusters :
                       f.clusters[i] = g.clusters[j] => f = g /\ i = j
<1>1. Bpb.dirEntryCount = 224 /\ ImageSectors - DataStart + 1 = 2848
  BY DEF Bpb, ImageSectors, DataStart
<1>2. f.slot \in 0..(Bpb.dirEntryCount - 1)
  BY ImageAssumption, Zenon
<1>3. f.clusters \in Seq(2..(ImageSectors - DataStart + 1))
  BY ImageAssumption, Zenon
<1>4. ASSUME NEW g \in image.files PROVE f.slot = g.slot => f = g
  BY ImageAssumption, Zenon
<1>5. ASSUME NEW g \in image.files, NEW i \in DOMAIN f.clusters, NEW j \in DOMAIN g.clusters
      PROVE  f.clusters[i] = g.clusters[j] => f = g /\ i = j
  BY ImageAssumption, Zenon
<1>6. f.slot \in Nat /\ f.slot < 224
  BY <1>1, <1>2
<1>7. f.clusters \in Seq(Nat) /\ \A i \in DOMAIN f.clusters : 2 <= f.clusters[i] /\ f.clusters[i] <= 2848
  <2> DEFINE last == ImageSectors - DataStart + 1
  <2>1. last \in Nat /\ last <= 2848
    BY <1>1
  <2> HIDE DEF last
  <2>2. f.clusters \in Seq(2..last)
    BY <1>3 DEF last
  <2>3. DOMAIN f.clusters = 1..Len(f.clusters)
    BY <2>2, LenProperties, Zenon
  <2>4. ASSUME NEW i \in DOMAIN f.clusters PROVE 2 <= f.clusters[i] /\ f.clusters[i] <= 2848
    <3>1. f.clusters[i] \in 2..last
      BY <2>2, <2>3, ElementOfSeq, Zenon
    <3>2. QED  BY <2>1, <3>1
  <2>5. f.clusters \in Seq(Nat)
    <3>1. 2..last \subseteq Nat
      BY <2>1
    <3>2. QED  BY <2>2, <3>1, SeqMonotonic, Zenon
  <2>6. QED  BY <2>4, <2>5
<1>8. QED  BY <1>4, <1>5, <1>6, <1>7

\* A file that is there is the one its name finds.
LEMMA NamedFile ==
    ASSUME image \in Images, NEW f \in image.files, f.name \in {file_stage2_bin, Wanted}
    PROVE  FileNamed(f.name) = f
<1>1. {g \in image.files : g.name = f.name} = {f}
  BY ProgramsAssumption
<1>2. QED  BY <1>1 DEF FileNamed

LEMMA FileNamedFound ==
    ASSUME NEW name
    PROVE  \/ FileNamed(name) \in image.files /\ FileNamed(name).name = name
           \/ FileNamed(name) = NoFile /\ \A f \in image.files : f.name # name
BY DEF FileNamed

\* An entry of a directory sector with a name is a file of the image.
LEMMA EntryIsFile ==
    ASSUME NEW a, NEW i, EntryAt(a, i).name # <<>>
    PROVE  EntryAt(a, i) \in image.files
BY DEF EntryAt, NoFile

\* The file of a slot is what its entry shows.
LEMMA EntryOfSlot ==
    ASSUME image \in Images, NEW f \in image.files, NEW a, NEW n \in Nat, NEW i \in 0..15,
           Holds(a, RootStart + n), f.slot = 16 * n + i
    PROVE  EntryAt(a, i) = f
<1>1. (mem[a] - RootStart) * EntriesPerSector + i = f.slot
  BY DEF Holds, EntriesPerSector, EntrySize, Bpb, RootStart
<1>2. {g \in image.files : g.slot = f.slot} = {f}
  BY FileFacts
<1>3. f.slot >= 0
  BY FileFacts
<1>4. QED  BY <1>1, <1>2, <1>3 DEF EntryAt, Holds

\* The chain of a file.
LEMMA SuccessorInChain ==
    ASSUME image \in Images, NEW f \in image.files, NEW i \in DOMAIN f.clusters
    PROVE  Successor(f.clusters[i]) = IF i = Len(f.clusters) THEN 4095 ELSE f.clusters[i + 1]
<1> DEFINE c == f.clusters[i]
           holders == {g \in image.files : \E j \in DOMAIN g.clusters : g.clusters[j] = c}
           holder == CHOOSE x \in holders : TRUE
           link == CHOOSE j \in DOMAIN holder.clusters : holder.clusters[j] = c
<1>1. Successor(c) = IF holders = {} THEN 0
                     ELSE IF link = Len(holder.clusters) THEN 4095 ELSE holder.clusters[link + 1]
  BY Zenon DEF Successor
<1>2. holders = {f}
  BY FileFacts
<1>3. holder = f
  BY <1>2
<1>4. link \in DOMAIN f.clusters /\ f.clusters[link] = c
  BY <1>3
<1>5. link = i
  <2> HIDE DEF link
  <2>1. \A j, k \in DOMAIN f.clusters : f.clusters[j] = f.clusters[k] => j = k
    BY FileFacts
  <2>2. QED  BY <1>4, <2>1
<1> HIDE DEF link, holder, holders
<1>6. QED  BY <1>1, <1>2, <1>3, <1>5

LEMMA SuccessorType ==
    ASSUME image \in Images, NEW c
    PROVE  Successor(c) \in Nat /\ Successor(c) <= 4095
<1> DEFINE holders == {f \in image.files : \E i \in DOMAIN f.clusters : f.clusters[i] = c}
<1>1. CASE holders = {}
  BY <1>1 DEF Successor
<1>2. CASE holders # {}
  <2>1. PICK f \in image.files : \E i \in DOMAIN f.clusters : f.clusters[i] = c
    BY <1>2
  <2>2. PICK i \in DOMAIN f.clusters : f.clusters[i] = c
    BY <2>1
  <2>3. Successor(c) = IF i = Len(f.clusters) THEN 4095 ELSE f.clusters[i + 1]
    BY <2>2, SuccessorInChain
  <2>4. f.clusters \in Seq(Nat) /\ \A j \in DOMAIN f.clusters : f.clusters[j] <= 2848
    BY FileFacts
  <2>5. i # Len(f.clusters) => i + 1 \in DOMAIN f.clusters
    BY <2>4
  <2>6. i # Len(f.clusters) => f.clusters[i + 1] \in Nat /\ f.clusters[i + 1] <= 2848
    BY <2>4, <2>5
  <2>7. QED  BY <2>3, <2>6
<1>3. QED  BY <1>1, <1>2

\* Three nibbles of a number, and the word with one more before or after them.
LEMMA Digits ==
    ASSUME NEW e \in Nat, e <= 4095
    PROVE  /\ (e \div 1) % 16 \in 0..15 /\ (e \div 16) % 16 \in 0..15 /\ (e \div 256) % 16 \in 0..15
           /\ e = ((e \div 1) % 16) + (16 * ((e \div 16) % 16)) + (256 * ((e \div 256) % 16))
OBVIOUS

LEMMA WordOfEntry ==
    ASSUME NEW e \in Nat, e <= 4095, NEW n \in 0..15
    PROVE  (e + (4096 * n)) % 4096 = e /\ (n + (16 * e)) \div 16 = e
OBVIOUS

\* The nibbles of an entry.
LEMMA Nibbles ==
    ASSUME image \in Images, NEW c \in Nat
    PROVE  Successor(c) = Nibble(3 * c) + (16 * Nibble(3 * c + 1)) + (256 * Nibble(3 * c + 2))
<1> DEFINE s == Successor(c)
<1>1. s \in Nat /\ s <= 4095
  BY SuccessorType
<1>2. /\ (3 * c) \div 3 = c /\ (3 * c) % 3 = 0
      /\ (3 * c + 1) \div 3 = c /\ (3 * c + 1) % 3 = 1
      /\ (3 * c + 2) \div 3 = c /\ (3 * c + 2) % 3 = 2
  OBVIOUS
<1>3. 16^0 = 1 /\ 16^1 = 16 /\ 16^2 = 256
  OBVIOUS
<1>4. /\ Nibble(3 * c) = (s \div 1) % 16
      /\ Nibble(3 * c + 1) = (s \div 16) % 16
      /\ Nibble(3 * c + 2) = (s \div 256) % 16
  BY <1>2, <1>3, ZenonT(60) DEF Nibble
<1> HIDE DEF s
<1>5. s = ((s \div 1) % 16) + (16 * ((s \div 16) % 16)) + (256 * ((s \div 256) % 16))
  BY <1>1, Digits
<1>6. QED  BY <1>4, <1>5, Zenon DEF s

LEMMA NibbleRange ==
    ASSUME image \in Images, NEW j \in Nat
    PROVE  Nibble(j) \in 0..15
<1> DEFINE s == Successor(j \div 3)
<1>1. s \in Nat /\ s <= 4095
  BY SuccessorType
<1>2. 16^0 = 1 /\ 16^1 = 16 /\ 16^2 = 256
  OBVIOUS
<1>3. j % 3 = 0 \/ j % 3 = 1 \/ j % 3 = 2
  OBVIOUS
<1>4. Nibble(j) = (s \div 1) % 16 \/ Nibble(j) = (s \div 16) % 16 \/ Nibble(j) = (s \div 256) % 16
  BY <1>2, <1>3, ZenonT(60) DEF Nibble
<1> HIDE DEF s
<1>5. (s \div 1) % 16 \in 0..15 /\ (s \div 16) % 16 \in 0..15 /\ (s \div 256) % 16 \in 0..15
  BY <1>1, Digits
<1>6. QED  BY <1>4, <1>5

\* What both stages make of a word of the table: the entry itself.
LEMMA EntryDecoded ==
    ASSUME image \in Images, NEW c \in Nat, NEW a, Holds(a, FatStart)
    PROVE  LET word == FatWord(a, (c * 3) \div 2)
           IN /\ c % 2 = 0 => word % 4096 = Successor(c)
              /\ c % 2 # 0 => word \div 16 = Successor(c)
<1> DEFINE k == (c * 3) \div 2
           word == FatWord(a, k)
<1>1. word = Nibble(2 * k) + (16 * Nibble(2 * k + 1)) + (256 * Nibble(2 * k + 2))
               + (4096 * Nibble(2 * k + 3))
  BY DEF FatWord, Holds, FatStart
<1>2. k \in Nat /\ 2 * k \in Nat /\ 2 * k + 3 \in Nat
  OBVIOUS
<1>3. Successor(c) = Nibble(3 * c) + (16 * Nibble(3 * c + 1)) + (256 * Nibble(3 * c + 2))
  BY Nibbles
<1>4. Successor(c) \in Nat /\ Successor(c) <= 4095
  BY SuccessorType
<1>5. CASE c % 2 = 0
  <2>1. 2 * k = 3 * c /\ 2 * k + 1 = 3 * c + 1 /\ 2 * k + 2 = 3 * c + 2
    BY <1>5
  <2>2. Nibble(2 * k + 3) \in 0..15
    BY <1>2, NibbleRange
  <2>3. word = Successor(c) + (4096 * Nibble(2 * k + 3))
    BY <1>1, <1>3, <2>1
  <2> HIDE DEF word
  <2>4. word % 4096 = Successor(c)
    <3>1. (Successor(c) + (4096 * Nibble(2 * k + 3))) % 4096 = Successor(c)
      BY <1>4, <2>2, WordOfEntry
    <3>2. QED  BY <2>3, <3>1
  <2>5. QED  BY <1>5, <2>4 DEF word
<1>6. CASE c % 2 # 0
  <2>1. 2 * k + 1 = 3 * c /\ 2 * k + 2 = 3 * c + 1 /\ 2 * k + 3 = 3 * c + 2
    BY <1>6
  <2>2. /\ Nibble(2 * k) \in 0..15 /\ Nibble(3 * c) \in 0..15
        /\ Nibble(3 * c + 1) \in 0..15 /\ Nibble(3 * c + 2) \in 0..15
    BY <1>2, NibbleRange
  <2>3. word = Nibble(2 * k) + (16 * Nibble(3 * c)) + (256 * Nibble(3 * c + 1))
                 + (4096 * Nibble(3 * c + 2))
    BY <1>1, <2>1
  <2> HIDE DEF word
  <2>4. word = Nibble(2 * k) + (16 * Successor(c))
    BY <1>3, <2>2, <2>3, SMTT(60)
  <2>5. word \div 16 = Successor(c)
    <3>1. (Nibble(2 * k) + (16 * Successor(c))) \div 16 = Successor(c)
      BY <1>4, <2>2, WordOfEntry
    <3>2. QED  BY <2>4, <3>1
  <2>6. QED  BY <1>6, <2>5 DEF word
<1>7. QED  BY <1>5, <1>6

LEMMA NextInChainRight ==
    ASSUME image \in Images, NEW c \in Nat, Holds(Buffer, FatStart)
    PROVE  NextInChain(c) = Successor(c)
<1>1. (c * 3) % 2 = c % 2
  OBVIOUS
<1>2. QED  BY <1>1, EntryDecoded DEF NextInChain, EntryByte

LEMMA NextClusterRight ==
    ASSUME image \in Images, NEW c \in Nat, Holds(FatAt, FatStart)
    PROVE  NextCluster(c) = Successor(c)
BY EntryDecoded DEF NextCluster
-----------------------------------------------------------------------------
(* The first stage.                                                         *)

\* The floppy stays in the drive.
LEMMA SameImage ==
    ASSUME image' = image
    PROVE  /\ Stage2File' = Stage2File /\ Chain' = Chain /\ Kernel' = Kernel
           /\ \A f, name : Found(f, name)' <=> Found(f, name)
BY DEF Stage2File, Chain, Kernel, FileNamed, Found

\* What a read of the BIOS leaves in memory.
LEMMA Stored ==
    ASSUME NEW a \in Nat, NEW lba, NEW n \in Nat, mem' = Store(a, lba, n)
    PROVE  /\ \A i \in 0..(n - 1) : a + 512 * i \in DOMAIN mem' /\ mem'[a + 512 * i] = lba + i
           /\ \A p \in Nat : p \in DOMAIN mem /\ (p < a \/ p >= a + 512 * n) =>
                 p \in DOMAIN mem' /\ mem'[p] = mem[p]
<1> DEFINE places == {a + Bpb.bytesPerSector * i : i \in 0..(n - 1)}
<1>1. Bpb.bytesPerSector = 512
  BY DEF Bpb
<1>2. mem' = [p \in places \union DOMAIN mem |->
                IF p \in places THEN lba + ((p - a) \div 512) ELSE mem[p]]
  BY <1>1 DEF Store
<1>3. ASSUME NEW i \in 0..(n - 1)
      PROVE  a + 512 * i \in DOMAIN mem' /\ mem'[a + 512 * i] = lba + i
  <2>1. a + 512 * i \in places
    BY <1>1
  <2>2. ((a + 512 * i) - a) \div 512 = i
    OBVIOUS
  <2> HIDE DEF places
  <2>3. QED  BY <1>2, <2>1, <2>2
<1>4. ASSUME NEW p \in Nat, p \in DOMAIN mem, p < a \/ p >= a + 512 * n
      PROVE  p \in DOMAIN mem' /\ mem'[p] = mem[p]
  <2>1. p \notin places
    BY <1>1, <1>4
  <2> HIDE DEF places
  <2>2. QED  BY <1>2, <1>4, <2>1
<1>5. QED  BY <1>3, <1>4

\* STAGE2.BIN, if it is there, has at least one cluster and fits.
LEMMA ChainFits ==
    ASSUME TypeOK, Found(Stage2File, file_stage2_bin)
    PROVE  /\ Chain \in Seq(Nat) /\ DOMAIN Chain = 1..Len(Chain)
           /\ Len(Chain) >= 1 /\ Len(Chain) <= 59
           /\ \A i \in DOMAIN Chain : 2 <= Chain[i] /\ Chain[i] <= 2848
<1>1. Stage2File \in image.files /\ Stage2File.name = file_stage2_bin
  BY DEF Found
<1>2. Chain \in Seq(Nat) /\ \A i \in DOMAIN Chain : 2 <= Chain[i] /\ Chain[i] <= 2848
  BY <1>1, FileFacts DEF Chain, TypeOK
<1>3. Len(Chain) \in 1..((StackTop - S2LoadOffset - 1) \div Bpb.bytesPerSector)
  BY <1>1, ProgramsAssumption DEF Chain, TypeOK
<1>4. (StackTop - S2LoadOffset - 1) \div Bpb.bytesPerSector = 59
  BY DEF StackTop, S2LoadOffset, Bpb
<1>5. QED  BY <1>2, <1>3, <1>4

\* The first stage asks for a sector of the disk.
LEMMA Request1InDisk ==
    ASSUME TypeOK, Control, FirstStage, pc \in {"try1", "reset1"}
    PROVE  req.lba \in 0..(ImageSectors - 1) /\ req.at \in Nat /\ req.count \in Nat
<1>1. ret \in {"search", "load", "next"}
  BY DEF Control, Returns1
<1>2. CASE ret = "search"
  BY <1>2 DEF FirstStage, AskedFor, RootStart, Buffer, ImageSectors
<1>3. CASE ret = "load"
  BY <1>3 DEF FirstStage, AskedFor, FatStart, Buffer, ImageSectors
<1>4. CASE ret = "next"
  <2>1. PICK k \in DOMAIN Chain : Loading(k)
    BY <1>4 DEF FirstStage
  <2>2. Stage2File \in image.files /\ AskedFor(SectorOf(cluster), 1, bx)
    BY <1>4 DEF FirstStage, Found
  <2>3. Chain \in Seq(Nat) /\ \A i \in DOMAIN Chain : 2 <= Chain[i] /\ Chain[i] <= 2848
    BY <2>2, FileFacts DEF Chain, TypeOK
  <2>4. cluster \in Nat /\ 2 <= cluster /\ cluster <= 2848 /\ k \in Nat /\ k >= 1
    BY <2>1, <2>3 DEF Loading
  <2>5. bx \in Nat
    BY <2>1, <2>4 DEF Loading, Place, S2LoadOffset
  <2>6. QED  BY <2>2, <2>4, <2>5 DEF AskedFor, SectorOf, DataStart, ImageSectors
<1>5. QED  BY <1>1, <1>2, <1>3, <1>4

\* A try either reads what was asked for or meets a failure of the BIOS.
LEMMA TrySector1Does ==
    ASSUME TypeOK, Control, FirstStage, TrySector1
    PROVE  /\ image' = image /\ UNCHANGED <<ret, req, tries, bad, geo, cluster, bx, resetBad>>
           /\ \/ mem' = Store(req.at, req.lba, req.count) /\ pc' = ret /\ faults' = faults
              \/ mem' = mem /\ pc' = "reset1" /\ faults' = faults - 1 /\ faults > 0
<1>1. req.lba \in 0..(ImageSectors - 1)
  BY Request1InDisk DEF TrySector1
<1>2. geo.sectors = Geometry[BootDrive].sectors /\ geo.heads = Geometry[BootDrive].heads
  BY DEF TrySector1, FirstStage
<1>3. /\ Addressable(BootDrive, Chs(req.lba).ch, Chs(req.lba).cl, Chs(req.lba).dh)
      /\ LbaOf(BootDrive, Chs(req.lba).ch, Chs(req.lba).cl, Chs(req.lba).dh) = req.lba
  BY <1>1, <1>2, ChsRight
<1>4. QED  BY <1>3, Zenon DEF TrySector1, BiosReads, BiosFails, BiosRefuses

\* The first stage hands over once; the second never comes back.
LEMMA FirstLabels ==
    Control /\ Next1 => pc \in Labels1 /\ pc' \in Labels1 \union {"entry"}
BY DEF Next1, Control, Labels1, Returns1, ReadParams, TrySector1, Reset1, Search, LoadCluster,
    NextLink, WaitKeyAndReboot

LEMMA SecondLabels ==
    Control /\ Next2 => pc \notin Labels1 /\ pc' \notin Labels1 \union {"entry"}
<1> SUFFICES ASSUME Control, Next2 PROVE pc \notin Labels1 /\ pc' \notin Labels1 \union {"entry"}
    OBVIOUS
<1> USE DEF Labels1
<1>1. CASE Entry
    BY <1>1 DEF Entry, entryVars, fileVars
<1>2. CASE StepA20
    BY <1>2 DEF StepA20, fileVars
<1>3. CASE Controller
    BY <1>3 DEF Controller, fileVars
<1>4. CASE KeyPressed
    BY <1>4 DEF KeyPressed, fileVars
<1>5. CASE Start
    BY <1>5 DEF Start, entryVars, fileVars
<1>6. CASE Enter16Bit
    BY <1>6 DEF Enter16Bit, entryVars, fileVars
<1>7. CASE LeaveProtected
    BY <1>7 DEF LeaveProtected, entryVars, fileVars
<1>8. CASE Sti
    BY <1>8 DEF Sti, entryVars, fileVars
<1>9. CASE Int13
    BY <1>9 DEF Int13, entryVars, fileVars
<1>10. CASE Cli
    BY <1>10 DEF Cli, entryVars, fileVars
<1>11. CASE EnterProtected
    BY <1>11 DEF EnterProtected, entryVars, fileVars, Control, Returns2, BiosLabels,
      Asking
<1>12. CASE DiskInitialized
    BY <1>12 DEF DiskInitialized, diskUnchanged, entryVars, fileVars, Request
<1>13. CASE DiskTry
    BY <1>13 DEF DiskTry, diskUnchanged, entryVars, fileVars, CallBios
<1>14. CASE DiskTried
    BY <1>14 DEF DiskTried, diskUnchanged, entryVars, fileVars, CallBios, Control,
      Returns2, BiosLabels, Asking
<1>15. CASE DiskReset
    BY <1>15 DEF DiskReset, diskUnchanged, entryVars, fileVars, Control, Returns2,
      BiosLabels, Asking
<1>16. CASE BootSectorRead
    BY <1>16 DEF BootSectorRead, diskUnchanged, entryVars, fileVars, ReadSectors, Request
<1>17. CASE FatRead
    BY <1>17 DEF FatRead, diskUnchanged, entryVars, ReadSectors, Request
<1>18. CASE RootRead
    BY <1>18 DEF RootRead, diskUnchanged, entryVars, fileVars
<1>19. CASE FindFile
    BY <1>19 DEF FindFile, diskUnchanged, entryVars, OpenEntry, ReadSectors, Request
<1>20. CASE CompareLast
    BY <1>20 DEF CompareLast, diskUnchanged, entryVars, OpenEntry, ReadSectors, Request
<1>21. CASE Opened
    BY <1>21 DEF Opened, diskUnchanged, entryVars
<1>22. CASE ReadBegins
    BY <1>22 DEF ReadBegins, diskUnchanged, entryVars
<1>23. CASE ReadTurn
    BY <1>23 DEF ReadTurn, diskUnchanged, entryVars, ReadSectors, Request
<1>24. CASE NextSector
    BY <1>24 DEF NextSector, diskUnchanged, entryVars, fileVars
<1>25. CASE ReadReturns
    BY <1>25 DEF ReadReturns, diskUnchanged, entryVars, fileVars
<1>26. CASE CopyKernel
    BY <1>26 DEF CopyKernel, diskUnchanged, entryVars
<1>27. QED  BY <1>1, <1>2, <1>3, <1>4, <1>5, <1>6, <1>7, <1>8, <1>9, <1>10, <1>11, <1>12, <1>13,
      <1>14, <1>15, <1>16, <1>17, <1>18, <1>19, <1>20, <1>21, <1>22, <1>23, <1>24, <1>25, <1>26 DEF
      Next2

LEMMA FirstStageInit == Init => FirstStage
BY DEF Init, Init1, FirstStage, Stage2Whole

\* A sector read into its place, and what was there before.
LEMMA TryKeepsFirstStage ==
    ASSUME TypeOK, Control, FirstStage, TrySector1
    PROVE  FirstStage'
<1>1. /\ image' = image /\ UNCHANGED <<ret, req, tries, bad, geo, cluster, bx, resetBad>>
      /\ \/ mem' = Store(req.at, req.lba, req.count) /\ pc' = ret
         \/ mem' = mem /\ pc' = "reset1"
  BY TrySector1Does
<1>2. Stage2File' = Stage2File /\ Chain' = Chain /\ \A f, name : Found(f, name)' <=> Found(f, name)
  BY <1>1, SameImage
<1>3. pc = "try1" /\ ret \in Returns1
  BY DEF TrySector1, Control
<1>4. CASE mem' = mem /\ pc' = "reset1"
  <2>1. \A k : Loading(k)' <=> Loading(k)
    BY <1>1, <1>2, <1>4 DEF Loading, Holds
  <2>2. QED  BY <1>1, <1>2, <1>3, <1>4, <2>1 DEF FirstStage, AskedFor, Holds, Returns1, Stage2Whole
<1>5. CASE mem' = Store(req.at, req.lba, req.count) /\ pc' = ret
  <2>1. req.at \in Nat /\ req.count \in Nat
    BY <1>3, Request1InDisk
  <2>2. \A i \in 0..(req.count - 1) : /\ req.at + 512 * i \in DOMAIN mem'
                                        /\ mem'[req.at + 512 * i] = req.lba + i
    BY <1>5, <2>1, Stored
  <2>3. \A p \in Nat : \A x : Holds(p, x) /\ (p < req.at \/ p >= req.at + 512 * req.count) => Holds(p, x)'
    BY <1>5, <2>1, Stored DEF Holds
  <2>4. CASE ret = "search"
    <3>1. AskedFor(RootStart, 14, Buffer)
      BY <1>3, <2>4 DEF FirstStage
    <3>2. \A i \in 0..13 : Holds(Buffer + 512 * i, RootStart + i)'
      BY <2>2, <3>1 DEF AskedFor, Holds
    <3>3. QED  BY <1>1, <1>3, <1>5, <2>4, <3>2 DEF FirstStage, Stage2Whole
  <2>5. CASE ret = "load"
    <3>1. AskedFor(FatStart, 9, Buffer) /\ Found(Stage2File, file_stage2_bin) /\ Loading(1)
      BY <1>3, <2>5 DEF FirstStage
    <3>2. Holds(Buffer, FatStart)'
      BY <2>2, <3>1 DEF AskedFor, Holds, FatStart, Buffer
    <3>3. 1 \in DOMAIN Chain /\ Loading(1)'
      BY <1>1, <1>2, <3>1 DEF Loading
    <3>4. QED  BY <1>1, <1>2, <1>3, <1>5, <2>5, <3>1, <3>2, <3>3 DEF FirstStage, Stage2Whole
  <2>6. CASE ret = "next"
    <3>1. PICK k \in DOMAIN Chain : Loading(k)
      BY <1>3, <2>6 DEF FirstStage
    <3>2. /\ AskedFor(SectorOf(cluster), 1, bx) /\ Holds(Buffer, FatStart)
          /\ Found(Stage2File, file_stage2_bin)
      BY <1>3, <2>6 DEF FirstStage
    <3>3. bx = Place(k) /\ k \in Nat /\ k >= 1 /\ k <= 59
      BY <3>1, <3>2, ChainFits DEF Loading
    <3>4. Holds(bx, SectorOf(cluster))'
      <4>1. req.at + 512 * 0 = bx /\ req.lba + 0 = SectorOf(cluster) /\ 0 \in 0..(req.count - 1)
        <5>1. SectorOf(cluster) \in Int /\ bx \in Int
          BY <1>3, Request1InDisk, <3>2 DEF AskedFor
        <5>2. QED  BY <3>2, <5>1 DEF AskedFor
      <4>2. bx \in DOMAIN mem' /\ mem'[bx] = SectorOf(cluster)
        BY <2>2, <4>1
      <4>3. QED  BY <1>1, <4>2 DEF Holds, SectorOf
    <3>5. Holds(Buffer, FatStart)'
      BY <2>3, <3>2, <3>3 DEF AskedFor, Place, S2LoadOffset, Buffer
    <3>6. \A i \in 1..(k - 1) : Holds(Place(i), SectorOf(Chain[i]))'
      <4>1. \A i \in 1..(k - 1) : Place(i) \in Nat /\ Place(i) < bx
        BY <3>3 DEF Place, S2LoadOffset
      <4>2. QED  BY <1>2, <2>3, <3>1, <3>2, <4>1 DEF AskedFor, Loading
    <3>7. Loading(k)'
      BY <1>1, <1>2, <3>1, <3>6 DEF Loading
    <3>8. QED  BY <1>1, <1>2, <1>3, <1>5, <2>6, <3>1, <3>2, <3>4, <3>5, <3>7
               DEF FirstStage, Stage2Whole
  <2>7. QED  BY <1>3, <2>4, <2>5, <2>6 DEF Returns1
<1>6. QED  BY <1>1, <1>4, <1>5

\* The root directory is asked for.
LEMMA ReadParamsFirstStage ==
    ASSUME FirstStage, ReadParams
    PROVE  FirstStage'
<1>1. RootDirLba = RootStart /\ RootDirSize = 14
  BY DEF RootDirLba, RootDirSize, RootStart, Bpb, EntrySize
<1>2. \/ /\ geo' = [sectors |-> Geometry[BootDrive].sectors, heads |-> Geometry[BootDrive].heads]
         /\ req' = [lba |-> RootStart, count |-> 14, at |-> Buffer]
         /\ ret' = "search" /\ pc' = "try1"
      \/ pc' = "floppy_error"
  BY <1>1 DEF ReadParams, Request
<1>3. Buffer' = Buffer /\ RootStart' = RootStart
  BY DEF Buffer, RootStart
<1>4. QED  BY <1>2, <1>3 DEF FirstStage, AskedFor, Stage2Whole

\* The search finds the entry of STAGE2.BIN or none.
LEMMA SearchFirstStage ==
    ASSUME TypeOK, FirstStage, Search
    PROVE  FirstStage'
<1>1. image' = image /\ geo' = geo /\ pc = "search"
  BY DEF Search
<1>2. Stage2File' = Stage2File /\ Chain' = Chain /\ \A f, name : Found(f, name)' <=> Found(f, name)
  BY <1>1, SameImage
<1>3. CASE pc' = "stage2_not_found_error"
  BY <1>3 DEF FirstStage, Stage2Whole
<1>4. ASSUME NEW i \in Stage2Entries,
             cluster' = RootEntry(i).clusters[1],
             Request(Bpb.reservedSectors, Bpb.sectorsPerFat, Buffer, "load"),
             bx' = S2LoadOffset, pc' = "try1"
      PROVE  FirstStage'
  <2>1. RootEntry(i).name = file_stage2_bin
    BY DEF Stage2Entries
  <2>2. RootEntry(i) \in image.files
    <3>1. file_stage2_bin # <<>>
      BY DEF file_stage2_bin
    <3>2. RootEntry(i).name # <<>>
      BY <2>1, <3>1, Zenon
    <3> HIDE DEF file_stage2_bin
    <3>3. QED  BY <3>2, EntryIsFile DEF RootEntry
  <2>3. Stage2File = RootEntry(i)
    BY <2>1, <2>2, NamedFile DEF TypeOK, Stage2File
  <2>4. Found(Stage2File, file_stage2_bin)
    BY <2>1, <2>2, <2>3 DEF Found
  <2>5. Len(Chain) >= 1 /\ DOMAIN Chain = 1..Len(Chain) /\ Chain \in Seq(Nat)
    BY <2>4, ChainFits
  <2>6. 1 \in DOMAIN Chain
    BY <2>5
  <2>7. cluster' = Chain[1] /\ bx' = Place(1)
    BY <1>4, <2>3 DEF Chain, Place, S2LoadOffset
  <2>8. Loading(1)'
    BY <1>2, <2>6, <2>7 DEF Loading, Place
  <2>9. ret' = "load" /\ AskedFor(FatStart, 9, Buffer)'
    BY <1>4 DEF Request, AskedFor, Bpb, FatStart, Buffer
  <2>10. QED  BY <1>1, <1>2, <1>4, <2>4, <2>8, <2>9 DEF FirstStage, Stage2Whole
<1>5. QED  BY <1>3, <1>4 DEF Search

\* The sector of the cluster is asked for.
LEMMA LoadClusterFirstStage ==
    ASSUME TypeOK, FirstStage, LoadCluster
    PROVE  FirstStage'
<1>1. /\ UNCHANGED <<image, mem, geo, cluster, bx>> /\ pc = "load" /\ pc' = "try1"
      /\ req' = [lba |-> cluster + 31, count |-> 1, at |-> bx] /\ ret' = "next"
  BY DEF LoadCluster, Request
<1>2. Stage2File' = Stage2File /\ Chain' = Chain /\ \A f, name : Found(f, name)' <=> Found(f, name)
  BY <1>1, SameImage
<1>3. \A k : Loading(k)' <=> Loading(k)
  BY <1>1, <1>2 DEF Loading, Holds
<1>4. PICK k \in DOMAIN Chain : Loading(k)
  BY <1>1 DEF FirstStage
<1>5. Found(Stage2File, file_stage2_bin) /\ Holds(Buffer, FatStart)
  BY <1>1 DEF FirstStage
<1>6. cluster \in Nat
  BY <1>4, <1>5, ChainFits DEF Loading
<1>7. SectorOf(cluster) = cluster + 31
  BY <1>6 DEF SectorOf, DataStart
<1>8. QED  BY <1>1, <1>2, <1>3, <1>4, <1>5, <1>7 DEF FirstStage, AskedFor, Holds, Stage2Whole, SectorOf

\* A failure is counted.
LEMMA Reset1FirstStage ==
    ASSUME Control, FirstStage, Reset1
    PROVE  FirstStage'
<1>1. /\ UNCHANGED <<image, mem, ret, req, geo, cluster, bx>> /\ pc = "reset1"
      /\ pc' \in {"try1", "floppy_error"}
  BY DEF Reset1
<1>2. Stage2File' = Stage2File /\ Chain' = Chain /\ \A f, name : Found(f, name)' <=> Found(f, name)
  BY <1>1, SameImage
<1>3. \A k : Loading(k)' <=> Loading(k)
  BY <1>1, <1>2 DEF Loading, Holds
<1>4. QED  BY <1>1, <1>2, <1>3 DEF FirstStage, AskedFor, Holds, Stage2Whole

\* The sector is in its place: the next one, or the jump to the second stage.
LEMMA NextLinkFirstStage ==
    ASSUME TypeOK, FirstStage, NextLink
    PROVE  FirstStage'
<1>1. /\ UNCHANGED <<image, mem, geo>> /\ pc = "next"
      /\ bx' = (bx + Bpb.bytesPerSector) % 65536
      /\ \/ NextInChain(cluster) >= EndOfChain /\ pc' = "entry" /\ cluster' = cluster
         \/ NextInChain(cluster) < EndOfChain /\ pc' = "load" /\ cluster' = NextInChain(cluster)
  BY DEF NextLink
<1>2. Stage2File' = Stage2File /\ Chain' = Chain /\ \A f, name : Found(f, name)' <=> Found(f, name)
  BY <1>1, SameImage
<1>3. PICK k \in DOMAIN Chain : Loading(k)
  BY <1>1 DEF FirstStage
<1>4. /\ Found(Stage2File, file_stage2_bin) /\ Holds(Buffer, FatStart)
      /\ Holds(bx, SectorOf(cluster))
  BY <1>1 DEF FirstStage
<1>5. /\ DOMAIN Chain = 1..Len(Chain) /\ Len(Chain) \in Nat /\ Len(Chain) <= 59
      /\ \A i \in DOMAIN Chain : Chain[i] \in Nat /\ Chain[i] <= 2848
  BY <1>4, ChainFits
<1>6. k \in Nat /\ k >= 1 /\ k <= Len(Chain)
  BY <1>3, <1>5
<1>7. bx' = Place(k + 1)
  <2>1. bx = 1280 + 512 * (k - 1)
    BY <1>3 DEF Loading, Place, S2LoadOffset
  <2>2. bx' = (bx + 512) % 65536
    BY <1>1 DEF Bpb
  <2>3. Place(k + 1) = 1280 + 512 * k
    BY <1>6 DEF Place, S2LoadOffset
  <2>4. bx + 512 = 1280 + 512 * k /\ bx + 512 \in Nat /\ bx + 512 < 65536
    BY <1>5, <1>6, <2>1
  <2>5. \A n \in Nat : n < 65536 => n % 65536 = n
    OBVIOUS
  <2>6. QED  BY <2>2, <2>3, <2>4, <2>5
<1>8. \A i \in 1..k : Holds(Place(i), SectorOf(Chain[i]))
  <2>1. \A i \in 1..k : i = k \/ i \in 1..(k - 1)
    BY <1>6
  <2>2. QED  BY <1>3, <1>4, <2>1 DEF Loading
<1>9. NextInChain(cluster) = IF k = Len(Chain) THEN 4095 ELSE Chain[k + 1]
  <2>1. NextInChain(cluster) = Successor(cluster)
    BY <1>3, <1>4, <1>5, NextInChainRight DEF Loading, TypeOK
  <2>2. Successor(Chain[k]) = IF k = Len(Chain) THEN 4095 ELSE Chain[k + 1]
    BY <1>3, <1>4, SuccessorInChain DEF Chain, Found, TypeOK
  <2>3. QED  BY <1>3, <2>1, <2>2 DEF Loading
<1>10. CASE k = Len(Chain)
  <2>1. pc' = "entry"
    BY <1>1, <1>9, <1>10 DEF EndOfChain
  <2>2. bx' = S2LoadOffset + 512 * Len(Chain) /\ bx' < StackTop
    BY <1>5, <1>7, <1>10 DEF Place, S2LoadOffset, StackTop
  <2>3. \A i \in DOMAIN Chain : Holds(Place(i), SectorOf(Chain[i]))
    BY <1>5, <1>8, <1>10
  <2>4. Stage2Whole'
    <3>1. \A i \in DOMAIN Chain : mem'[S2LoadOffset + 512 * (i - 1)] = SectorOf(Chain[i])
      BY <1>1, <2>3 DEF Holds, Place
    <3>2. FileNamed(file_stage2_bin).clusters' = Chain
      BY <1>2 DEF Chain, Stage2File
    <3>3. QED  BY <2>2, <3>1, <3>2 DEF Stage2Whole, SectorOf, S2LoadOffset, StackTop, DataStart
  <2>5. QED  BY <1>1, <2>1, <2>4 DEF FirstStage
<1>11. CASE k # Len(Chain)
  <2>1. k + 1 \in DOMAIN Chain
    BY <1>5, <1>6, <1>11
  <2>2. pc' = "load" /\ cluster' = Chain[k + 1]
    BY <1>1, <1>5, <1>9, <1>11, <2>1 DEF EndOfChain
  <2>3. (k + 1) - 1 = k
    BY <1>6
  <2>4. Loading(k + 1)'
    BY <1>1, <1>2, <1>7, <1>8, <2>1, <2>2, <2>3 DEF Loading, Holds, Place
  <2>5. Holds(Buffer, FatStart)'
    BY <1>1, <1>4 DEF Holds, Buffer, FatStart
  <2>6. QED  BY <1>1, <1>2, <1>4, <2>1, <2>2, <2>4, <2>5 DEF FirstStage, Stage2Whole
<1>12. QED  BY <1>10, <1>11

LEMMA FirstStageStep == TypeOK /\ Control /\ FirstStage /\ [Next]_vars => FirstStage'
<1> SUFFICES ASSUME TypeOK, Control, FirstStage, [Next]_vars PROVE FirstStage'
    OBVIOUS
<1>1. CASE Next1
  <2>1. CASE WaitKeyAndReboot
    <3>1. pc' = "reboot"
      BY <2>1 DEF WaitKeyAndReboot
    <3>2. QED  BY <3>1 DEF FirstStage, Stage2Whole
  <2>2. QED  BY <1>1, <2>1, ReadParamsFirstStage, TryKeepsFirstStage, Reset1FirstStage, SearchFirstStage,
              LoadClusterFirstStage, NextLinkFirstStage DEF Next1
<1>2. CASE Next2
  <2>1. pc' \notin Labels1 \union {"entry"}
    BY <1>2, SecondLabels
  <2>2. QED  BY <2>1 DEF FirstStage, Stage2Whole, Labels1
<1>3. CASE UNCHANGED vars
  <2>1. UNCHANGED <<image, mem, pc, ret, req, geo, cluster, bx>>
    BY <1>3 DEF vars, bootVars, stage1Vars
  <2>2. Stage2File' = Stage2File /\ Chain' = Chain /\ \A f, name : Found(f, name)' <=> Found(f, name)
    BY <2>1, SameImage
  <2>3. \A k : Loading(k)' <=> Loading(k)
    BY <2>1, <2>2 DEF Loading, Holds
  <2>4. Stage2Whole'
    BY <2>1 DEF FirstStage, Stage2Whole, FileNamed
  <2>5. QED  BY <2>1, <2>2, <2>3, <2>4 DEF FirstStage, AskedFor, Holds
<1>4. QED  BY <1>1, <1>2, <1>3 DEF Next, Stopped
-----------------------------------------------------------------------------
(* The faults of the first stage.                                           *)

\* If no entry is the file's, the file is not there.
LEMMA SearchFinds ==
    ASSUME TypeOK, FirstStage, pc = "search", Stage2Entries = {}
    PROVE  Stage2File = NoFile
<1>1. SUFFICES ASSUME Stage2File # NoFile PROVE FALSE
  OBVIOUS
<1> DEFINE f == Stage2File
           n == f.slot \div 16
           i == f.slot % 16
<1>2. f \in image.files /\ f.name = file_stage2_bin
  BY <1>1, FileNamedFound DEF Stage2File
<1> HIDE DEF f
<1>3. f.slot \in Nat /\ f.slot < 224
  BY <1>2, FileFacts DEF TypeOK
<1>4. n \in 0..13 /\ i \in 0..15 /\ f.slot = 16 * n + i
  <2>1. \A m \in Nat : m < 224 => m \div 16 \in 0..13 /\ m % 16 \in 0..15 /\ m = 16 * (m \div 16) + (m % 16)
    OBVIOUS
  <2>2. QED  BY <1>3, <2>1
<1>5. Holds(Buffer + 512 * n, RootStart + n)
  BY <1>4 DEF FirstStage
<1>6. RootEntry(f.slot) = EntryAt(Buffer + 512 * n, i)
  BY DEF RootEntry, Bpb, EntriesPerSector, EntrySize
<1> HIDE DEF n, i
<1>7. EntryAt(Buffer + 512 * n, i) = f
  <2> DEFINE a == Buffer + 512 * n
  <2>1. n \in Nat /\ image \in Images
    BY <1>4 DEF TypeOK
  <2>2. Holds(a, RootStart + n)
    BY <1>5
  <2>3. f \in image.files /\ i \in 0..15 /\ f.slot = 16 * n + i
    BY <1>2, <1>4
  <2> HIDE DEF a
  <2>4. EntryAt(a, i) = f
    BY <2>1, <2>2, <2>3, EntryOfSlot, ZenonT(60)
  <2>5. QED  BY <2>4 DEF a
<1>8. f.slot \in 0..(Bpb.dirEntryCount - 1)
  BY <1>3 DEF Bpb
<1>9. QED  BY <1>2, <1>6, <1>7, <1>8 DEF Stage2Entries

LEMMA FirstFaultsInit == Init => FirstFaults
BY DEF Init, DiskInit, Init1, FirstFaults

\* What the steps before protected mode leave as it is.
LEMMA BeforeKept ==
    Control /\ Next2 /\ pc' \in Before =>
        /\ pc \in {"entry", "a20"} /\ pc' \in {"a20", "pmode", "reset"}
        /\ UNCHANGED <<image, faults, mem, ret, req, tries, bad, bios, disk, ok, fileVars>>
<1> SUFFICES ASSUME Control, Next2, pc' \in Before
             PROVE  /\ pc \in {"entry", "a20"} /\ pc' \in {"a20", "pmode", "reset"}
                    /\ UNCHANGED <<image, faults, mem, ret, req, tries, bad, bios, disk, ok, fileVars>>
    OBVIOUS
<1> USE DEF Before, Labels1
<1>1. CASE Entry
    BY <1>1 DEF Entry, entryVars, fileVars
<1>2. CASE StepA20
    BY <1>2 DEF StepA20, fileVars
<1>3. CASE Controller
    BY <1>3 DEF Controller, fileVars
<1>4. CASE KeyPressed
    BY <1>4 DEF KeyPressed, fileVars
<1>5. CASE Start
    BY <1>5 DEF Start, entryVars, fileVars
<1>6. CASE Enter16Bit
    BY <1>6 DEF Enter16Bit, entryVars, fileVars
<1>7. CASE LeaveProtected
    BY <1>7 DEF LeaveProtected, entryVars, fileVars
<1>8. CASE Sti
    BY <1>8 DEF Sti, entryVars, fileVars
<1>9. CASE Int13
    BY <1>9 DEF Int13, entryVars, fileVars
<1>10. CASE Cli
    BY <1>10 DEF Cli, entryVars, fileVars
<1>11. CASE EnterProtected
    BY <1>11 DEF EnterProtected, entryVars, fileVars, Control, Returns2, BiosLabels,
      Asking
<1>12. CASE DiskInitialized
    BY <1>12 DEF DiskInitialized, diskUnchanged, entryVars, fileVars, Request
<1>13. CASE DiskTry
    BY <1>13 DEF DiskTry, diskUnchanged, entryVars, fileVars, CallBios
<1>14. CASE DiskTried
    BY <1>14 DEF DiskTried, diskUnchanged, entryVars, fileVars, CallBios, Control,
      Returns2, BiosLabels, Asking
<1>15. CASE DiskReset
    BY <1>15 DEF DiskReset, diskUnchanged, entryVars, fileVars, Control, Returns2,
      BiosLabels, Asking
<1>16. CASE BootSectorRead
    BY <1>16 DEF BootSectorRead, diskUnchanged, entryVars, fileVars, ReadSectors, Request
<1>17. CASE FatRead
    BY <1>17 DEF FatRead, diskUnchanged, entryVars, ReadSectors, Request
<1>18. CASE RootRead
    BY <1>18 DEF RootRead, diskUnchanged, entryVars, fileVars
<1>19. CASE FindFile
    BY <1>19 DEF FindFile, diskUnchanged, entryVars, OpenEntry, ReadSectors, Request
<1>20. CASE CompareLast
    BY <1>20 DEF CompareLast, diskUnchanged, entryVars, OpenEntry, ReadSectors, Request
<1>21. CASE Opened
    BY <1>21 DEF Opened, diskUnchanged, entryVars
<1>22. CASE ReadBegins
    BY <1>22 DEF ReadBegins, diskUnchanged, entryVars
<1>23. CASE ReadTurn
    BY <1>23 DEF ReadTurn, diskUnchanged, entryVars, ReadSectors, Request
<1>24. CASE NextSector
    BY <1>24 DEF NextSector, diskUnchanged, entryVars, fileVars
<1>25. CASE ReadReturns
    BY <1>25 DEF ReadReturns, diskUnchanged, entryVars, fileVars
<1>26. CASE CopyKernel
    BY <1>26 DEF CopyKernel, diskUnchanged, entryVars
<1>27. QED  BY <1>1, <1>2, <1>3, <1>4, <1>5, <1>6, <1>7, <1>8, <1>9, <1>10, <1>11, <1>12, <1>13,
      <1>14, <1>15, <1>16, <1>17, <1>18, <1>19, <1>20, <1>21, <1>22, <1>23, <1>24, <1>25, <1>26 DEF
      Next2

LEMMA FirstFaultsStep == TypeOK /\ Control /\ FirstStage /\ FirstFaults /\ [Next]_vars => FirstFaults'
<1> SUFFICES ASSUME TypeOK, Control, FirstStage, FirstFaults, [Next]_vars PROVE FirstFaults'
    OBVIOUS
<1> DEFINE seen == MaxFaults - faults
           seen1 == MaxFaults - faults'
<1>1. /\ FaultsSeen = seen /\ FaultsSeen' = seen1
      /\ faults \in Nat /\ MaxFaults \in Nat /\ faults <= MaxFaults /\ tries \in Nat
  BY GeometryAssumption DEF FaultsSeen, TypeOK
<1>2. Cardinality({}) = 0 /\ \A x : Cardinality({x}) = 1
  BY FS_EmptySet, FS_Singleton
<1> HIDE DEF FirstStage
<1>3. CASE Next1
  <2>1. CASE ReadParams
    <3>1. bad = {} /\ bad' = bad /\ faults = MaxFaults /\ ret = "none"
      BY <2>1 DEF ReadParams, FirstFaults, Before, Labels1
    <3>2. CASE faults' = faults /\ pc' = "try1" /\ tries' = 0
      BY <1>1, <3>1, <3>2 DEF FirstFaults
    <3>3. CASE faults' = faults - 1 /\ pc' = "floppy_error" /\ ret' = ret
      BY <1>1, <1>2, <3>1, <3>3 DEF FirstFaults
    <3>4. QED  BY <2>1, <3>2, <3>3 DEF ReadParams, Request, BiosFails
  <2>2. CASE TrySector1
    <3>1. pc = "try1" /\ ret \in Returns1 /\ bad = {}
      BY <2>2 DEF TrySector1, Control, FirstFaults, Before, Labels1
    <3>2. bad' = bad /\ tries' = tries
      BY <2>2, TrySector1Does
    <3>3. CASE pc' = ret
      BY <3>1, <3>2, <3>3 DEF FirstFaults, Returns1
    <3>4. CASE pc' = "reset1" /\ faults' = faults - 1
      BY <1>1, <3>1, <3>2, <3>4 DEF FirstFaults
    <3>5. QED  BY <2>2, <3>3, <3>4, TrySector1Does
  <2>3. CASE Reset1
    <3>1. pc = "reset1" /\ bad = {} /\ tries \in 0..2 /\ FaultsSeen >= tries + 1
      BY <2>3 DEF Reset1, FirstFaults, Before, Labels1
    <3>2. CASE faults' = faults /\ tries' = tries + 1 /\ tries' < 3 /\ pc' = "try1" /\ bad' = bad
      BY <1>1, <3>1, <3>2 DEF FirstFaults
    <3>3. CASE /\ faults' = faults /\ tries' = tries + 1 /\ ~(tries' < 3)
               /\ pc' = "floppy_error" /\ bad' = bad \union {req.lba}
      <4>1. bad' = {req.lba}
        BY <3>1, <3>3
      <4>2. FaultsSeen' >= 3 * Cardinality(bad')
        <5>1. Cardinality(bad') = 1
          BY <1>2, <4>1
        <5>2. FaultsSeen' >= 3
          BY <1>1, <3>1, <3>3
        <5>3. QED  BY <5>1, <5>2
      <4>3. QED  BY <3>3, <4>1, <4>2 DEF FirstFaults
    <3>4. CASE faults' = faults - 1 /\ pc' = "floppy_error" /\ resetBad' = TRUE /\ bad' = bad
      BY <1>1, <1>2, <3>1, <3>4 DEF FirstFaults
    <3>5. QED  BY <2>3, <3>2, <3>3, <3>4 DEF Reset1, Retries
  <2>4. CASE Search
    <3>1. pc = "search" /\ bad = {} /\ bad' = bad /\ faults' = faults /\ image' = image
      BY <2>4 DEF Search, FirstFaults, Before, Labels1
    <3>2. Stage2File' = Stage2File
      BY <3>1, SameImage
    <3>3. CASE Stage2Entries = {} /\ pc' = "stage2_not_found_error"
      BY <3>1, <3>2, <3>3, SearchFinds DEF FirstFaults, NoFile
    <3>4. CASE pc' = "try1" /\ tries' = 0
      BY <1>1, <3>1, <3>4 DEF FirstFaults
    <3>5. QED  BY <2>4, <3>3, <3>4 DEF Search, Request
  <2>5. CASE LoadCluster
    BY <1>1, <2>5 DEF LoadCluster, Request, FirstFaults, Before, Labels1
  <2>6. CASE NextLink
    BY <2>6 DEF NextLink, FirstFaults, Before, Labels1
  <2>7. CASE WaitKeyAndReboot
    <3>1. /\ pc \in {"floppy_error", "stage2_not_found_error"} /\ pc' = "reboot"
          /\ UNCHANGED <<image, faults, ret, bad, resetBad>>
      BY <2>7 DEF WaitKeyAndReboot, stage1Vars
    <3>2. Stage2File' = Stage2File
      BY <3>1, SameImage
    <3>3. FaultsSeen' = FaultsSeen /\ FaultsSeen >= 3 * Cardinality(bad)
      <4>1. CASE pc = "floppy_error"
        BY <1>1, <3>1, <4>1 DEF FirstFaults
      <4>2. CASE pc = "stage2_not_found_error"
        BY <1>1, <1>2, <3>1, <4>2 DEF FirstFaults, Before, Labels1
      <4>3. QED  BY <3>1, <4>1, <4>2
    <3>4. bad # {} \/ resetBad \/ (ret = "none" /\ FaultsSeen = 1) \/ Stage2File = NoFile
      BY <3>1 DEF FirstFaults
    <3>5. QED  BY <3>1, <3>2, <3>3, <3>4 DEF FirstFaults, NoFile
  <2>8. QED  BY <1>3, <2>1, <2>2, <2>3, <2>4, <2>5, <2>6, <2>7 DEF Next1
<1>4. CASE Next2
  <2>1. pc' \notin Labels1 \union {"entry"}
    BY <1>4, SecondLabels
  <2>2. pc' \in Before => bad' = {}
    <3>1. pc' \in Before => pc \in {"entry", "a20"} /\ bad' = bad
      BY <1>4, BeforeKept, Zenon
    <3>2. QED  BY <3>1 DEF FirstFaults, Before, Labels1
  <2>3. QED  BY <2>1, <2>2 DEF FirstFaults, Labels1
<1>5. CASE UNCHANGED vars
  <2>1. UNCHANGED <<image, faults, pc, ret, tries, bad, resetBad>>
    BY <1>5 DEF vars, bootVars, stage1Vars
  <2>2. Stage2File' = Stage2File
    BY <2>1, SameImage
  <2>3. QED  BY <1>1, <2>1, <2>2 DEF FirstFaults, NoFile
<1>6. QED  BY <1>3, <1>4, <1>5 DEF Next, Stopped
-----------------------------------------------------------------------------
(* The second stage: the drive and its geometry.                            *)

LEMMA DriveInit == Init => Drive
BY DEF Init, DiskInit, Init1, Init2, Drive, Point, Asking, AskingGeometry, BiosLabels, Before, Labels1

LEMMA DriveStep ==
    TypeOK /\ Records /\ Control /\ FirstFaults /\ Drive /\ [Next]_vars => Drive'
<1> SUFFICES ASSUME TypeOK, Records, Control, FirstFaults, Drive, [Next]_vars PROVE Drive'
    OBVIOUS
<1>1. CASE Next1 /\ UNCHANGED stage2Vars
  <2>1. pc \in Before /\ pc' \in Labels1 \union {"entry"} /\ UNCHANGED <<bios, disk, ok, kernel>>
    BY <1>1, FirstLabels DEF stage2Vars, fileVars, Before
  <2>2. kernel = <<>> /\ disk.sectors = 0 /\ ok = TRUE
    BY <2>1 DEF Drive, Point, Asking, Control, Before, Labels1, BiosLabels
  <2>3. QED  BY <2>1, <2>2 DEF Drive, Point, Asking, AskingGeometry, BiosLabels, Before, Labels1
<1>2. CASE Next2
  <2> USE DEF Drive, Point, Asking, AskingGeometry, Control
  <2>1. CASE Entry
    BY <2>1 DEF Entry, entryVars, fileVars, Before, Labels1, BiosLabels, Returns2, Unread
  <2>2. CASE StepA20
    BY <2>2 DEF StepA20, fileVars, Before, Labels1, BiosLabels, Returns2, Unread
  <2>3. CASE Controller
    BY <2>3 DEF Controller, fileVars, Before, Labels1, BiosLabels, Returns2, Unread
  <2>4. CASE KeyPressed
    BY <2>4 DEF KeyPressed, fileVars, Before, Labels1, BiosLabels, Returns2, Unread
  <2>5. CASE Start
    BY <2>5 DEF Start, entryVars, fileVars, Before, Labels1, BiosLabels, Returns2, Unread,
      FirstFaults
  <2>6. CASE Enter16Bit
    BY <2>6 DEF Enter16Bit, entryVars, fileVars, Before, Labels1, BiosLabels, Returns2,
      Unread
  <2>7. CASE LeaveProtected
    BY <2>7 DEF LeaveProtected, entryVars, fileVars, Before, Labels1, BiosLabels,
      Returns2, Unread
  <2>8. CASE Sti
    BY <2>8 DEF Sti, entryVars, fileVars, Before, Labels1, BiosLabels, Returns2, Unread
  <2>9. CASE Int13
    BY <2>9 DEF Int13, entryVars, fileVars, Before, Labels1, BiosLabels, Returns2, Unread,
      Int13Read, Int13Reset, Int13Params, Records
  <2>10. CASE Cli
    BY <2>10 DEF Cli, entryVars, fileVars, Before, Labels1, BiosLabels, Returns2, Unread
  <2>11. CASE EnterProtected
    BY <2>11 DEF EnterProtected, entryVars, fileVars, Before, Labels1, BiosLabels,
      Returns2, Unread
  <2>12. CASE DiskInitialized
    <3>1. pc = "params" /\ bios.fn = "params" /\ UNCHANGED <<bad, bios, ok, kernel>>
      BY <2>12 DEF DiskInitialized, fileVars
    <3>2. CASE disk' = [disk EXCEPT !.id = BootDrive] /\ pc' = "disk" /\ ret' = "bootsector"
      <4>1. disk'.id = BootDrive
        BY <3>2 DEF Records
      <4>2. bad = {} /\ kernel = <<>> /\ ok \in BOOLEAN /\ (ok = FALSE => bad # {})
        BY <3>1 DEF Unread, BiosLabels
      <4>3. QED  BY <3>1, <3>2, <4>1, <4>2 DEF Before, Labels1, BiosLabels, Returns2, Unread
    <3>3. CASE bios.eax = 0 /\ pc' = "halt" /\ disk' = disk
      <4>1. disk'.sectors = 0 /\ bad' = {} /\ kernel' = <<>> /\ ok' \in BOOLEAN /\ (ok' = FALSE => bad' # {})
        BY <3>1, <3>3 DEF Unread, BiosLabels
      <4>2. WrongGeometry'
        <5>1. Geometry[BootDrive].sectors # 0
          BY HasSectors
        <5>2. disk'.sectors # Geometry[BootDrive].sectors
          BY <4>1, <5>1
        <5>3. QED  BY <5>2 DEF WrongGeometry
      <4>3. QED  BY <3>1, <3>3, <4>1, <4>2 DEF Before, Labels1, BiosLabels, Returns2, Unread
    <3>4. QED  BY <2>12, <3>2, <3>3 DEF DiskInitialized, Request
  <2>13. CASE DiskTry
    BY <2>13 DEF DiskTry, diskUnchanged, entryVars, fileVars, CallBios, Before, Labels1,
      BiosLabels, Returns2, Unread
  <2>14. CASE DiskTried
    <3>1. /\ pc = "readdone" /\ bios.fn = "read" /\ ret \in Returns2
          /\ UNCHANGED <<bad, disk, ret, kernel>>
      BY <2>14 DEF DiskTried, fileVars
    <3>2. CASE bios.eax = 1 /\ ok' = TRUE /\ pc' = ret /\ bios' = bios
      <4>1. Point = ret /\ Point' = ret /\ ~Asking' /\ ~AskingGeometry /\ ~AskingGeometry'
        BY <3>1, <3>2 DEF Returns2, BiosLabels
      <4>2. ret \notin Before /\ ret \notin BiosLabels
        BY <3>1 DEF Before, Labels1, BiosLabels, Returns2
      <4>3. disk.id = BootDrive \/ disk.sectors = 0
        BY <3>1, <4>1 DEF Before, Labels1
      <4> HIDE DEF Point, Asking, AskingGeometry
      <4>4. QED  BY <3>1, <3>2, <4>1, <4>2, <4>3 DEF Returns2
    <3>3. CASE CallBios("reset", "resetdone") /\ ok' = ok
      BY <3>1, <3>3 DEF CallBios, Before, Labels1, BiosLabels, Returns2
    <3>4. QED  BY <2>14, <3>2, <3>3 DEF DiskTried
  <2>15. CASE DiskReset
    BY <2>15 DEF DiskReset, diskUnchanged, entryVars, fileVars, Before, Labels1,
      BiosLabels, Returns2, Unread
  <2>16. CASE BootSectorRead
    BY <2>16 DEF BootSectorRead, diskUnchanged, entryVars, fileVars, ReadSectors, Request,
      Before, Labels1, BiosLabels, Returns2, Unread, WrongGeometry, FatFits, FatDataSize,
      FileDataSize, MAX_FILE_HANDLES, Bpb, MEMORY_FAT_SIZE
  <2>17. CASE FatRead
    BY <2>17 DEF FatRead, diskUnchanged, entryVars, ReadSectors, Request, Before, Labels1,
      BiosLabels, Returns2, Unread, WrongGeometry
  <2>18. CASE RootRead
    BY <2>18 DEF RootRead, diskUnchanged, entryVars, fileVars, Before, Labels1,
      BiosLabels, Returns2, Unread, WrongGeometry
  <2>19. CASE FindFile
    BY <2>19 DEF FindFile, diskUnchanged, entryVars, OpenEntry, ReadSectors, Request,
      Before, Labels1, BiosLabels, Returns2, Unread
  <2>20. CASE CompareLast
    BY <2>20 DEF CompareLast, diskUnchanged, entryVars, OpenEntry, ReadSectors, Request,
      Before, Labels1, BiosLabels, Returns2, Unread
  <2>21. CASE Opened
    BY <2>21 DEF Opened, diskUnchanged, entryVars, Before, Labels1, BiosLabels, Returns2,
      Unread
  <2>22. CASE ReadBegins
    BY <2>22 DEF ReadBegins, diskUnchanged, entryVars, Before, Labels1, BiosLabels,
      Returns2, Unread
  <2>23. CASE ReadTurn
    BY <2>23 DEF ReadTurn, diskUnchanged, entryVars, ReadSectors, Request, Before,
      Labels1, BiosLabels, Returns2, Unread
  <2>24. CASE NextSector
    BY <2>24 DEF NextSector, diskUnchanged, entryVars, fileVars, Before, Labels1,
      BiosLabels, Returns2, Unread
  <2>25. CASE ReadReturns
    BY <2>25 DEF ReadReturns, diskUnchanged, entryVars, fileVars, Before, Labels1,
      BiosLabels, Returns2, Unread
  <2>26. CASE CopyKernel
    BY <2>26 DEF CopyKernel, diskUnchanged, entryVars, Before, Labels1, BiosLabels,
      Returns2, Unread
  <2>27. QED  BY <1>2, <2>1, <2>2, <2>3, <2>4, <2>5, <2>6, <2>7, <2>8, <2>9, <2>10, <2>11, <2>12,
        <2>13, <2>14, <2>15, <2>16, <2>17, <2>18, <2>19, <2>20, <2>21, <2>22, <2>23, <2>24, <2>25,
        <2>26 DEF Next2
<1>3. CASE UNCHANGED vars
  <2>1. UNCHANGED <<pc, ret, bad, bios, disk, ok, kernel>>
    BY <1>3 DEF vars, bootVars, stage2Vars, fileVars
  <2>2. QED  BY <2>1 DEF Drive, Point, Asking, AskingGeometry, WrongGeometry
<1>4. QED  BY <1>1, <1>2, <1>3 DEF Next, Stopped
-----------------------------------------------------------------------------
(* The second stage: a request under way.                                   *)

LEMMA Places2 ==
    /\ BootSectorAt = 131072 /\ RootBuffer = 131584 /\ FileBuffer = 132128 /\ FatAt = 137568
    /\ RootStart = 19 /\ FatStart = 1 /\ DataStart = 33 /\ rootDirLba = 19 /\ dataSectionLba = 33
    /\ rootDirSize = 7168 /\ ImageSectors = 2880
BY SMT DEF BootSectorAt, RootBuffer, FileBuffer, FatAt, MEMORY_FAT_ADDR, FatDataSize, FileDataSize,
    MAX_FILE_HANDLES, RootStart, FatStart, DataStart, rootDirLba, dataSectionLba, rootDirSize,
    ImageSectors, Bpb, EntrySize

\* LinearToSegOffset keeps an address below 1 MiB.
LEMMA SegOffsetRight ==
    ASSUME NEW a \in Nat, a < 1048576
    PROVE  RealAddress(SegOffset(a)) = a
<1>1. a \div 16 \in Nat /\ a \div 16 < 65536 /\ a = ((a \div 16) * 16) + (a % 16)
  BY SMT
<1>2. (a \div 16) % 65536 = a \div 16
  BY <1>1, SMT
<1>3. QED  BY <1>1, <1>2, SMT DEF RealAddress, SegOffset

\* The second stage asks for sectors of the disk, to be put below 1 MiB; only
\* the FAT is put where the FAT is.
LEMMA AskedInDisk ==
    ASSUME Control, Asked2, Asking
    PROVE  /\ Point = ret /\ ret \in Returns2
           /\ req.lba \in 0..(ImageSectors - 1)
           /\ req.at \in Nat /\ req.at < 1048576 /\ req.count \in {1, 9}
           /\ ret \notin {"bootsector", "fatread"} => req.at + 512 * req.count <= FatAt
<1>1. Point = ret /\ ret \in Returns2
  BY DEF Control, Point
<1>2. req.lba \in 0..(ImageSectors - 1)
  BY <1>1 DEF Asked2
<1>3. CASE ret = "bootsector"
  <2>1. req.count = 1 /\ req.at = BootSectorAt
    BY <1>1, <1>3, Zenon DEF Asked2, AskedFor
  <2>2. req.count = 1 /\ req.at = 131072
    BY <2>1, Places2, SMT
  <2>3. QED  BY <1>1, <1>2, <1>3, <2>2, SMTT(60)
<1>4. CASE ret = "fatread"
  <2>1. req.count = 9 /\ req.at = FatAt
    BY <1>1, <1>4, Zenon DEF Asked2, AskedFor
  <2>2. req.count = 9 /\ req.at = 137568
    BY <2>1, Places2, SMT
  <2>3. QED  BY <1>1, <1>2, <1>4, <2>2, SMTT(60)
<1>5. CASE ret \in {"rootread", "compare", "opened", "nextsector"}
  <2>1. req.count = 1 /\ (req.at = RootBuffer \/ req.at = FileBuffer)
    BY <1>1, <1>5 DEF Asked2, AskedFor
  <2>2. FatAt = 137568 /\ (req.at = 131584 \/ req.at = 132128)
    BY <2>1, Places2, SMT
  <2>3. req.at \in Nat /\ req.at < 1048576 /\ req.at + 512 <= FatAt
    BY <2>2, SMT
  <2>4. QED  BY <1>1, <1>2, <1>5, <2>1, <2>3, SMTT(60)
<1>6. QED  BY <1>1, <1>3, <1>4, <1>5, SMT DEF Returns2

\* With the geometry of the boot drive, a call of the BIOS either reads what
\* was asked for or meets a failure.
LEMMA Int13ReadDoes ==
    ASSUME Records, Control, Drive, Asked2, ~WrongGeometry, Int13, bios.fn = "read"
    PROVE  /\ disk' = disk
           /\ \/ /\ mem' = Store(req.at, req.lba, req.count) /\ faults' = faults
                 /\ bios' = [bios EXCEPT !.eax = 1]
              \/ /\ mem' = mem /\ faults > 0 /\ faults' = faults - 1
                 /\ bios' = [bios EXCEPT !.eax = 0]
<1>1. pc = "int13" /\ Asking /\ ~AskingGeometry
  BY DEF Int13, Asking, AskingGeometry, BiosLabels
<1>2. disk.id = BootDrive
  <2>1. disk.id = BootDrive \/ disk.sectors = 0
    BY <1>1 DEF Drive, Before, Labels1
  <2>2. disk.sectors = Geometry[BootDrive].sectors
    BY DEF WrongGeometry
  <2>3. QED  BY <2>1, <2>2, HasSectors
<1>3. req.lba \in 0..(ImageSectors - 1) /\ req.at \in Nat /\ req.at < 1048576
  BY <1>1, AskedInDisk, SMT
<1>4. /\ Addressable(disk.id, Lba2Chs(req.lba).ch, Lba2Chs(req.lba).cl, Lba2Chs(req.lba).dh)
      /\ LbaOf(disk.id, Lba2Chs(req.lba).ch, Lba2Chs(req.lba).cl, Lba2Chs(req.lba).dh) = req.lba
  BY <1>2, <1>3, Lba2ChsRight
<1>5. RealAddress(SegOffset(req.at)) = req.at
  BY <1>3, SegOffsetRight, SMT
<1>6. Int13Read
  BY DEF Int13, Int13Reset, Int13Params
<1>7. QED  BY <1>4, <1>5, <1>6, Zenon DEF Int13Read, BiosReads, BiosFails, BiosRefuses

\* Nothing asked for yet, or the geometry.
LEMMA NothingRead ==
    TypeOK /\ Drive /\ AskingGeometry => SecondStage
<1> SUFFICES ASSUME TypeOK, Drive, AskingGeometry PROVE SecondStage
    OBVIOUS
<1>1. bad = {} /\ Cardinality(bad) = 0
  BY FS_EmptySet DEF Drive
<1>2. ~Asking /\ Point = pc /\ pc \in BiosLabels \union {"params"}
  BY DEF AskingGeometry, Asking, Point, BiosLabels
<1>3. FaultsSeen >= 3 * Cardinality(bad)
  BY <1>1, GeometryAssumption DEF TypeOK, FaultsSeen
<1> HIDE DEF Asking, Point
<1>4. Asked2 /\ Directory /\ Reading /\ Pieces
  BY <1>2 DEF Asked2, Returns2, Directory, Reading, ReadingPoints, Pieces, BiosLabels
<1>5. Answered /\ Faults2
  <2>1. pc \in BiosLabels => bios.fn = "params"
    BY DEF AskingGeometry, BiosLabels
  <2>2. QED  BY <1>2, <1>3, <2>1 DEF Answered, Faults2, Returns2, BiosLabels
<1>6. QED  BY <1>2, <1>4, <1>5 DEF SecondStage, ReadingPoints, BiosLabels

LEMMA NotBefore ==
    Drive /\ pc \in Before => WrongGeometry
<1> SUFFICES ASSUME Drive, pc \in Before PROVE WrongGeometry
    OBVIOUS
<1>1. disk.sectors = 0
  BY DEF Drive
<1>2. QED  BY <1>1, HasSectors DEF WrongGeometry

\* The steps of a request that is under way.
UnderWayStep ==
    \/ Enter16Bit \/ LeaveProtected \/ Sti \/ Int13 \/ Cli \/ EnterProtected
    \/ DiskTry \/ DiskTried \/ DiskReset

LEMMA UnderWayOnly == Asking /\ Next2 => UnderWayStep
<1> SUFFICES ASSUME Asking, Next2 PROVE UnderWayStep
    OBVIOUS
<1> USE DEF Asking, BiosLabels
<1>1. CASE Entry
    BY <1>1 DEF Entry, entryVars, fileVars
<1>2. CASE StepA20
    BY <1>2 DEF StepA20, fileVars
<1>3. CASE Controller
    BY <1>3 DEF Controller, fileVars
<1>4. CASE KeyPressed
    BY <1>4 DEF KeyPressed, fileVars
<1>5. CASE Start
    BY <1>5 DEF Start, entryVars, fileVars
<1>12. CASE DiskInitialized
    BY <1>12 DEF DiskInitialized, diskUnchanged, entryVars, fileVars, Request
<1>16. CASE BootSectorRead
    BY <1>16 DEF BootSectorRead, diskUnchanged, entryVars, fileVars, ReadSectors, Request
<1>17. CASE FatRead
    BY <1>17 DEF FatRead, diskUnchanged, entryVars, ReadSectors, Request
<1>18. CASE RootRead
    BY <1>18 DEF RootRead, diskUnchanged, entryVars, fileVars
<1>19. CASE FindFile
    BY <1>19 DEF FindFile, diskUnchanged, entryVars, OpenEntry, ReadSectors, Request
<1>20. CASE CompareLast
    BY <1>20 DEF CompareLast, diskUnchanged, entryVars, OpenEntry, ReadSectors, Request
<1>21. CASE Opened
    BY <1>21 DEF Opened, diskUnchanged, entryVars
<1>22. CASE ReadBegins
    BY <1>22 DEF ReadBegins, diskUnchanged, entryVars
<1>23. CASE ReadTurn
    BY <1>23 DEF ReadTurn, diskUnchanged, entryVars, ReadSectors, Request
<1>24. CASE NextSector
    BY <1>24 DEF NextSector, diskUnchanged, entryVars, fileVars
<1>25. CASE ReadReturns
    BY <1>25 DEF ReadReturns, diskUnchanged, entryVars, fileVars
<1>26. CASE CopyKernel
    BY <1>26 DEF CopyKernel, diskUnchanged, entryVars
<1>27. QED  BY <1>1, <1>2, <1>3, <1>4, <1>5, <1>12, <1>16, <1>17, <1>18, <1>19, <1>20, <1>21, <1>22,
      <1>23, <1>24, <1>25, <1>26 DEF Next2, UnderWayStep

\* They keep what was asked for, where it returns to and the file.
LEMMA UnderWayKeeps ==
    ASSUME Records, Control, Asking, UnderWayStep
    PROVE  /\ UNCHANGED <<image, req, ret, fileVars>>
           /\ Point = ret /\ Point' = ret /\ ret \in Returns2
           /\ pc' \in BiosLabels \union {"disk", "readdone", "resetdone", ret}
           /\ pc' # ret => Asking'
           /\ ~Int13 => mem' = mem /\ faults' = faults
           /\ disk' = disk
<1> USE DEF Control, Asking, Point, BiosLabels, Returns2
<1>1. CASE Enter16Bit
    BY <1>1 DEF Enter16Bit, entryVars, fileVars
<1>2. CASE LeaveProtected
    BY <1>2 DEF LeaveProtected, entryVars, fileVars
<1>3. CASE Sti
    BY <1>3 DEF Sti, entryVars, fileVars
<1>4. CASE Int13
  <2>1. pc = "int13" /\ pc' = "cli" /\ bios.fn \in {"read", "reset"} /\ UNCHANGED <<image, req, ret, fileVars>>
    BY <1>4 DEF Int13
  <2>2. disk' = disk /\ bios'.fn = bios.fn
    BY <1>4, <2>1 DEF Int13, Int13Read, Int13Reset, Int13Params, Records
  <2>3. QED  BY <1>4, <2>1, <2>2
<1>5. CASE Cli
    BY <1>5 DEF Cli, entryVars, fileVars
<1>6. CASE EnterProtected
    BY <1>6 DEF EnterProtected, entryVars, fileVars
<1>7. CASE DiskTry
    BY <1>7 DEF DiskTry, diskUnchanged, entryVars, fileVars, CallBios
<1>8. CASE DiskTried
    BY <1>8 DEF DiskTried, diskUnchanged, entryVars, fileVars, CallBios
<1>9. CASE DiskReset
    BY <1>9 DEF DiskReset, diskUnchanged, entryVars, fileVars
<1>10. QED  BY <1>1, <1>2, <1>3, <1>4, <1>5, <1>6, <1>7, <1>8, <1>9 DEF UnderWayStep

\* What the answers mean, and that every failure is counted.
LEMMA UnderWayAnswers ==
    ASSUME TypeOK, Records, Control, Drive, Asked2, Answered, Faults2, ~WrongGeometry,
           Asking, UnderWayStep
    PROVE  /\ Answered' /\ Faults2'
           /\ bad' = bad \/ bad' = bad \union {req.lba}
           /\ mem' = mem \/ mem' = Store(req.at, req.lba, req.count)
<1> DEFINE card == Cardinality(bad)
           seen == MaxFaults - faults
<1>1. /\ req' = req /\ ret' = ret /\ ret \in Returns2
      /\ ~Int13 => mem' = mem /\ faults' = faults
  BY UnderWayKeeps
<1>2. /\ FaultsSeen = seen /\ FaultsSeen' = MaxFaults - faults'
      /\ MaxFaults \in Nat /\ faults \in Nat /\ card \in Nat /\ tries \in 0..2
      /\ seen >= 3 * card + tries + (IF Failed THEN 1 ELSE 0)
  BY GeometryAssumption, FS_CardinalityType DEF FaultsSeen, TypeOK, Faults2
<1>3. Cardinality(bad \union {req.lba}) <= card + 1 /\ Cardinality(bad \union {req.lba}) \in Nat
  <2>1. IsFiniteSet(bad)
    BY DEF TypeOK
  <2>2. \/ Cardinality(bad \union {req.lba}) = card
        \/ Cardinality(bad \union {req.lba}) = card + 1
    BY <2>1, FS_AddElement
  <2>3. QED  BY <1>2, <2>2
<1> DEFINE Counted == IF Failed THEN 1 ELSE 0
           Here == pc \in {"leave", "rmode", "sti", "int13", "cli", "protect"}
<1>4. Counted \in {0, 1}
  OBVIOUS
<1>5. Here => bios.fn \in {"read", "reset"}
  BY DEF Control, Asking, BiosLabels
\* A step of the call itself.
<1>6. CASE /\ bad' = bad /\ tries' = tries /\ bios' = bios /\ ok' = ok /\ mem' = mem /\ faults' = faults
           /\ \/ pc = "leave" /\ pc' = "rmode"
              \/ pc = "rmode" /\ pc' = "sti"
              \/ pc = "sti" /\ pc' = "int13"
              \/ pc = "cli" /\ pc' = "protect"
              \/ pc = "protect" /\ pc' = bios.back
  <2>1. pc' = bios.back =>
           (bios.fn = "read" /\ pc' = "readdone") \/ (bios.fn = "reset" /\ pc' = "resetdone")
    BY <1>6 DEF Control, Asking, BiosLabels
  <2>2. Asking' /\ (Failed' <=> Failed)
    BY <1>5, <1>6, <2>1 DEF Asking, Failed, BiosLabels
  <2>3. Answered'
    BY <1>1, <1>5, <1>6, <2>1 DEF Answered, Holds, Returns2
  <2>4. Faults2'
    BY <1>2, <1>6, <2>2 DEF Faults2, FaultsSeen
  <2>5. QED  BY <1>6, <2>3, <2>4
<1>7. CASE Int13
  <2>1. /\ pc = "int13" /\ pc' = "cli" /\ bad' = bad /\ tries' = tries /\ bios.fn \in {"read", "reset"}
    BY <1>5, <1>7 DEF Int13
  <2>2. CASE bios.fn = "read"
    <3>1. CASE mem' = Store(req.at, req.lba, req.count) /\ faults' = faults /\ bios' = [bios EXCEPT !.eax = 1]
      <4>1. bios'.fn = "read" /\ bios'.eax = 1
        BY <2>2, <3>1 DEF Records
      <4>2. req.at \in Nat /\ req.count \in {1, 9} /\ req.lba \in Int
        BY AskedInDisk, SMT
      <4>3. \A i \in 0..(req.count - 1) : /\ req.at + 512 * i \in DOMAIN mem'
                                            /\ mem'[req.at + 512 * i] = req.lba + i
        BY <3>1, <4>2, Stored
      <4>4. req.at \in DOMAIN mem' /\ mem'[req.at] = req.lba
        <5>1. 0 \in 0..(req.count - 1) /\ req.at + 512 * 0 = req.at /\ req.lba + 0 = req.lba
          BY <4>2
        <5>2. QED  BY <4>3, <5>1
      <4>5. Answered'
        BY <1>1, <2>1, <4>4 DEF Answered, Holds, Returns2
      <4>6. ~Failed' /\ Asking'
        BY <2>1, <4>1 DEF Failed, Asking, BiosLabels
      <4>7. Faults2'
        BY <1>2, <1>4, <2>1, <3>1, <4>6 DEF Faults2
      <4>8. QED  BY <2>1, <3>1, <4>5, <4>7
    <3>2. CASE mem' = mem /\ faults > 0 /\ faults' = faults - 1 /\ bios' = [bios EXCEPT !.eax = 0]
      <4>1. bios'.fn = "read" /\ bios'.eax = 0
        BY <2>2, <3>2 DEF Records
      <4>2. Answered'
        BY <1>1, <2>1, <4>1 DEF Answered, Returns2
      <4>3. ~Failed /\ Failed' /\ Asking'
        BY <2>1, <2>2, <4>1 DEF Failed, Asking, BiosLabels
      <4>4. Faults2'
        BY <1>2, <2>1, <3>2, <4>3 DEF Faults2
      <4>5. QED  BY <2>1, <3>2, <4>2, <4>4
    <3>3. QED  BY <1>7, <2>2, <3>1, <3>2, Int13ReadDoes
  <2>3. CASE bios.fn = "reset"
    <3>1. mem' = mem /\ (faults' = faults \/ faults' = faults - 1) /\ bios'.fn = "reset"
      BY <1>7, <2>3 DEF Int13, Int13Read, Int13Reset, Int13Params, BiosFails, Records
    <3>2. Failed /\ Failed' /\ Asking'
      BY <2>1, <2>3, <3>1 DEF Failed, Asking, BiosLabels
    <3>3. Answered'
      BY <2>1, <3>1 DEF Answered, Returns2
    <3>4. Faults2'
      BY <1>2, <2>1, <3>1, <3>2 DEF Faults2
    <3>5. QED  BY <2>1, <3>1, <3>3, <3>4
  <2>4. QED  BY <2>1, <2>2, <2>3
<1>8. CASE DiskTry
  <2>1. /\ pc = "disk" /\ pc' = "leave" /\ bios'.fn = "read" /\ bad' = bad /\ tries' = tries
        /\ mem' = mem /\ faults' = faults
    BY <1>8 DEF DiskTry, CallBios, diskUnchanged
  <2>2. ~Failed' /\ Asking'
    BY <2>1 DEF Failed, Asking, BiosLabels
  <2>3. Answered'
    BY <2>1 DEF Answered, Returns2
  <2>4. Faults2'
    BY <1>2, <1>4, <2>1, <2>2 DEF Faults2
  <2>5. QED  BY <2>1, <2>3, <2>4
<1>9. CASE DiskTried
  <2>1. /\ pc = "readdone" /\ bios.fn = "read" /\ bad' = bad /\ tries' = tries
        /\ mem' = mem /\ faults' = faults
    BY <1>9 DEF DiskTried, diskUnchanged, Control
  <2>2. CASE bios.eax = 1 /\ ok' = TRUE /\ pc' = ret
    <3>1. Holds(req.at, req.lba)
      BY <2>1, <2>2 DEF Answered
    <3>2. Answered'
      BY <1>1, <2>1, <2>2, <3>1 DEF Answered, Holds, Returns2
    <3>3. ~Asking'
      BY <1>1, <2>2 DEF Asking, BiosLabels, Returns2
    <3>4. Faults2'
      BY <1>2, <1>4, <2>1, <3>3 DEF Faults2
    <3>5. QED  BY <2>1, <3>2, <3>4
  <2>3. CASE bios.eax = 0 /\ pc' = "leave" /\ bios'.fn = "reset"
    <3>1. Failed /\ Failed' /\ Asking'
      BY <2>1, <2>3 DEF Failed, Asking, BiosLabels
    <3>2. Answered'
      BY <2>3 DEF Answered, Returns2
    <3>3. Faults2'
      BY <1>2, <2>1, <3>1 DEF Faults2
    <3>4. QED  BY <2>1, <3>2, <3>3
  <2>4. \/ bios.eax = 1 /\ ok' = TRUE /\ pc' = ret
        \/ bios.eax = 0 /\ pc' = "leave" /\ bios'.fn = "reset"
    BY <1>9 DEF DiskTried, CallBios
  <2>5. QED  BY <2>2, <2>3, <2>4, Zenon
<1>10. CASE DiskReset
  <2>1. pc = "resetdone" /\ tries' = tries + 1 /\ mem' = mem /\ faults' = faults
    BY <1>10 DEF DiskReset, diskUnchanged
  <2>2. Failed
    BY <2>1 DEF Failed
  <2>3. CASE tries' < 3 /\ pc' = "disk" /\ bad' = bad
    <3>1. Asking' /\ ~Failed'
      BY <2>3 DEF Failed, Asking, BiosLabels
    <3>2. Answered'
      BY <2>3 DEF Answered, Returns2
    <3>3. Faults2'
      BY <1>2, <2>1, <2>2, <2>3, <3>1 DEF Faults2
    <3>4. QED  BY <2>1, <2>3, <3>2, <3>3
  <2>4. CASE ~(tries' < 3) /\ ok' = FALSE /\ bad' = bad \union {req.lba} /\ pc' = ret
    <3>1. ~Asking'
      BY <1>1, <2>4 DEF Asking, BiosLabels, Returns2
    <3>2. Answered'
      BY <1>1, <2>4 DEF Answered, Returns2
    <3>3. Faults2'
      <4>1. seen >= 3 * card + 3
        BY <1>2, <2>1, <2>2, <2>4
      <4>2. FaultsSeen' = seen
        BY <1>2, <2>1
      <4> HIDE DEF card, seen
      <4>3. FaultsSeen' >= 3 * Cardinality(bad \union {req.lba})
        BY <1>2, <1>3, <4>1, <4>2
      <4>4. QED  BY <2>4, <3>1, <4>3 DEF Faults2
    <3>4. QED  BY <2>1, <2>4, <3>2, <3>3
  <2>5. \/ tries' < 3 /\ pc' = "disk" /\ bad' = bad
        \/ ~(tries' < 3) /\ ok' = FALSE /\ bad' = bad \union {req.lba} /\ pc' = ret
    BY <1>10, <1>2 DEF DiskReset, Attempts
  <2>6. QED  BY <2>3, <2>4, <2>5, Zenon
<1>11. CASE Enter16Bit
  BY <1>6, <1>11 DEF Enter16Bit
<1>12. CASE LeaveProtected
  BY <1>6, <1>12 DEF LeaveProtected
<1>13. CASE Sti
  BY <1>6, <1>13 DEF Sti
<1>14. CASE Cli
  BY <1>6, <1>14 DEF Cli
<1>15. CASE EnterProtected
  BY <1>6, <1>15 DEF EnterProtected
<1>16. QED  BY <1>7, <1>8, <1>9, <1>10, <1>11, <1>12, <1>13, <1>14, <1>15 DEF UnderWayStep

\* A sector given up does not make the pieces worse.
LEMMA GoodKept ==
    ASSUME image' = image, bad \subseteq bad'
    PROVE  \A s : Good(s) => Good(s)'
BY SameImage DEF Good, Piece

LEMMA UnderWaySecondStage ==
    ASSUME TypeOK, Records, Control, Drive, SecondStage, ~WrongGeometry, Asking, UnderWayStep
    PROVE  SecondStage'
<1>1. /\ UNCHANGED <<image, req, ret, root, hit, fd, from, left, got, kernel>>
      /\ Point = ret /\ Point' = ret /\ ret \in Returns2
      /\ pc' \in BiosLabels \union {"disk", "readdone", "resetdone", ret}
  BY UnderWayKeeps DEF fileVars
<1>2. Asked2 /\ Answered /\ Faults2 /\ Directory /\ Reading /\ Pieces
  BY DEF SecondStage
<1>3. /\ Answered' /\ Faults2'
      /\ bad' = bad \/ bad' = bad \union {req.lba}
      /\ mem' = mem \/ mem' = Store(req.at, req.lba, req.count)
  BY <1>2, UnderWayAnswers
<1>4. /\ Kernel' = Kernel /\ \A f, name : Found(f, name)' <=> Found(f, name)
      /\ bad \subseteq bad' /\ \A s : Good(s) => Good(s)'
  BY <1>1, <1>3, SameImage, GoodKept
<1>5. pc' \notin {"wild", "kernel"}
  BY <1>1 DEF BiosLabels, Returns2
<1>6. Asked2'
  BY <1>1, <1>2, <1>4 DEF Asked2, AskedFor
<1>7. Directory'
  BY <1>1, <1>2, <1>4, <1>5 DEF Directory, Returns2
<1>8. ASSUME ret \notin {"bootsector", "fatread"}, mem' # mem
      PROVE  /\ \A p \in Nat : \A x : p >= FatAt /\ Holds(p, x) => Holds(p, x)'
             /\ \A p \in Nat : p < req.at /\ p \in DOMAIN mem => p \in DOMAIN mem' /\ mem'[p] = mem[p]
             /\ req.at \in DOMAIN mem' /\ mem'[req.at] = req.lba
  <2>1. /\ req.at \in Nat /\ req.count \in {1, 9} /\ req.lba \in 0..(ImageSectors - 1)
        /\ req.at + 512 * req.count <= FatAt
    BY <1>2, <1>8, AskedInDisk, SMT
  <2>2. mem' = Store(req.at, req.lba, req.count) /\ req.count \in Nat
    BY <1>3, <1>8, <2>1
  <2>3. /\ \A i \in 0..(req.count - 1) : req.at + 512 * i \in DOMAIN mem' /\ mem'[req.at + 512 * i] = req.lba + i
        /\ \A p \in Nat : p \in DOMAIN mem /\ (p < req.at \/ p >= req.at + 512 * req.count) =>
              p \in DOMAIN mem' /\ mem'[p] = mem[p]
    BY <2>1, <2>2, Stored
  <2>4. req.at \in DOMAIN mem' /\ mem'[req.at] = req.lba
    <3>1. 0 \in 0..(req.count - 1) /\ req.at + 512 * 0 = req.at /\ req.lba + 0 = req.lba
      BY <2>1
    <3>2. QED  BY <2>3, <3>1
  <2>5. ASSUME NEW p \in Nat, NEW x, p >= FatAt, Holds(p, x) PROVE Holds(p, x)'
    <3>1. p >= req.at + 512 * req.count
      BY <2>1, <2>5, Places2, SMT
    <3>2. p \in DOMAIN mem' /\ mem'[p] = mem[p]
      BY <2>3, <2>5, <3>1 DEF Holds
    <3>3. QED  BY <2>5, <3>2 DEF Holds
  <2>6. QED  BY <2>3, <2>4, <2>5
<1>9. Reading'
  <2>1. ret = "nextsector" => FileBuffer \in DOMAIN mem' /\ mem'[FileBuffer] \in Int
    <3>1. CASE mem' = mem
      BY <1>1, <1>2, <3>1 DEF Reading, ReadingPoints
    <3>2. CASE mem' # mem
      <4>1. SUFFICES ASSUME ret = "nextsector" PROVE FileBuffer \in DOMAIN mem' /\ mem'[FileBuffer] \in Int
        OBVIOUS
      <4>2. req.at = FileBuffer /\ req.lba \in 0..(ImageSectors - 1)
        BY <1>1, <1>2, <4>1 DEF Asked2, AskedFor, Returns2
      <4>3. req.lba \in Int
        BY <4>2
      <4>4. QED  BY <1>8, <3>2, <4>1, <4>2, <4>3
    <3>3. QED  BY <3>1, <3>2
  <2>2. \A i : AtCluster(i)' <=> AtCluster(i)
    BY <1>1, <1>4 DEF AtCluster
  <2>3. Point' \in ReadingPoints => ret = "nextsector"
    BY <1>1 DEF ReadingPoints, Returns2
  <2>4. CASE ret = "nextsector"
    <3>1. PICK i \in DOMAIN Kernel.clusters : AtCluster(i)
      BY <1>1, <1>2, <2>4 DEF Reading
    <3>2. FileBuffer' = FileBuffer
      BY DEF FileBuffer, RootBuffer, MEMORY_FAT_ADDR
    <3>3. QED  BY <1>1, <1>2, <1>4, <2>1, <2>2, <2>4, <3>1, <3>2 DEF Reading, ReadingPoints
  <2>5. CASE ret # "nextsector"
    BY <1>1, <1>2, <1>4, <2>3, <2>5 DEF Reading, ReadingPoints
  <2>6. QED  BY <2>4, <2>5
<1>10. Pieces'
  <2>1. /\ got' = got /\ kernel' = kernel /\ fd' = fd /\ from' = from /\ Kernel' = Kernel
        /\ Good(kernel \o got) => Good(kernel \o got)'
    BY <1>1, <1>4
  <2>2. Point' = "nextsector" \/ Point' \notin {"copy", "nextsector", "returned", "readfile"}
    BY <1>1 DEF Returns2
  <2>3. QED  BY <1>1, <1>2, <1>5, <2>1, <2>2 DEF Pieces, Piece, MEMORY_LOAD_SIZE
<1>11. Point' \in ReadingPoints \union {"rootread", "find", "compare", "opened"} => Holds(FatAt, FatStart)'
  <2>1. Point' \in ReadingPoints \union {"rootread", "find", "compare", "opened"} =>
          Holds(FatAt, FatStart) /\ ret \notin {"bootsector", "fatread"}
    BY <1>1 DEF SecondStage, ReadingPoints
  <2>2. FatAt \in Nat /\ FatAt' = FatAt /\ FatStart' = FatStart
    BY Places2, SMT DEF FatAt, FatStart
  <2>3. CASE mem' = mem
    BY <2>1, <2>2, <2>3 DEF Holds
  <2>4. CASE mem' # mem
    <3>1. SUFFICES ASSUME Holds(FatAt, FatStart), ret \notin {"bootsector", "fatread"} PROVE Holds(FatAt, FatStart)'
      BY <2>1
    <3>2. FatAt >= FatAt
      BY <2>2
    <3>3. QED  BY <1>8, <2>2, <2>4, <3>1, <3>2, Zenon
  <2>5. QED  BY <2>3, <2>4
<1>12. QED  BY <1>3, <1>6, <1>7, <1>9, <1>10, <1>11 DEF SecondStage
-----------------------------------------------------------------------------
(* The second stage: the file system.                                       *)

\* Clusters of the disk are sectors of the disk, and so is what an empty
\* file's first cluster, 0, is taken for.
LEMMA ClusterSector ==
    /\ \A c \in Nat : 2 <= c /\ c <= 2848 =>
          ClusterToLba(c) = SectorOf(c) /\ SectorOf(c) \in Int /\ SectorOf(c) \in 0..(ImageSectors - 1)
    /\ ClusterToLba(0) \in Int /\ ClusterToLba(0) \in 0..(ImageSectors - 1)
<1>1. \A c \in Nat : ClusterToLba(c) = c + 31 /\ SectorOf(c) = c + 31
  BY Places2, SMT DEF ClusterToLba, SectorOf, Bpb
<1> DEFINE last == ImageSectors - 1
<1>2. last \in Int /\ last >= 2879
  BY DEF ImageSectors
<1> HIDE DEF last
<1>3. \A n \in Nat : n <= 2879 => n \in 0..last
  BY <1>2
<1>4. \A c \in Nat : c <= 2848 => c + 31 \in Nat /\ c + 31 <= 2879
  OBVIOUS
<1>5. \A c \in Nat : c <= 2848 => c + 31 \in 0..last
  BY <1>3, <1>4
<1>6. 0 + 31 = 31 /\ 0 <= 2848
  OBVIOUS
<1>7. QED  BY <1>1, <1>5, <1>6 DEF last

\* The kernel, if it is there: its size goes with its clusters.
LEMMA KernelFacts ==
    ASSUME TypeOK, Found(Kernel, Wanted)
    PROVE  /\ Kernel \in image.files /\ Kernel.size \in Nat
           /\ Kernel.clusters \in Seq(Nat) /\ DOMAIN Kernel.clusters = 1..Len(Kernel.clusters)
           /\ Len(Kernel.clusters) \in Nat /\ Len(Kernel.clusters) = (Kernel.size + 511) \div 512
           /\ \A i \in DOMAIN Kernel.clusters : 2 <= Kernel.clusters[i] /\ Kernel.clusters[i] <= 2848
           /\ \A i \in DOMAIN Kernel.clusters :
                 /\ Kernel.clusters[i] \in Nat
                 /\ ClusterToLba(Kernel.clusters[i]) = SectorOf(Kernel.clusters[i])
                 /\ SectorOf(Kernel.clusters[i]) \in Int
                 /\ SectorOf(Kernel.clusters[i]) \in 0..(ImageSectors - 1)
           /\ FirstCluster(Kernel) = IF Kernel.size = 0 THEN 0 ELSE Kernel.clusters[1]
           /\ ClusterToLba(FirstCluster(Kernel)) \in 0..(ImageSectors - 1)
<1>1. Kernel \in image.files /\ Kernel.name = Wanted
  BY DEF Found
<1>2. Kernel.clusters \in Seq(Nat) /\ \A i \in DOMAIN Kernel.clusters : 2 <= Kernel.clusters[i] /\ Kernel.clusters[i] <= 2848
  BY <1>1, FileFacts DEF TypeOK
<1>3. Kernel.size \in Nat /\ Len(Kernel.clusters) = (Kernel.size + Bpb.bytesPerSector - 1) \div Bpb.bytesPerSector
  BY <1>1, ProgramsAssumption DEF TypeOK
<1>4. Len(Kernel.clusters) = (Kernel.size + 511) \div 512
  <2>1. Bpb.bytesPerSector = 512
    BY DEF Bpb
  <2>2. Kernel.size + 512 - 1 = Kernel.size + 511
    BY <1>3
  <2>3. QED  BY <1>3, <2>1, <2>2
<1>5. DOMAIN Kernel.clusters = 1..Len(Kernel.clusters) /\ Len(Kernel.clusters) \in Nat
  BY <1>2
<1>6. \A i \in DOMAIN Kernel.clusters : Kernel.clusters[i] \in Nat
  BY <1>2
<1>7. \A i \in DOMAIN Kernel.clusters :
                 /\ ClusterToLba(Kernel.clusters[i]) = SectorOf(Kernel.clusters[i])
                 /\ SectorOf(Kernel.clusters[i]) \in Int
                 /\ SectorOf(Kernel.clusters[i]) \in 0..(ImageSectors - 1)
  BY <1>2, <1>6, ClusterSector
<1>8. Kernel.size = 0 <=> Len(Kernel.clusters) = 0
  BY <1>3, <1>4
<1>9. FirstCluster(Kernel) = IF Kernel.size = 0 THEN 0 ELSE Kernel.clusters[1]
  <2>1. Kernel.clusters = <<>> <=> Len(Kernel.clusters) = 0
    BY <1>2, EmptySeq
  <2>2. QED  BY <1>8, <2>1 DEF FirstCluster
<1>10. ClusterToLba(FirstCluster(Kernel)) \in 0..(ImageSectors - 1)
  <2>1. CASE Kernel.size = 0
    BY <1>9, <2>1, ClusterSector
  <2>2. CASE Kernel.size # 0
    <3>1. 1 \in DOMAIN Kernel.clusters
      BY <1>5, <1>8, <2>2
    <3>2. QED  BY <1>7, <1>9, <2>2, <3>1
  <2>3. QED  BY <2>1, <2>2
<1>11. QED  BY <1>1, <1>2, <1>3, <1>4, <1>5, <1>6, <1>7, <1>9, <1>10

\* What the C code leaves alone.
LEMMA CodeKeeps ==
    ASSUME UNCHANGED <<image, mem, bad>>
    PROVE  /\ Kernel' = Kernel
           /\ \A f, name : Found(f, name)' <=> Found(f, name)
           /\ \A a, x : Holds(a, x)' <=> Holds(a, x)
           /\ \A s : Good(s)' <=> Good(s)
           /\ \A i : Buffered(i)' <=> Buffered(i)
BY SameImage DEF Holds, Good, Piece, Buffered

\* A new request, and a step that asks for nothing.
LEMMA NewRequest ==
    ASSUME TypeOK, Faults2, ~Asking, UNCHANGED <<faults, bad>>, NEW lba, NEW count, NEW at, NEW back,
           Request(lba, count, at, back), pc' = "disk"
    PROVE  /\ req' = [lba |-> lba, count |-> count, at |-> at] /\ AskedFor(lba, count, at)'
           /\ Asking' /\ Point' = back
           /\ Answered' /\ Faults2'
<1>1. tries' = 0 /\ req' = [lba |-> lba, count |-> count, at |-> at] /\ ret' = back
  BY DEF Request
<1>2. Asking' /\ ~Failed' /\ Answered'
  BY DEF Asking, Failed, BiosLabels, Answered, Returns2
<1>3. FaultsSeen' = FaultsSeen /\ FaultsSeen >= 3 * Cardinality(bad) /\ Cardinality(bad) \in Nat
  BY FS_CardinalityType DEF FaultsSeen, Faults2, TypeOK
<1>4. Faults2'
  <2>1. FaultsSeen' >= 3 * Cardinality(bad') + 0 + 0
    BY <1>3
  <2>2. QED  BY <1>1, <1>2, <2>1 DEF Faults2
<1>5. QED  BY <1>1, <1>2, <1>4 DEF AskedFor, Point

LEMMA NoRequest ==
    ASSUME Faults2, ~Asking, UNCHANGED <<faults, bad>>,
           pc' \in {"halt", "wild", "find", "readfile", "copy", "returned", "kernel"}
    PROVE  Point' = pc' /\ Asked2' /\ Answered' /\ Faults2'
<1>1. ~Asking' /\ Point' = pc'
  BY DEF Asking, Point, BiosLabels
<1>2. FaultsSeen' = FaultsSeen
  BY DEF FaultsSeen
<1>3. QED  BY <1>1, <1>2 DEF Asked2, Answered, Faults2, Returns2

\* DISK_Initialize, and what FAT_Initialize reads.
LEMMA DiskInitializedKeeps ==
    ASSUME TypeOK, Control, Drive, SecondStage, ~WrongGeometry, DiskInitialized
    PROVE  SecondStage'
<1>1. /\ pc = "params" /\ bios.fn = "params" /\ UNCHANGED <<image, mem, bad, faults>>
      /\ \/ Request(0, 1, BootSectorAt, "bootsector") /\ pc' = "disk"
         \/ bios.eax = 0
  BY DEF DiskInitialized, diskUnchanged, Control
<1>2. ~Asking /\ Faults2 /\ AskingGeometry
  BY <1>1 DEF Asking, AskingGeometry, BiosLabels, SecondStage
<1>3. bios.eax # 0
  <2>1. bios.eax = 0 => disk.sectors = 0
    BY <1>2 DEF Drive
  <2>2. QED  BY <2>1, HasSectors DEF WrongGeometry
<1>4. Point' = "bootsector" /\ AskedFor(0, 1, BootSectorAt)' /\ Answered' /\ Faults2' /\ Asking'
  BY <1>1, <1>2, <1>3, NewRequest, Zenon
<1>5. Asked2'
  <2>1. req'.lba = 0 /\ 0 \in 0..(ImageSectors - 1)
    BY <1>4 DEF AskedFor, ImageSectors
  <2>2. QED  BY <1>4, <2>1 DEF Asked2, AskedFor
<1>6. pc' = "disk"
  BY <1>1, <1>3
<1> HIDE DEF Point
<1>7. QED  BY <1>4, <1>5, <1>6 DEF SecondStage, Directory, Reading, ReadingPoints, Pieces

LEMMA BootSectorReadKeeps ==
    ASSUME TypeOK, SecondStage, ~WrongGeometry, BootSectorRead
    PROVE  SecondStage'
<1>1. /\ pc = "bootsector" /\ UNCHANGED <<image, mem, bad, faults>>
      /\ \/ Request(1, 9, FatAt, "fatread") /\ pc' = "disk"
         \/ pc' = "halt"
  BY DEF BootSectorRead, diskUnchanged, ReadSectors, Bpb
<1>2. ~Asking /\ Faults2
  BY <1>1 DEF Asking, BiosLabels, SecondStage
<1>3. CASE pc' = "halt"
  <2>1. Point' = "halt" /\ Asked2' /\ Answered' /\ Faults2'
    BY <1>1, <1>2, <1>3, NoRequest
  <2>2. QED  BY <1>3, <2>1 DEF SecondStage, Directory, Reading, ReadingPoints, Pieces
<1>4. CASE Request(1, 9, FatAt, "fatread") /\ pc' = "disk"
  <2>1. Point' = "fatread" /\ AskedFor(1, 9, FatAt)' /\ Answered' /\ Faults2'
    BY <1>1, <1>2, <1>4, NewRequest, Zenon
  <2>2. Asked2'
    <3>1. req'.lba = 1 /\ 1 \in 0..(ImageSectors - 1)
      BY <2>1 DEF AskedFor, ImageSectors
    <3>2. QED  BY <2>1, <3>1 DEF Asked2, AskedFor, FatStart
  <2>3. QED  BY <1>4, <2>1, <2>2 DEF SecondStage, Directory, Reading, ReadingPoints, Pieces
<1>5. QED  BY <1>1, <1>3, <1>4

LEMMA FatReadKeeps ==
    ASSUME TypeOK, SecondStage, ~WrongGeometry, FatRead
    PROVE  SecondStage'
<1>1. /\ pc = "fatread" /\ UNCHANGED <<image, mem, bad, faults>>
      /\ \/ /\ ok /\ Request(rootDirLba, 1, RootBuffer, "rootread") /\ pc' = "disk"
            /\ root' = [pos |-> 0, cluster |-> rootDirLba]
         \/ pc' = "halt"
  BY DEF FatRead, diskUnchanged, ReadSectors
<1>2. ~Asking /\ Faults2 /\ Point = "fatread" /\ Answered /\ Asked2
  BY <1>1 DEF Asking, BiosLabels, SecondStage, Point
<1>3. CASE pc' = "halt"
  <2>1. Point' = "halt" /\ Asked2' /\ Answered' /\ Faults2'
    BY <1>1, <1>2, <1>3, NoRequest
  <2>2. QED  BY <1>3, <2>1 DEF SecondStage, Directory, Reading, ReadingPoints, Pieces
<1>4. CASE /\ ok /\ Request(rootDirLba, 1, RootBuffer, "rootread") /\ pc' = "disk"
           /\ root' = [pos |-> 0, cluster |-> rootDirLba]
  <2>1. Point' = "rootread" /\ AskedFor(rootDirLba, 1, RootBuffer)' /\ Answered' /\ Faults2'
    BY <1>1, <1>2, <1>4, NewRequest, Zenon
  <2>2. rootDirLba = RootStart
    BY Places2, SMT
  <2>3. Asked2'
    <3>1. req'.lba = RootStart /\ RootStart \in 0..(ImageSectors - 1)
      BY <2>1, <2>2 DEF AskedFor, ImageSectors, RootStart
    <3>2. QED  BY <2>1, <2>2, <3>1 DEF Asked2, AskedFor
  <2>4. Directory'
    BY <1>4, <2>1, <2>2 DEF Directory, RootStart, DataStart
  <2>5. Holds(FatAt, FatStart)'
    <3>1. Holds(FatAt, FatStart)
      BY <1>1, <1>2, <1>4 DEF Answered, Asked2, AskedFor, Returns2
    <3>2. QED  BY <1>1, <3>1, CodeKeeps, Zenon
  <2>6. QED  BY <1>4, <2>1, <2>3, <2>4, <2>5 DEF SecondStage, Reading, ReadingPoints, Pieces
<1>5. QED  BY <1>1, <1>3, <1>4

LEMMA RootReadKeeps ==
    ASSUME TypeOK, SecondStage, ~WrongGeometry, RootRead
    PROVE  SecondStage'
<1>1. /\ pc = "rootread" /\ UNCHANGED <<image, mem, bad, faults, root>>
      /\ (ok /\ pc' = "find") \/ pc' = "halt"
  BY DEF RootRead, diskUnchanged, fileVars
<1>2. ~Asking /\ Faults2 /\ Point = "rootread" /\ Answered /\ Asked2 /\ Directory /\ Holds(FatAt, FatStart)
  BY <1>1 DEF Asking, BiosLabels, SecondStage, Point
<1>3. Point' = pc' /\ Asked2' /\ Answered' /\ Faults2'
  BY <1>1, <1>2, NoRequest
<1>4. CASE pc' = "halt"
  BY <1>3, <1>4 DEF SecondStage, Directory, Reading, ReadingPoints, Pieces
<1>5. CASE ok /\ pc' = "find"
  <2>1. Holds(RootBuffer, RootStart) /\ root.cluster = RootStart
    BY <1>1, <1>2, <1>5 DEF Answered, Asked2, AskedFor, Returns2, Directory
  <2>2. Holds(RootBuffer, root.cluster)' /\ Holds(FatAt, FatStart)'
    BY <1>1, <1>2, <2>1 DEF Holds, RootBuffer, MEMORY_FAT_ADDR
  <2>3. \A f \in image'.files : f.slot >= 16 * (root'.cluster - RootStart)
    <3>1. \A f \in image.files : f.slot >= 0
      BY FileFacts DEF TypeOK
    <3>2. 16 * (RootStart - RootStart) = 0
      BY DEF RootStart
    <3>3. QED  BY <1>1, <2>1, <3>1, <3>2
  <2>4. Directory'
    BY <1>1, <1>2, <1>3, <1>5, <2>1, <2>2, <2>3 DEF Directory, RootStart, DataStart
  <2>5. QED  BY <1>3, <1>5, <2>2, <2>4 DEF SecondStage, Reading, ReadingPoints, Pieces
<1>6. QED  BY <1>1, <1>4, <1>5

LEMMA WantedNamed == Wanted # <<>>
<1>1. DOMAIN Wanted = 1..11
  BY DEF Wanted, FatName
<1>2. 1 \in DOMAIN Wanted /\ 1 \notin DOMAIN <<>>
  BY <1>1
<1>3. QED  BY <1>2, Zenon

\* FAT_OpenEntry of an entry with the name of the kernel.
LEMMA OpenEntryKeeps ==
    ASSUME TypeOK, Faults2, ~Asking, Holds(FatAt, FatStart), UNCHANGED <<image, mem, bad, faults>>,
           NEW e \in image.files, e.name = Wanted, OpenEntry(e)
    PROVE  SecondStage'
<1>1. Kernel = e /\ Found(Kernel, Wanted)
  BY NamedFile DEF TypeOK, Kernel, Found
<1>2. /\ fd' = [opened |-> FALSE, pos |-> 0, size |-> Kernel.size, cluster |-> FirstCluster(Kernel)]
      /\ Request(ClusterToLba(FirstCluster(Kernel)), 1, FileBuffer, "opened")
      /\ pc' = "disk"
  BY <1>1 DEF OpenEntry, ReadSectors
<1> DEFINE lba == ClusterToLba(FirstCluster(Kernel))
<1>3. Point' = "opened" /\ req' = [lba |-> lba, count |-> 1, at |-> FileBuffer] /\ Answered' /\ Faults2'
  BY <1>2, NewRequest, Zenon
<1>4. Kernel' = Kernel /\ Found(Kernel, Wanted)' /\ Holds(FatAt, FatStart)'
  BY <1>1, CodeKeeps, Zenon
<1>5. Asked2'
  <2>1. lba \in 0..(ImageSectors - 1) /\ lba' = lba
    BY <1>1, <1>4, KernelFacts
  <2>2. QED  BY <1>3, <1>4, <2>1 DEF Asked2, AskedFor
<1>6. Reading'
  BY <1>2, <1>3, <1>4 DEF Reading, ReadingPoints
<1>7. QED  BY <1>2, <1>3, <1>4, <1>5, <1>6 DEF SecondStage, Directory, Pieces

\* A set of numbers has a least.
LEMMA LeastOf ==
    ASSUME NEW S, S \subseteq Nat, S # {}
    PROVE  \E i \in S : \A j \in S : i <= j
<1>1. PICK i \in S : \A j \in S : ~(<<j, i>> \in OpToRel(<, Nat))
  BY NatLessThanWellFounded, WFMin, Zenon
<1>2. \A j \in S : ~(j < i)
  BY <1>1 DEF OpToRel
<1>3. QED  BY <1>2

LEMMA FindFileKeeps ==
    ASSUME TypeOK, SecondStage, ~WrongGeometry, FindFile
    PROVE  SecondStage'
<1> DEFINE hits == {i \in 0..(EntriesPerSector - 2) : EntryAt(RootBuffer, i).name = Wanted}
           first == CHOOSE i \in hits : \A j \in hits : i <= j
<1>1. /\ pc = "find" /\ UNCHANGED <<image, mem, bad, faults>>
      /\ \/ /\ hits # {} /\ hit' = EntryAt(RootBuffer, first) /\ OpenEntry(hit')
         \/ /\ root.pos < rootDirSize /\ hits = {}
            /\ hit' = EntryAt(RootBuffer, EntriesPerSector - 1)
            /\ root' = [pos |-> root.pos + 512, cluster |-> root.cluster + 1]
            /\ Request(root.cluster + 1, 1, RootBuffer, "compare") /\ pc' = "disk"
         \/ /\ root.pos >= rootDirSize /\ pc' = "wild"
  BY DEF FindFile, diskUnchanged, ReadSectors, Bpb
<1>2. /\ ~Asking /\ Faults2 /\ Point = "find" /\ Directory /\ Holds(FatAt, FatStart)
      /\ image \in Images
  BY <1>1 DEF Asking, BiosLabels, SecondStage, Point, TypeOK
<1>3. /\ root.cluster \in RootStart..DataStart /\ root.pos = 512 * (root.cluster - RootStart)
      /\ bad = {} => Holds(RootBuffer, root.cluster)
      /\ bad = {} => \A f \in image.files : f.name = Wanted => f.slot >= 16 * (root.cluster - RootStart)
  BY <1>2 DEF Directory
<1> DEFINE n == root.cluster - RootStart
<1>4. n \in Nat /\ n <= 14 /\ root.cluster = RootStart + n /\ root.cluster + 1 = RootStart + (n + 1)
      /\ root.pos = 512 * n
  BY <1>3 DEF RootStart, DataStart
<1> HIDE DEF n
<1>5. EntriesPerSector = 16 /\ rootDirSize = 7168
  BY Places2, SMT DEF EntriesPerSector, Bpb, EntrySize
<1>6. CASE hits # {} /\ hit' = EntryAt(RootBuffer, first) /\ OpenEntry(hit')
  <2>1. first \in hits
    <3>1. hits \subseteq Nat
      BY <1>5
    <3>2. \E i \in hits : \A j \in hits : i <= j
      BY <1>6, <3>1, LeastOf
    <3>3. QED  BY <3>2
  <2>2. EntryAt(RootBuffer, first).name = Wanted
    BY <2>1
  <2> HIDE DEF first, hits
  <2>3. EntryAt(RootBuffer, first) \in image.files
    BY <2>2, WantedNamed, EntryIsFile
  <2>4. OpenEntry(EntryAt(RootBuffer, first))
    BY <1>6
  <2>5. QED  BY <1>1, <1>2, <2>2, <2>3, <2>4, OpenEntryKeeps
<1>7. CASE /\ root.pos < rootDirSize /\ hits = {}
           /\ hit' = EntryAt(RootBuffer, EntriesPerSector - 1)
           /\ root' = [pos |-> root.pos + 512, cluster |-> root.cluster + 1]
           /\ Request(root.cluster + 1, 1, RootBuffer, "compare") /\ pc' = "disk"
  <2>1. Point' = "compare" /\ Answered' /\ Faults2'
    BY <1>1, <1>2, <1>7, NewRequest, Zenon
  <2>2. n <= 13
    BY <1>4, <1>5, <1>7
  <2>3. /\ root'.cluster = root.cluster + 1 /\ root'.pos = 512 * (n + 1)
        /\ root'.cluster = RootStart + (n + 1)
    BY <1>4, <1>7
  <2>4. req' = [lba |-> root.cluster + 1, count |-> 1, at |-> RootBuffer]
    BY <1>7 DEF Request
  <2>5. Asked2'
    <3>1. root.cluster + 1 \in 0..(ImageSectors - 1)
      <4> DEFINE last == ImageSectors - 1
      <4>1. last \in Int /\ last >= 33
        BY DEF ImageSectors
      <4>2. root.cluster + 1 \in Nat /\ root.cluster + 1 <= 33
        BY <1>4, <2>2 DEF RootStart
      <4> HIDE DEF last
      <4>3. root.cluster + 1 \in 0..last
        BY <4>1, <4>2
      <4>4. QED  BY <4>3 DEF last
    <3>2. QED  BY <2>1, <2>3, <2>4, <3>1 DEF Asked2, AskedFor
  <2>6. ASSUME bad' = {}, NEW f \in image'.files, f.name = Wanted
        PROVE  f = hit' \/ f.slot >= 16 * (n + 1)
    <3>1. bad = {} /\ f \in image.files
      BY <1>1, <2>6
    <3>2. f.slot \in Nat /\ f.slot >= 16 * n /\ Holds(RootBuffer, RootStart + n)
      BY <1>2, <1>3, <1>4, <2>6, <3>1, FileFacts DEF n
    <3>3. SUFFICES ASSUME f.slot < 16 * (n + 1) PROVE f = hit'
      BY <1>4, <3>2
    <3> DEFINE i == f.slot - 16 * n
    <3>4. i \in 0..15 /\ f.slot = 16 * n + i
      BY <1>4, <3>2, <3>3
    <3> HIDE DEF i
    <3>5. EntryAt(RootBuffer, i) = f
      BY <1>2, <1>4, <3>1, <3>2, <3>4, EntryOfSlot
    <3>6. CASE i = 15
      BY <1>5, <1>7, <3>5, <3>6
    <3>7. CASE i # 15
      <4>1. i \in 0..(EntriesPerSector - 2)
        BY <1>5, <3>4, <3>7
      <4>2. i \in hits
        BY <2>6, <3>5, <4>1
      <4>3. QED  BY <1>7, <4>2
    <3>8. QED  BY <3>6, <3>7
  <2>7. hit'.name = Wanted => hit' \in image'.files
    BY <1>1, <1>7, WantedNamed, EntryIsFile
  <2>8. Directory'
    <3>1. root'.cluster - RootStart = n + 1 /\ root'.cluster \in RootStart..DataStart /\ root'.cluster > RootStart
      BY <1>4, <2>2, <2>3 DEF RootStart, DataStart
    <3>2. pc' # "wild"
      BY <1>7
    <3>3. QED  BY <2>1, <2>3, <2>6, <2>7, <3>1, <3>2 DEF Directory
  <2>9. Holds(FatAt, FatStart)'
    BY <1>1, <1>2, CodeKeeps, Zenon
  <2>10. QED  BY <1>7, <2>1, <2>5, <2>8, <2>9 DEF SecondStage, Reading, ReadingPoints, Pieces
<1>8. CASE root.pos >= rootDirSize /\ pc' = "wild"
  <2>1. Point' = "wild" /\ Asked2' /\ Answered' /\ Faults2'
    BY <1>1, <1>2, <1>8, NoRequest
  <2>2. n >= 14
    BY <1>4, <1>5, <1>8
  <2>3. ASSUME bad = {} PROVE Kernel = NoFile
    <3>1. \A f \in image.files : f.name # Wanted
      <4>1. SUFFICES ASSUME NEW f \in image.files, f.name = Wanted PROVE FALSE
        OBVIOUS
      <4>2. f.slot \in Nat /\ f.slot < 224
        BY <1>2, FileFacts
      <4>3. f.slot >= 16 * n
        BY <1>3, <2>3, <4>1 DEF n
      <4>4. QED  BY <1>4, <2>2, <4>2, <4>3
    <3>2. QED  BY <3>1 DEF Kernel, FileNamed
  <2>4. Kernel' = Kernel
    BY <1>1, CodeKeeps
  <2>5. QED  BY <1>1, <1>8, <2>1, <2>3, <2>4 DEF SecondStage, Directory, Reading, ReadingPoints,
        Pieces, NoFile
<1>9. QED  BY <1>1, <1>6, <1>7, <1>8

LEMMA CompareLastKeeps ==
    ASSUME TypeOK, SecondStage, ~WrongGeometry, CompareLast
    PROVE  SecondStage'
<1>1. /\ pc = "compare" /\ UNCHANGED <<image, mem, bad, faults>>
      /\ \/ hit.name = Wanted /\ OpenEntry(hit)
         \/ hit.name # Wanted /\ pc' = "find" /\ UNCHANGED root
  BY DEF CompareLast, diskUnchanged
<1>2. /\ ~Asking /\ Faults2 /\ Point = "compare" /\ Directory /\ Answered /\ Asked2 /\ Holds(FatAt, FatStart)
  BY <1>1 DEF Asking, BiosLabels, SecondStage, Point
<1>3. CASE hit.name = Wanted /\ OpenEntry(hit)
  <2>1. hit \in image.files
    BY <1>2, <1>3 DEF Directory
  <2>2. QED  BY <1>1, <1>2, <1>3, <2>1, OpenEntryKeeps
<1>4. CASE hit.name # Wanted /\ pc' = "find" /\ root' = root
  <2>1. Point' = "find" /\ Asked2' /\ Answered' /\ Faults2'
    BY <1>1, <1>2, <1>4, NoRequest
  <2>2. /\ root.cluster \in RootStart..DataStart /\ root.pos = 512 * (root.cluster - RootStart)
        /\ bad = {} => \A f \in image.files :
              f.name = Wanted => f = hit \/ f.slot >= 16 * (root.cluster - RootStart)
    BY <1>2 DEF Directory
  <2>3. bad = {} => Holds(RootBuffer, root.cluster)
    BY <1>1, <1>2 DEF Answered, Asked2, AskedFor, Returns2
  <2>4. bad' = {} => Holds(RootBuffer, root.cluster)'
    BY <1>1, <1>4, <2>3 DEF Holds, RootBuffer, MEMORY_FAT_ADDR
  <2>5. Directory'
    BY <1>1, <1>4, <2>1, <2>2, <2>4 DEF Directory, RootStart, DataStart
  <2>6. Holds(FatAt, FatStart)'
    BY <1>1, <1>2, CodeKeeps, Zenon
  <2>7. QED  BY <1>4, <2>1, <2>5, <2>6 DEF SecondStage, Reading, ReadingPoints, Pieces
<1>5. QED  BY <1>1, <1>3, <1>4

\* Where the i-th cluster of the kernel begins and ends.
LEMMA ClusterEnds ==
    ASSUME TypeOK, Found(Kernel, Wanted), NEW i \in DOMAIN Kernel.clusters
    PROVE  /\ i \in Nat /\ i >= 1 /\ i <= Len(Kernel.clusters)
           /\ 512 * (i - 1) < Kernel.size
           /\ (512 * (i - 1) + 511) \div 512 = i - 1
           /\ i < Len(Kernel.clusters) => 512 * i < Kernel.size
           /\ i = Len(Kernel.clusters) => 512 * i >= Kernel.size /\ (Kernel.size + 511) \div 512 = i
<1> DEFINE n == Len(Kernel.clusters)
           size == Kernel.size
<1>1. size \in Nat /\ n \in Nat /\ n = (size + 511) \div 512 /\ i \in 1..n
  <2>1. size \in Nat /\ n \in Nat /\ n = (size + 511) \div 512 /\ DOMAIN Kernel.clusters = 1..n
    BY KernelFacts, Zenon
  <2>2. QED  BY <2>1
<1> HIDE DEF n, size
<1>2. 512 * n <= size + 511 /\ size + 511 < 512 * n + 512
  BY <1>1
<1>3. i \in Nat /\ i >= 1 /\ i <= n
  BY <1>1
<1>4. 512 * (i - 1) < size /\ (i < n => 512 * i < size) /\ (i = n => 512 * i >= size)
  BY <1>1, <1>2, <1>3
<1>5. (512 * (i - 1) + 511) \div 512 = i - 1
  BY <1>3
<1>6. QED  BY <1>1, <1>3, <1>4, <1>5 DEF n, size

LEMMA OpenedKeeps ==
    ASSUME TypeOK, Records, Drive, SecondStage, ~WrongGeometry, Opened
    PROVE  SecondStage'
<1>1. /\ pc = "opened" /\ UNCHANGED <<image, mem, bad, faults, kernel>>
      /\ \/ ok = TRUE /\ fd' = [fd EXCEPT !.opened = TRUE] /\ pc' = "readfile"
         \/ ok = FALSE /\ pc' = "wild"
  BY DEF Opened, diskUnchanged, Drive
<1>2. /\ ~Asking /\ Faults2 /\ Point = "opened" /\ Reading /\ Answered /\ Asked2 /\ Holds(FatAt, FatStart)
  BY <1>1 DEF Asking, BiosLabels, SecondStage, Point
<1>3. CASE ok = FALSE /\ pc' = "wild"
  <2>1. Point' = "wild" /\ Asked2' /\ Answered' /\ Faults2'
    BY <1>1, <1>2, <1>3, NoRequest
  <2>2. bad # {}
    BY <1>3 DEF Drive
  <2>3. QED  BY <1>1, <1>3, <2>1, <2>2 DEF SecondStage, Directory, Reading, ReadingPoints, Pieces
<1>4. CASE ok = TRUE /\ fd' = [fd EXCEPT !.opened = TRUE] /\ pc' = "readfile"
  <2>1. Point' = "readfile" /\ Asked2' /\ Answered' /\ Faults2'
    BY <1>1, <1>2, <1>4, NoRequest
  <2>2. /\ Found(Kernel, Wanted) /\ fd.size = Kernel.size /\ fd.pos = 0
        /\ fd.cluster = FirstCluster(Kernel)
    BY <1>2 DEF Reading
  <2>3. fd'.size = Kernel.size /\ fd'.pos = 0 /\ fd'.cluster = FirstCluster(Kernel)
    BY <1>4, <2>2 DEF Records
  <2>4. Kernel' = Kernel /\ Found(Kernel, Wanted)' /\ Holds(FatAt, FatStart)'
        /\ \A i : Buffered(i)' <=> Buffered(i)
    BY <1>1, <1>2, <2>2, CodeKeeps, Zenon
  <2>5. Holds(FileBuffer, ClusterToLba(FirstCluster(Kernel)))
    BY <1>1, <1>2, <1>4 DEF Answered, Asked2, AskedFor, Returns2
  <2>6. FileBuffer \in DOMAIN mem' /\ mem'[FileBuffer] \in Int
    <3>1. ClusterToLba(FirstCluster(Kernel)) \in 0..(ImageSectors - 1)
      BY <2>2, KernelFacts
    <3>2. QED  BY <1>1, <2>5, <3>1 DEF Holds
  <2>7. fd'.pos = Kernel.size \/ \E i \in DOMAIN Kernel.clusters : AtCluster(i)' /\ Buffered(i)
    <3>1. CASE Kernel.size = 0
      BY <2>3, <3>1
    <3>2. CASE Kernel.size # 0
      <4>1. 1 \in DOMAIN Kernel.clusters
        <5>1. /\ Len(Kernel.clusters) = (Kernel.size + 511) \div 512 /\ Kernel.size \in Nat
              /\ DOMAIN Kernel.clusters = 1..Len(Kernel.clusters)
          BY <2>2, KernelFacts
        <5> DEFINE n == Len(Kernel.clusters)
        <5> HIDE DEF n
        <5>2. n >= 1 /\ n \in Nat
          BY <3>2, <5>1 DEF n
        <5>3. QED  BY <5>1, <5>2 DEF n
      <4>2. FirstCluster(Kernel) = Kernel.clusters[1]
        BY <2>2, <3>2, KernelFacts
      <4>3. Holds(FileBuffer, SectorOf(Kernel.clusters[1]))
        <5>1. ClusterToLba(Kernel.clusters[1]) = SectorOf(Kernel.clusters[1])
          BY <2>2, <4>1, KernelFacts
        <5>2. QED  BY <2>5, <4>2, <5>1
      <4>4. AtCluster(1)'
        BY <2>3, <2>4, <4>1, <4>2 DEF AtCluster
      <4>5. QED  BY <4>1, <4>3, <4>4 DEF Buffered
    <3>3. QED  BY <3>1, <3>2
  <2>8. Reading'
    <3>1. FileBuffer' = FileBuffer
      BY DEF FileBuffer, RootBuffer, MEMORY_FAT_ADDR
    <3>2. QED  BY <2>1, <2>3, <2>4, <2>6, <2>7, <3>1 DEF Reading, ReadingPoints
  <2>9. Pieces'
    <3>1. kernel = <<>>
      BY <1>2 DEF Drive, Unread
    <3>2. Good(<<>>)'
      BY DEF Good
    <3>3. Len(<<>>) = 0 /\ (0 + 511) \div 512 = 0
      OBVIOUS
    <3>4. Good(kernel)' /\ Len(kernel') = (fd'.pos + 511) \div 512
      BY <1>1, <2>3, <3>1, <3>2, <3>3
    <3>5. QED  BY <1>4, <2>1, <3>4 DEF Pieces
  <2>10. QED  BY <1>4, <2>1, <2>4, <2>8, <2>9 DEF SecondStage, Directory
<1>5. QED  BY <1>1, <1>3, <1>4

\* FAT_Read begins: never past the end.
LEMMA ReadBeginsKeeps ==
    ASSUME TypeOK, SecondStage, ~WrongGeometry, ReadBegins
    PROVE  SecondStage'
<1>1. /\ pc = "readfile" /\ pc' = "copy" /\ UNCHANGED <<image, mem, bad, faults, kernel, fd>>
      /\ from' = fd.pos /\ got' = <<>> /\ left' = Lesser(MEMORY_LOAD_SIZE, fd.size - fd.pos)
  BY DEF ReadBegins, diskUnchanged
<1>2. ~Asking /\ Faults2 /\ Point = "readfile" /\ Reading /\ Pieces /\ Holds(FatAt, FatStart)
  BY <1>1 DEF Asking, BiosLabels, SecondStage, Point, ReadingPoints
<1>3. Point' = "copy" /\ Asked2' /\ Answered' /\ Faults2'
  BY <1>1, <1>2, NoRequest
<1>4. /\ Kernel' = Kernel /\ Found(Kernel, Wanted)' /\ Holds(FatAt, FatStart)'
      /\ \A i : (Buffered(i)' <=> Buffered(i)) /\ (AtCluster(i)' <=> AtCluster(i))
      /\ \A s : Good(s)' <=> Good(s)
  <2>1. Found(Kernel, Wanted)
    BY <1>2 DEF Reading, ReadingPoints
  <2>2. Kernel' = Kernel
    BY <1>1, CodeKeeps
  <2>3. \A i : AtCluster(i)' <=> AtCluster(i)
    BY <1>1, <2>2 DEF AtCluster
  <2>4. QED  BY <1>1, <1>2, <2>1, <2>2, <2>3, CodeKeeps, Zenon
<1>5. /\ Found(Kernel, Wanted) /\ fd.size = Kernel.size
      /\ FileBuffer \in DOMAIN mem /\ mem[FileBuffer] \in Int
      /\ fd.pos = Kernel.size \/ \E i \in DOMAIN Kernel.clusters : AtCluster(i) /\ Buffered(i)
  BY <1>2 DEF Reading, ReadingPoints
<1>6. Kernel.size \in Nat /\ fd.pos \in Nat /\ fd.pos <= Kernel.size
  <2>1. Kernel.size \in Nat
    BY <1>5, KernelFacts
  <2>2. ASSUME NEW i \in DOMAIN Kernel.clusters, AtCluster(i) PROVE fd.pos \in Nat /\ fd.pos <= Kernel.size
    <3>1. i \in Nat /\ i >= 1 /\ 512 * (i - 1) < Kernel.size
      BY <1>5, ClusterEnds
    <3>2. fd.pos = 512 * (i - 1)
      BY <2>2 DEF AtCluster
    <3>3. QED  BY <2>1, <3>1, <3>2
  <2>3. QED  BY <1>5, <2>1, <2>2
<1>7. /\ left' \in 0..(Kernel.size - fd.pos)
      /\ left' % 512 = 0 \/ left' = Kernel.size - fd.pos
      /\ left' = 0 => fd.pos = Kernel.size
  <2>1. MEMORY_LOAD_SIZE \in Nat /\ MEMORY_LOAD_SIZE % 512 = 0 /\ MEMORY_LOAD_SIZE # 0
    BY SMT DEF MEMORY_LOAD_SIZE
  <2>2. left' = IF MEMORY_LOAD_SIZE < Kernel.size - fd.pos THEN MEMORY_LOAD_SIZE ELSE Kernel.size - fd.pos
    BY <1>1, <1>5 DEF Lesser
  <2>3. QED  BY <1>6, <2>1, <2>2
<1>8. Reading'
  <2>1. FileBuffer' = FileBuffer
    BY DEF FileBuffer, RootBuffer, MEMORY_FAT_ADDR
  <2>2. fd'.pos = Kernel.size \/ \E i \in DOMAIN Kernel.clusters : AtCluster(i)' /\ Buffered(i)'
    BY <1>1, <1>4, <1>5
  <2>3. from' \in 0..fd'.pos
    BY <1>1, <1>6
  <2>4. QED  BY <1>1, <1>3, <1>4, <1>5, <1>7, <2>1, <2>2, <2>3 DEF Reading, ReadingPoints
<1>9. Pieces'
  <2>1. CASE Kernel.size < MEMORY_LOAD_SIZE
    <3>1. Good(kernel) /\ Len(kernel) = (fd.pos + 511) \div 512
      BY <1>2, <2>1 DEF Pieces
    <3>2. kernel \in Seq(Piece) /\ kernel \o <<>> = kernel
      BY <3>1 DEF Good
    <3>3. Good(kernel)'
      BY <1>1, <1>4, <3>1
    <3>4. got' \in Seq(Piece) /\ kernel' \o got' = kernel /\ kernel' = kernel
      BY <1>1, <3>2
    <3>5. QED  BY <1>1, <1>3, <3>1, <3>2, <3>3, <3>4 DEF Pieces, Piece
  <2>2. CASE ~(Kernel.size < MEMORY_LOAD_SIZE)
    BY <1>4, <2>2 DEF Pieces, MEMORY_LOAD_SIZE
  <2>3. QED  BY <2>1, <2>2
<1>10. QED  BY <1>1, <1>3, <1>4, <1>8, <1>9 DEF SecondStage, Directory

\* The next sector is in the buffer, or was given up.
LEMMA NextSectorKeeps ==
    ASSUME TypeOK, Drive, SecondStage, ~WrongGeometry, NextSector
    PROVE  SecondStage'
<1>1. /\ pc = "nextsector" /\ UNCHANGED <<image, mem, bad, faults, fd, from, left, got, kernel>>
      /\ \/ ok = TRUE /\ pc' = "copy"
         \/ ok = FALSE /\ pc' = "returned"
  BY DEF NextSector, diskUnchanged, fileVars, Drive
<1>2. /\ ~Asking /\ Faults2 /\ Point = "nextsector" /\ Reading /\ Pieces /\ Answered /\ Asked2
      /\ Holds(FatAt, FatStart)
  BY <1>1 DEF Asking, BiosLabels, SecondStage, Point, ReadingPoints
<1>3. Point' = pc' /\ Point' \in {"copy", "returned"} /\ Asked2' /\ Answered' /\ Faults2'
  BY <1>1, <1>2, NoRequest
<1>4. Found(Kernel, Wanted)
  BY <1>2 DEF Reading, ReadingPoints
<1>5. /\ Kernel' = Kernel /\ Found(Kernel, Wanted)' /\ Holds(FatAt, FatStart)'
      /\ \A i : (Buffered(i)' <=> Buffered(i)) /\ (AtCluster(i)' <=> AtCluster(i))
      /\ \A s : Good(s)' <=> Good(s)
  <2>1. Kernel' = Kernel
    BY <1>1, CodeKeeps
  <2>2. \A i : AtCluster(i)' <=> AtCluster(i)
    BY <1>1, <2>1 DEF AtCluster
  <2>3. QED  BY <1>1, <1>2, <1>4, <2>1, <2>2, CodeKeeps, Zenon
<1>6. PICK i \in DOMAIN Kernel.clusters : AtCluster(i)
  BY <1>2 DEF Reading
<1>7. Buffered(i)
  <2>1. AskedFor(ClusterToLba(fd.cluster), 1, FileBuffer)
    BY <1>2 DEF Asked2
  <2>2. ClusterToLba(fd.cluster) = SectorOf(Kernel.clusters[i])
    BY <1>4, <1>6, KernelFacts DEF AtCluster
  <2>3. (ok /\ Holds(req.at, req.lba)) \/ req.lba \in bad
    BY <1>1, <1>2 DEF Answered, Returns2
  <2>4. QED  BY <2>1, <2>2, <2>3 DEF AskedFor, Buffered
<1>8. from \in 0..fd.pos /\ from < fd.pos
  BY <1>2 DEF Reading
<1>9. Reading'
  <2>1. FileBuffer' = FileBuffer
    BY DEF FileBuffer, RootBuffer, MEMORY_FAT_ADDR
  <2>2. \E j \in DOMAIN Kernel.clusters : AtCluster(j)' /\ Buffered(j)'
    BY <1>5, <1>6, <1>7
  <2>3. fd' = fd /\ from' = from /\ left' = left /\ mem' = mem
    BY <1>1
  <2>4. from # fd.pos
    BY <1>8
  <2>5. /\ fd.size = Kernel.size /\ FileBuffer \in DOMAIN mem /\ mem[FileBuffer] \in Int
        /\ left \in 0..(Kernel.size - fd.pos) /\ (left % 512 = 0 \/ left = Kernel.size - fd.pos)
    BY <1>2 DEF Reading, ReadingPoints
  <2>6. QED  BY <1>3, <1>5, <1>8, <2>1, <2>2, <2>3, <2>4, <2>5 DEF Reading, ReadingPoints
<1>10. Pieces'
  <2>1. got' = got /\ kernel' = kernel /\ fd' = fd /\ from' = from
    BY <1>1
  <2>2. pc' # "kernel" /\ Point' # "readfile"
    BY <1>3
  <2>3. QED  BY <1>2, <1>3, <1>5, <2>1, <2>2 DEF Pieces, Piece, MEMORY_LOAD_SIZE
<1>11. QED  BY <1>3, <1>5, <1>9, <1>10 DEF SecondStage, Directory

LEMMA ReadReturnsKeeps ==
    ASSUME TypeOK, SecondStage, ~WrongGeometry, ReadReturns
    PROVE  SecondStage'
<1>1. /\ pc = "copy" /\ left = 0 /\ pc' = "returned"
      /\ UNCHANGED <<image, mem, bad, faults, fd, from, left, got, kernel>>
  BY DEF ReadReturns, diskUnchanged, fileVars
<1>2. ~Asking /\ Faults2 /\ Point = "copy" /\ Reading /\ Pieces /\ Holds(FatAt, FatStart)
  BY <1>1 DEF Asking, BiosLabels, SecondStage, Point, ReadingPoints
<1>3. Point' = "returned" /\ Asked2' /\ Answered' /\ Faults2'
  BY <1>1, <1>2, NoRequest
<1>4. Found(Kernel, Wanted)
  BY <1>2 DEF Reading, ReadingPoints
<1>5. /\ Kernel' = Kernel /\ Found(Kernel, Wanted)' /\ Holds(FatAt, FatStart)'
      /\ \A i : (Buffered(i)' <=> Buffered(i)) /\ (AtCluster(i)' <=> AtCluster(i))
      /\ \A s : Good(s)' <=> Good(s)
  <2>1. Kernel' = Kernel
    BY <1>1, CodeKeeps
  <2>2. \A i : AtCluster(i)' <=> AtCluster(i)
    BY <1>1, <2>1 DEF AtCluster
  <2>3. QED  BY <1>1, <1>2, <1>4, <2>1, <2>2, CodeKeeps, Zenon
<1>6. fd' = fd /\ from' = from /\ mem' = mem /\ got' = got /\ kernel' = kernel
  BY <1>1
<1>7. Reading'
  <2>1. FileBuffer' = FileBuffer
    BY DEF FileBuffer, RootBuffer, MEMORY_FAT_ADDR
  <2>2. QED  BY <1>1, <1>2, <1>3, <1>5, <1>6, <2>1 DEF Reading, ReadingPoints
<1>8. Pieces'
  BY <1>1, <1>2, <1>3, <1>5, <1>6 DEF Pieces, Piece, MEMORY_LOAD_SIZE
<1>9. QED  BY <1>1, <1>3, <1>5, <1>7, <1>8 DEF SecondStage, Directory

\* The number of whole sectors in a length.
LEMMA Sectors ==
    ASSUME NEW n \in Nat, NEW d \in Nat, d < 512
    PROVE  (512 * n + d) \div 512 = n
OBVIOUS

\* One more piece, if it is the one that comes next.
LEMMA OnePieceMore ==
    ASSUME NEW s \in Seq(Piece), NEW t \in Seq(Piece), NEW p \in Piece, NEW n \in Nat,
           Good(s \o t), Len(s \o t) = n,
           p.size = Lesser(512, Kernel.size - 512 * n),
           p.lba = SectorOf(Kernel.clusters[n + 1]) \/ SectorOf(Kernel.clusters[n + 1]) \in bad
    PROVE  /\ Append(t, p) \in Seq(Piece) /\ Good(s \o Append(t, p))
           /\ Len(s \o Append(t, p)) = n + 1
<1> DEFINE u == s \o t
           v == s \o Append(t, p)
<1>1. Append(t, p) \in Seq(Piece) /\ u \in Seq(Piece) /\ v \in Seq(Piece)
  OBVIOUS
<1>2. v = Append(u, p)
  OBVIOUS
<1>3. Good(u) /\ Len(u) = n
  OBVIOUS
<1> HIDE DEF u, v
<1>4. Len(v) = n + 1 /\ DOMAIN v = 1..(n + 1) /\ v[n + 1] = p /\ \A j \in 1..n : v[j] = u[j]
  BY <1>1, <1>2, <1>3
<1>5. \A j \in 1..n : /\ u[j].size = Lesser(512, Kernel.size - 512 * (j - 1))
                      /\ u[j].lba = SectorOf(Kernel.clusters[j]) \/ SectorOf(Kernel.clusters[j]) \in bad
  <2>1. DOMAIN u = 1..n
    BY <1>1, <1>3
  <2>2. QED  BY <1>3, <2>1, SMTT(60) DEF Good
<1>6. (n + 1) - 1 = n /\ \A j \in 1..(n + 1) : j \in 1..n \/ j = n + 1
  OBVIOUS
<1>7. Good(v)
  <2>1. ASSUME NEW j \in DOMAIN v
        PROVE  /\ v[j].size = Lesser(512, Kernel.size - 512 * (j - 1))
               /\ v[j].lba = SectorOf(Kernel.clusters[j]) \/ SectorOf(Kernel.clusters[j]) \in bad
    <3>1. CASE j \in 1..n
      BY <1>4, <1>5, <3>1
    <3>2. CASE j = n + 1
      BY <1>4, <1>6, <3>2
    <3>3. QED  BY <1>4, <1>6, <3>1, <3>2
  <2>2. QED  BY <1>1, <2>1 DEF Good
<1>8. QED  BY <1>1, <1>4, <1>7 DEF v

\* A turn of the loop of FAT_Read.
LEMMA ReadTurnKeeps ==
    ASSUME TypeOK, Records, SecondStage, ~WrongGeometry, ReadTurn
    PROVE  SecondStage'
<1> DEFINE inBuffer == Bpb.bytesPerSector - (fd.pos % Bpb.bytesPerSector)
           take == Lesser(left, inBuffer)
           next == NextCluster(fd.cluster)
           moved == [fd EXCEPT !.pos = @ + take]
           piece == [lba |-> mem[FileBuffer], size |-> take]
           size == Kernel.size
<1>1. /\ pc = "copy" /\ left > 0 /\ UNCHANGED <<image, mem, bad, faults, kernel, from>>
      /\ got' = Append(got, piece) /\ left' = left - take
      /\ \/ take < inBuffer /\ fd' = moved /\ pc' = "copy"
         \/ /\ take = inBuffer /\ next >= EndOfChain
            /\ fd' = [moved EXCEPT !.size = moved.pos, !.cluster = next] /\ pc' = "returned"
         \/ /\ take = inBuffer /\ next < EndOfChain
            /\ fd' = [moved EXCEPT !.cluster = next]
            /\ Request(ClusterToLba(next), 1, FileBuffer, "nextsector") /\ pc' = "disk"
  BY DEF ReadTurn, diskUnchanged, ReadSectors
<1>2. ~Asking /\ Faults2 /\ Point = "copy" /\ Reading /\ Pieces /\ Holds(FatAt, FatStart)
  BY <1>1 DEF Asking, BiosLabels, SecondStage, Point, ReadingPoints
<1>3. /\ Found(Kernel, Wanted) /\ fd.size = size
      /\ FileBuffer \in DOMAIN mem /\ mem[FileBuffer] \in Int
      /\ fd.pos = size \/ \E i \in DOMAIN Kernel.clusters : AtCluster(i) /\ Buffered(i)
      /\ left \in 0..(size - fd.pos) /\ (left % 512 = 0 \/ left = size - fd.pos)
      /\ from \in 0..fd.pos
  BY <1>2 DEF Reading, ReadingPoints
<1>4. size \in Nat
  BY <1>3, KernelFacts
<1>5. PICK i \in DOMAIN Kernel.clusters : AtCluster(i) /\ Buffered(i)
  <2>1. fd.pos # size
    BY <1>1, <1>3, <1>4
  <2>2. QED  BY <1>3, <2>1
<1>6. /\ i \in Nat /\ i >= 1 /\ i <= Len(Kernel.clusters) /\ Len(Kernel.clusters) \in Nat
      /\ 512 * (i - 1) < size
      /\ i = Len(Kernel.clusters) => 512 * i >= size
  BY <1>3, ClusterEnds, KernelFacts
<1>7. fd.pos = 512 * (i - 1) /\ fd.cluster = Kernel.clusters[i]
  BY <1>5 DEF AtCluster
<1>8. inBuffer = 512
  <2>1. (512 * (i - 1)) % 512 = 0
    BY <1>6
  <2>2. QED  BY <1>7, <2>1 DEF Bpb
<1>9. /\ take = IF left < 512 THEN left ELSE 512
      /\ take \in Nat /\ take >= 1 /\ take <= 512 /\ take <= left /\ left \in Nat
      /\ take = Lesser(512, size - 512 * (i - 1))
      /\ take < 512 => left = take /\ fd.pos + take = size
      /\ (fd.pos + take + 511) \div 512 = i
  <2>1. take = IF left < 512 THEN left ELSE 512
    BY <1>8 DEF Lesser
  <2> HIDE DEF take
  <2>2. left \in Nat /\ left >= 1 /\ left <= size - fd.pos
    BY <1>1, <1>3, <1>4, <1>6, <1>7
  <2>3. take \in Nat /\ take >= 1 /\ take <= 512 /\ take <= left
    BY <2>1, <2>2
  <2>4. take < 512 => left = take /\ left = size - fd.pos
    <3>1. left < 512 => left % 512 = left
      BY <2>2
    <3>2. QED  BY <1>3, <2>1, <2>2, <3>1
  <2>5. take = Lesser(512, size - 512 * (i - 1))
    <3> DEFINE x == size - 512 * (i - 1)
    <3>1. x \in Int /\ left <= x /\ (take < 512 => take = x)
      BY <1>4, <1>6, <1>7, <2>2, <2>4
    <3> HIDE DEF x
    <3>2. take = IF 512 < x THEN 512 ELSE x
      BY <2>1, <2>2, <3>1
    <3>3. QED  BY <3>2 DEF Lesser, x
  <2>6. (fd.pos + take + 511) \div 512 = i
    <3>1. fd.pos + take + 511 = 512 * i + (take - 1)
      BY <1>6, <1>7, <2>3
    <3>2. take - 1 \in Nat /\ take - 1 < 512
      BY <2>3
    <3>3. (512 * i + (take - 1)) \div 512 = i
      BY <1>6, <3>2, Sectors
    <3>4. QED  BY <3>1, <3>3, ZenonT(60)
  <2>7. take < 512 => fd.pos + take = size
    BY <1>4, <1>6, <1>7, <2>3, <2>4
  <2>8. QED  BY <2>1, <2>2, <2>3, <2>4, <2>5, <2>6, <2>7, ZenonT(60)
<1> DEFINE clusters == Len(Kernel.clusters)
           Bounds == /\ i \in Nat /\ clusters \in Nat /\ i >= 1 /\ i <= clusters
                     /\ fd.pos \in Nat /\ fd.pos = 512 * (i - 1) /\ size \in Nat /\ fd.pos < size
                     /\ left \in Nat /\ left <= size - fd.pos
                     /\ take \in Nat /\ take >= 1 /\ take <= 512 /\ take <= left
                     /\ i = clusters => 512 * i >= size
<1> HIDE DEF take, inBuffer, clusters
<1>10. Bounds
  <2>1. fd.pos \in Nat /\ fd.pos < size
    BY <1>6, <1>7
  <2>2. left <= size - fd.pos
    BY <1>3, <1>4, <2>1
  <2>3. QED  BY <1>4, <1>6, <1>7, <1>9, <2>1, <2>2 DEF clusters
<1>11. next = IF i = Len(Kernel.clusters) THEN 4095 ELSE Kernel.clusters[i + 1]
  <2>1. next = Successor(Kernel.clusters[i])
    BY <1>2, <1>3, <1>7, KernelFacts, NextClusterRight, SMTT(60) DEF TypeOK
  <2>2. Kernel \in image.files /\ image \in Images
    BY <1>3 DEF Found, TypeOK
  <2>3. QED  BY <2>1, <2>2, SuccessorInChain
<1> HIDE DEF next
<1>12. i # Len(Kernel.clusters) =>
          /\ i + 1 \in DOMAIN Kernel.clusters /\ next = Kernel.clusters[i + 1] /\ next < EndOfChain
          /\ ClusterToLba(next) \in 0..(ImageSectors - 1)
  <2>1. SUFFICES ASSUME i # Len(Kernel.clusters)
                 PROVE  /\ i + 1 \in DOMAIN Kernel.clusters /\ next = Kernel.clusters[i + 1] /\ next < EndOfChain
                        /\ ClusterToLba(next) \in 0..(ImageSectors - 1)
    OBVIOUS
  <2>2. i + 1 \in DOMAIN Kernel.clusters
    <3>1. DOMAIN Kernel.clusters = 1..Len(Kernel.clusters)
      BY <1>3, KernelFacts
    <3>2. QED  BY <1>6, <2>1, <3>1
  <2>3. Kernel.clusters[i + 1] \in Nat /\ Kernel.clusters[i + 1] <= 2848
    BY <1>3, <2>2, KernelFacts
  <2>4. ClusterToLba(Kernel.clusters[i + 1]) \in 0..(ImageSectors - 1)
    <3>1. 2 <= Kernel.clusters[i + 1]
      BY <1>3, <2>2, KernelFacts
    <3>2. QED  BY <2>3, <3>1, ClusterSector
  <2>5. QED  BY <1>11, <2>1, <2>2, <2>3, <2>4 DEF EndOfChain
<1>13. next >= EndOfChain => i = Len(Kernel.clusters)
  <2>1. CASE i = Len(Kernel.clusters)
    BY <2>1
  <2>2. CASE i # Len(Kernel.clusters)
    <3>1. next \in Int /\ next < EndOfChain
      BY <1>3, <1>12, <2>2, KernelFacts
    <3>2. QED  BY <3>1 DEF EndOfChain
  <2>3. QED  BY <2>1, <2>2
<1>14. next < EndOfChain => i # Len(Kernel.clusters)
  BY <1>11 DEF EndOfChain
<1>15. /\ Kernel' = Kernel /\ Found(Kernel, Wanted)' /\ Holds(FatAt, FatStart)'
       /\ \A s : Good(s)' <=> Good(s)
  <2>1. Kernel' = Kernel
    BY <1>1, CodeKeeps
  <2>2. QED  BY <1>1, <1>2, <1>3, <2>1, CodeKeeps, Zenon
\* The pieces.
<1>16. size < MEMORY_LOAD_SIZE =>
          /\ got' \in Seq(Piece) /\ kernel' \in Seq(Piece) /\ Good(kernel \o got)'
          /\ Len(kernel' \o got') = (fd.pos + take + 511) \div 512
  <2>1. SUFFICES ASSUME size < MEMORY_LOAD_SIZE
                 PROVE  /\ got' \in Seq(Piece) /\ kernel' \in Seq(Piece) /\ Good(kernel \o got)'
                        /\ Len(kernel' \o got') = (fd.pos + take + 511) \div 512
    OBVIOUS
  <2>2. /\ got \in Seq(Piece) /\ kernel \in Seq(Piece) /\ Good(kernel \o got)
        /\ Len(kernel \o got) = (fd.pos + 511) \div 512
    BY <1>2, <2>1 DEF Pieces
  <2>3. Len(kernel \o got) = i - 1 /\ i - 1 \in Nat /\ (i - 1) + 1 = i
    <3>1. i - 1 \in Nat /\ (i - 1) + 1 = i /\ fd.pos + 511 = 512 * (i - 1) + 511
      BY <1>10
    <3>2. (512 * (i - 1) + 511) \div 512 = i - 1
      BY <3>1, Sectors
    <3>3. QED  BY <2>2, <3>1, <3>2
  <2>4. piece \in Piece /\ piece.size = Lesser(512, Kernel.size - 512 * (i - 1))
    BY <1>3, <1>9 DEF Piece
  <2>5. piece.lba = SectorOf(Kernel.clusters[i]) \/ SectorOf(Kernel.clusters[i]) \in bad
    BY <1>5 DEF Buffered, Holds
  <2> HIDE DEF piece
  <2>6. /\ Append(got, piece) \in Seq(Piece) /\ Good(kernel \o Append(got, piece))
        /\ Len(kernel \o Append(got, piece)) = i
    BY <2>2, <2>3, <2>4, <2>5, OnePieceMore
  <2>7. kernel' = kernel /\ got' = Append(got, piece)
    BY <1>1 DEF piece
  <2>8. Good(kernel \o got)'
    BY <1>15, <2>6, <2>7
  <2>9. QED  BY <1>9, <2>2, <2>6, <2>7, <2>8
<1> HIDE DEF size
<1>17. fd' = moved \/ fd' = [moved EXCEPT !.size = moved.pos, !.cluster = next]
          \/ fd' = [moved EXCEPT !.cluster = next]
  BY <1>1
<1>18. fd'.pos = fd.pos + take
  BY <1>17 DEF Records
<1>19. FileBuffer \in DOMAIN mem' /\ mem'[FileBuffer] \in Int /\ FileBuffer' = FileBuffer
  BY <1>1, <1>3 DEF FileBuffer, RootBuffer, MEMORY_FAT_ADDR
<1>20. from' = from /\ from \in 0..fd'.pos /\ from < fd'.pos
  BY <1>1, <1>3, <1>10, <1>18, SMTT(60)
<1>21. fd'.pos \in Nat
  BY <1>10, <1>18
\* The call goes on at the end of the file.
<1>22. CASE take < inBuffer /\ fd' = moved /\ pc' = "copy"
  <2>1. Point' = "copy" /\ Asked2' /\ Answered' /\ Faults2'
    BY <1>1, <1>2, <1>22, NoRequest
  <2>2. fd'.pos = size /\ left' = 0 /\ fd'.size = size
    <3>1. fd'.size = size
      BY <1>3, <1>22 DEF Records
    <3>2. QED  BY <1>1, <1>8, <1>9, <1>18, <1>22, <3>1
  <2>3. Reading'
    <3>1. left' \in 0..(size - fd'.pos) /\ left' = size - fd'.pos
      BY <1>4, <2>2
    <3>2. QED  BY <1>15, <1>19, <1>20, <2>1, <2>2, <3>1 DEF Reading, ReadingPoints, size
  <2>4. Pieces'
    BY <1>15, <1>16, <1>18, <1>20, <1>22, <2>1 DEF Pieces, Piece, MEMORY_LOAD_SIZE, size
  <2>5. QED  BY <1>15, <1>22, <2>1, <2>3, <2>4 DEF SecondStage, Directory
\* The chain is over.
<1>23. CASE /\ take = inBuffer /\ next >= EndOfChain
            /\ fd' = [moved EXCEPT !.size = moved.pos, !.cluster = next] /\ pc' = "returned"
  <2>1. Point' = "returned" /\ Asked2' /\ Answered' /\ Faults2'
    BY <1>1, <1>2, <1>23, NoRequest
  <2>2. fd'.pos = size /\ fd'.size = size
    <3>1. i = Len(Kernel.clusters)
      BY <1>13, <1>23
    <3>2. fd.pos + take = 512 * i
      BY <1>8, <1>23, <1>10
    <3>3. fd.pos + take <= size
      BY <1>10
    <3>4. 512 * i >= size
      BY <1>10, <3>1 DEF clusters
    <3>5. fd'.size = fd'.pos
      BY <1>23 DEF Records
    <3>6. QED  BY <1>10, <1>18, <3>2, <3>3, <3>4, <3>5
  <2>3. Reading'
    BY <1>15, <1>19, <1>20, <2>1, <2>2 DEF Reading, ReadingPoints, size
  <2>4. Pieces'
    BY <1>15, <1>16, <1>18, <1>20, <1>23, <2>1 DEF Pieces, Piece, MEMORY_LOAD_SIZE, size
  <2>5. QED  BY <1>15, <1>23, <2>1, <2>3, <2>4 DEF SecondStage, Directory
\* The next sector is asked for.
<1>24. CASE /\ take = inBuffer /\ next < EndOfChain
            /\ fd' = [moved EXCEPT !.cluster = next]
            /\ Request(ClusterToLba(next), 1, FileBuffer, "nextsector") /\ pc' = "disk"
  <2> DEFINE lba == ClusterToLba(next)
  <2>1. Point' = "nextsector" /\ Answered' /\ Faults2' /\ req' = [lba |-> lba, count |-> 1, at |-> FileBuffer]
    BY <1>1, <1>2, <1>24, NewRequest, Zenon
  <2>2. i # Len(Kernel.clusters)
    BY <1>14, <1>24
  <2>3. /\ i + 1 \in DOMAIN Kernel.clusters /\ next = Kernel.clusters[i + 1]
        /\ lba \in 0..(ImageSectors - 1)
    BY <1>12, <2>2
  <2>4. fd'.cluster = next /\ fd'.size = size /\ fd'.pos = 512 * i
    <3>1. fd'.cluster = next /\ fd'.size = size
      BY <1>3, <1>24 DEF Records
    <3>2. QED  BY <1>8, <1>18, <1>24, <1>10, <3>1
  <2>5. ClusterToLba(fd.cluster)' = lba
    BY <2>4 DEF ClusterToLba, dataSectionLba, rootDirLba, rootDirSize, Bpb, EntrySize
  <2>6. Asked2'
    BY <1>19, <2>1, <2>3, <2>5 DEF Asked2, AskedFor
  <2>7. AtCluster(i + 1)'
    <3>1. (i + 1) - 1 = i
      BY <1>6
    <3>2. QED  BY <1>15, <2>3, <2>4, <3>1 DEF AtCluster
  <2>8. left' \in 0..(size - fd'.pos) /\ (left' % 512 = 0 \/ left' = size - fd'.pos)
    <3>1. left' = left - 512 /\ fd'.pos = fd.pos + 512
      BY <1>1, <1>8, <1>18, <1>24
    <3>2. left \in Nat /\ left >= 512 /\ left <= size - fd.pos
      BY <1>8, <1>24, <1>10
    <3>3. left % 512 = 0 => (left - 512) % 512 = 0
      BY <3>2
    <3>4. left' \in 0..(size - fd'.pos)
      BY <1>10, <3>1, <3>2
    <3>5. left = size - fd.pos => left' = size - fd'.pos
      BY <1>10, <3>1
    <3>6. QED  BY <1>3, <3>1, <3>3, <3>4, <3>5
  <2>9. Reading'
    BY <1>15, <1>19, <1>20, <2>1, <2>3, <2>4, <2>7, <2>8, ZenonT(60) DEF Reading, ReadingPoints, size
  <2>10. Pieces'
    BY <1>15, <1>16, <1>18, <1>20, <1>24, <2>1 DEF Pieces, Piece, MEMORY_LOAD_SIZE, size
  <2>11. QED  BY <1>15, <1>24, <2>1, <2>6, <2>9, <2>10 DEF SecondStage, Directory
<1>25. QED  BY <1>1, <1>22, <1>23, <1>24

\* main copies what was read, or starts the kernel.
LEMMA CopyKernelKeeps ==
    ASSUME TypeOK, Records, SecondStage, ~WrongGeometry, CopyKernel
    PROVE  SecondStage'
<1> DEFINE read == fd.pos - from
           size == Kernel.size
<1>1. /\ pc = "returned" /\ UNCHANGED <<image, mem, bad, faults, root, hit, from, left, got>>
      /\ \/ /\ read > 0 /\ pc' = "readfile" /\ fd' = fd
            /\ kernel' = kernel \o (IF Copied(read) = read THEN got ELSE <<[lba |-> -1, size |-> read]>>)
         \/ read = 0 /\ fd' = [fd EXCEPT !.opened = FALSE] /\ pc' = "kernel" /\ kernel' = kernel
  BY DEF CopyKernel, diskUnchanged
<1>2. ~Asking /\ Faults2 /\ Point = "returned" /\ Reading /\ Pieces /\ Holds(FatAt, FatStart)
  BY <1>1 DEF Asking, BiosLabels, SecondStage, Point, ReadingPoints
<1>3. Point' = pc' /\ pc' \in {"readfile", "kernel"} /\ Asked2' /\ Answered' /\ Faults2'
  BY <1>1, <1>2, NoRequest
<1>4. /\ Found(Kernel, Wanted) /\ fd.size = size
      /\ FileBuffer \in DOMAIN mem /\ mem[FileBuffer] \in Int
      /\ fd.pos = size \/ \E i \in DOMAIN Kernel.clusters : AtCluster(i) /\ Buffered(i)
      /\ from \in 0..fd.pos
      /\ from = fd.pos => fd.pos = size
  BY <1>2 DEF Reading, ReadingPoints
<1>5. size \in Nat
  BY <1>4, KernelFacts
<1>6. fd.pos \in Nat /\ fd.pos <= size
  <2>1. CASE fd.pos = size
    BY <1>5, <2>1
  <2>2. ASSUME NEW i \in DOMAIN Kernel.clusters, AtCluster(i) PROVE fd.pos \in Nat /\ fd.pos <= size
    <3>1. i \in Nat /\ i >= 1 /\ 512 * (i - 1) < size
      BY <1>4, ClusterEnds, KernelFacts
    <3>2. fd.pos = 512 * (i - 1)
      BY <2>2 DEF AtCluster
    <3>3. QED  BY <1>5, <3>1, <3>2
  <2>3. QED  BY <1>4, <2>1, <2>2
<1>7. /\ fd'.pos = fd.pos /\ fd'.size = fd.size /\ fd'.cluster = fd.cluster
  BY <1>1 DEF Records
<1>8. /\ Kernel' = Kernel /\ Found(Kernel, Wanted)' /\ Holds(FatAt, FatStart)'
      /\ \A i : (Buffered(i)' <=> Buffered(i)) /\ (AtCluster(i)' <=> AtCluster(i))
      /\ \A s : Good(s)' <=> Good(s)
  <2>1. Kernel' = Kernel
    BY <1>1, CodeKeeps
  <2>2. \A i : AtCluster(i)' <=> AtCluster(i)
    BY <1>7, <2>1 DEF AtCluster
  <2>3. QED  BY <1>1, <1>2, <1>4, <2>1, <2>2, CodeKeeps, Zenon
<1>9. Reading'
  <2>1. FileBuffer' = FileBuffer /\ mem' = mem
    BY <1>1 DEF FileBuffer, RootBuffer, MEMORY_FAT_ADDR
  <2>2. QED  BY <1>3, <1>4, <1>7, <1>8, <2>1 DEF Reading, ReadingPoints
<1>10. Pieces'
  <2>1. CASE size < MEMORY_LOAD_SIZE
    <3>1. /\ got \in Seq(Piece) /\ kernel \in Seq(Piece)
          /\ Good(kernel \o got)
          /\ Len(kernel \o got) = (fd.pos + 511) \div 512
          /\ from = fd.pos => got = <<>>
      BY <1>2, <2>1 DEF Pieces
    <3>2. CASE read > 0 /\ pc' = "readfile"
      <4>1. read \in Nat /\ read < 65536
        <5>1. size \in Nat /\ size < 65536
          BY <1>5, <2>1 DEF MEMORY_LOAD_SIZE
        <5>2. from \in Nat /\ from <= fd.pos
          BY <1>4, <1>6
        <5> HIDE DEF size
        <5>3. QED  BY <1>6, <5>1, <5>2
      <4> HIDE DEF read
      <4>2. Copied(read) = read
        BY <4>1 DEF Copied
      <4>3. kernel' = kernel \o got
        BY <1>1, <3>2, <4>2 DEF read
      <4>4. Good(kernel)' /\ Len(kernel') = (fd'.pos + 511) \div 512
        BY <1>7, <1>8, <3>1, <4>3
      <4>5. QED  BY <1>3, <1>8, <3>2, <4>4 DEF Pieces
    <3>3. CASE read = 0 /\ pc' = "kernel" /\ kernel' = kernel
      <4>1. from = fd.pos /\ fd.pos = size
        BY <1>4, <1>6, <3>3
      <4>2. kernel \o got = kernel
        BY <3>1, <4>1
      <4>3. Good(kernel)' /\ Len(kernel') = (size + 511) \div 512
        BY <1>8, <3>1, <3>3, <4>1, <4>2
      <4>4. QED  BY <1>3, <1>8, <3>3, <4>3 DEF Pieces
    <3>4. QED  BY <1>1, <3>2, <3>3
  <2>2. CASE ~(size < MEMORY_LOAD_SIZE)
    BY <1>8, <2>2 DEF Pieces, MEMORY_LOAD_SIZE
  <2>3. QED  BY <2>1, <2>2
<1>11. QED  BY <1>1, <1>3, <1>8, <1>9, <1>10 DEF SecondStage, Directory, ReadingPoints

LEMMA SecondStageInit == Init => SecondStage
<1> SUFFICES ASSUME Init PROVE SecondStage
    OBVIOUS
<1>1. Drive /\ pc \in Before
  BY DriveInit DEF Init, DiskInit, Init1, Before, Labels1
<1>2. QED  BY <1>1, NotBefore DEF SecondStage

\* The second stage is at work: it has asked for the geometry.  What it was
\* told is kept.
LEMMA GeometryKept ==
    ASSUME Records, Control, [Next]_vars, (pc \notin Before /\ ~AskingGeometry)'
    PROVE  /\ disk'.sectors = disk.sectors /\ disk'.heads = disk.heads
           /\ (pc \notin Before /\ ~AskingGeometry) \/ DiskInitialized
<1> DEFINE Working == pc \notin Before /\ ~AskingGeometry
           Goal == disk'.sectors = disk.sectors /\ disk'.heads = disk.heads /\ (Working \/ DiskInitialized)
<1>1. CASE Next1 /\ UNCHANGED stage2Vars
  BY <1>1, FirstLabels DEF Before
<1>2. CASE Next2
  <2>1. disk' = disk /\ Working => Goal
    OBVIOUS
  <2> HIDE DEF Goal
  <2>2. CASE Entry
      BY <2>2, <2>1 DEF Entry, entryVars, fileVars, Before, Labels1, AskingGeometry,
        BiosLabels
  <2>3. CASE StepA20
      BY <2>3, <2>1 DEF StepA20, fileVars, Before, Labels1, AskingGeometry, BiosLabels
  <2>4. CASE Controller
      BY <2>4, <2>1 DEF Controller, fileVars, Before, Labels1, AskingGeometry, BiosLabels
  <2>5. CASE KeyPressed
      BY <2>5, <2>1 DEF KeyPressed, fileVars, Before, Labels1, AskingGeometry, BiosLabels
  <2>6. CASE Start
      BY <2>6, <2>1 DEF Start, entryVars, fileVars, Before, Labels1, AskingGeometry,
        BiosLabels
  <2>7. CASE Enter16Bit
      BY <2>7, <2>1 DEF Enter16Bit, entryVars, fileVars, Before, Labels1, AskingGeometry,
        BiosLabels
  <2>8. CASE LeaveProtected
      BY <2>8, <2>1 DEF LeaveProtected, entryVars, fileVars, Before, Labels1,
        AskingGeometry, BiosLabels
  <2>9. CASE Sti
      BY <2>9, <2>1 DEF Sti, entryVars, fileVars, Before, Labels1, AskingGeometry,
        BiosLabels
  <2>10. CASE Int13
      BY <2>10, <2>1 DEF Int13, entryVars, fileVars, Before, Labels1, AskingGeometry,
        BiosLabels, Int13Read, Int13Reset, Int13Params, Records
  <2>11. CASE Cli
      BY <2>11, <2>1 DEF Cli, entryVars, fileVars, Before, Labels1, AskingGeometry,
        BiosLabels
  <2>12. CASE EnterProtected
      BY <2>12, <2>1 DEF EnterProtected, entryVars, fileVars, Before, Labels1,
        AskingGeometry, BiosLabels, Control, Asking, Returns2
  <2>13. CASE DiskInitialized
    BY <2>13 DEF DiskInitialized, Request, Records, Goal
  <2>14. CASE DiskTry
      BY <2>14, <2>1 DEF DiskTry, diskUnchanged, entryVars, fileVars, CallBios, Before,
        Labels1, AskingGeometry, BiosLabels
  <2>15. CASE DiskTried
      BY <2>15, <2>1 DEF DiskTried, diskUnchanged, entryVars, fileVars, CallBios, Before,
        Labels1, AskingGeometry, BiosLabels, Control, Asking, Returns2
  <2>16. CASE DiskReset
      BY <2>16, <2>1 DEF DiskReset, diskUnchanged, entryVars, fileVars, Before, Labels1,
        AskingGeometry, BiosLabels, Control, Asking, Returns2
  <2>17. CASE BootSectorRead
      BY <2>17, <2>1 DEF BootSectorRead, diskUnchanged, entryVars, fileVars, ReadSectors,
        Request, Before, Labels1, AskingGeometry, BiosLabels
  <2>18. CASE FatRead
      BY <2>18, <2>1 DEF FatRead, diskUnchanged, entryVars, ReadSectors, Request, Before,
        Labels1, AskingGeometry, BiosLabels
  <2>19. CASE RootRead
      BY <2>19, <2>1 DEF RootRead, diskUnchanged, entryVars, fileVars, Before, Labels1,
        AskingGeometry, BiosLabels
  <2>20. CASE FindFile
      BY <2>20, <2>1 DEF FindFile, diskUnchanged, entryVars, OpenEntry, ReadSectors,
        Request, Before, Labels1, AskingGeometry, BiosLabels
  <2>21. CASE CompareLast
      BY <2>21, <2>1 DEF CompareLast, diskUnchanged, entryVars, OpenEntry, ReadSectors,
        Request, Before, Labels1, AskingGeometry, BiosLabels
  <2>22. CASE Opened
      BY <2>22, <2>1 DEF Opened, diskUnchanged, entryVars, Before, Labels1, AskingGeometry,
        BiosLabels
  <2>23. CASE ReadBegins
      BY <2>23, <2>1 DEF ReadBegins, diskUnchanged, entryVars, Before, Labels1,
        AskingGeometry, BiosLabels
  <2>24. CASE ReadTurn
      BY <2>24, <2>1 DEF ReadTurn, diskUnchanged, entryVars, ReadSectors, Request, Before,
        Labels1, AskingGeometry, BiosLabels
  <2>25. CASE NextSector
      BY <2>25, <2>1 DEF NextSector, diskUnchanged, entryVars, fileVars, Before, Labels1,
        AskingGeometry, BiosLabels
  <2>26. CASE ReadReturns
      BY <2>26, <2>1 DEF ReadReturns, diskUnchanged, entryVars, fileVars, Before, Labels1,
        AskingGeometry, BiosLabels
  <2>27. CASE CopyKernel
      BY <2>27, <2>1 DEF CopyKernel, diskUnchanged, entryVars, Before, Labels1,
        AskingGeometry, BiosLabels
    <2>28. QED  BY <1>2, <2>2, <2>3, <2>4, <2>5, <2>6, <2>7, <2>8, <2>9, <2>10, <2>11, <2>12, <2>13,
      <2>14, <2>15, <2>16, <2>17, <2>18, <2>19, <2>20, <2>21, <2>22, <2>23, <2>24, <2>25, <2>26,
      <2>27 DEF Next2, Goal
<1>3. CASE UNCHANGED vars
  BY <1>3 DEF vars, bootVars, stage1Vars, stage2Vars, AskingGeometry
<1>4. CASE Stopped
  BY <1>3, <1>4 DEF Stopped
<1>5. QED  BY <1>1, <1>2, <1>3, <1>4 DEF Next

LEMMA SecondStageStep ==
    TypeOK /\ Records /\ Control /\ FirstFaults /\ Drive /\ SecondStage /\ [Next]_vars => SecondStage'
<1> SUFFICES ASSUME TypeOK, Records, Control, FirstFaults, Drive, SecondStage, [Next]_vars,
                    ~WrongGeometry'
             PROVE  SecondStage'
  BY DEF SecondStage
<1>1. TypeOK' /\ Drive'
  BY TypeStep, DriveStep
<1>2. pc' \notin Before
  <2>1. Drive' /\ (pc \in Before)' => WrongGeometry'
    BY NotBefore, PTL
  <2>2. QED  BY <1>1, <2>1
<1>3. CASE AskingGeometry'
  <2>1. TypeOK' /\ Drive' /\ AskingGeometry' => SecondStage'
    BY NothingRead, PTL
  <2>2. QED  BY <1>1, <1>3, <2>1
<1>4. CASE ~AskingGeometry'
  <2>1. /\ disk'.sectors = disk.sectors /\ disk'.heads = disk.heads
        /\ (pc \notin Before /\ ~AskingGeometry) \/ DiskInitialized
    BY <1>2, <1>4, GeometryKept
  <2>2. ~WrongGeometry
    BY <2>1 DEF WrongGeometry
  <2>3. CASE DiskInitialized
    BY <2>2, <2>3, DiskInitializedKeeps
  <2>4. CASE Next2 /\ ~DiskInitialized /\ Asking
    BY <2>2, <2>4, UnderWayOnly, UnderWaySecondStage
  <2>5. CASE Next2 /\ ~DiskInitialized /\ ~Asking
    <3>1. pc \notin Before /\ pc \notin BiosLabels \union {"disk", "readdone", "resetdone"}
      BY <2>1, <2>5 DEF Asking, AskingGeometry
    <3>2. \/ BootSectorRead \/ FatRead \/ RootRead \/ FindFile \/ CompareLast
          \/ Opened \/ ReadBegins \/ ReadTurn \/ NextSector \/ ReadReturns \/ CopyKernel
      <4>1. ~Entry /\ ~StepA20 /\ ~Controller /\ ~KeyPressed /\ ~Start
        BY <3>1 DEF Entry, StepA20, Controller, KeyPressed, Start, Before
      <4>2. ~Enter16Bit /\ ~LeaveProtected /\ ~Sti /\ ~Int13 /\ ~Cli /\ ~EnterProtected
        BY <3>1 DEF Enter16Bit, LeaveProtected, Sti, Int13, Cli, EnterProtected, BiosLabels
      <4>3. ~DiskTry /\ ~DiskTried /\ ~DiskReset
        BY <3>1 DEF DiskTry, DiskTried, DiskReset
      <4>4. QED  BY <2>5, <4>1, <4>2, <4>3 DEF Next2
    <3>3. QED  BY <2>2, <3>2, BootSectorReadKeeps, FatReadKeeps, RootReadKeeps, FindFileKeeps,
               CompareLastKeeps, OpenedKeeps, ReadBeginsKeeps, ReadTurnKeeps, NextSectorKeeps, ReadReturnsKeeps, CopyKernelKeeps
  <2>6. CASE UNCHANGED vars
    <3>1. UNCHANGED <<bootVars, disk, bios, ok, root, hit, fd, from, left, got, kernel>>
      BY <2>6 DEF vars, bootVars, stage2Vars
    <3>2. /\ Kernel' = Kernel /\ image' = image /\ bad' = bad /\ FaultsSeen' = FaultsSeen
          /\ \A f : Found(f, Wanted)' <=> Found(f, Wanted)
          /\ \A a, x : Holds(a, x)' <=> Holds(a, x)
          /\ \A t : Good(t)' <=> Good(t)
          /\ \A i : (Buffered(i)' <=> Buffered(i)) /\ (AtCluster(i)' <=> AtCluster(i))
      BY <3>1, CodeKeeps DEF bootVars, FaultsSeen, AtCluster
    <3>3. /\ Point' = Point /\ (Asking' <=> Asking) /\ (Failed' <=> Failed) /\ FileBuffer' = FileBuffer
      BY <3>1 DEF bootVars, Point, Asking, Failed, FileBuffer, RootBuffer, MEMORY_FAT_ADDR
    <3>4. Asked2' /\ Answered' /\ Faults2'
      BY <2>2, <3>1, <3>2, <3>3 DEF SecondStage, Asked2, Answered, Faults2, AskedFor, bootVars, Holds,
         ClusterToLba, dataSectionLba, rootDirLba, rootDirSize
    <3>5. Directory' /\ Reading'
      BY <2>2, <3>1, <3>2, <3>3 DEF SecondStage, Directory, Reading, ReadingPoints, bootVars
    <3>6. Pieces'
      BY <2>2, <3>1, <3>2, <3>3 DEF SecondStage, Pieces, Piece, MEMORY_LOAD_SIZE, bootVars
    <3>7. QED  BY <2>2, <3>2, <3>3, <3>4, <3>5, <3>6 DEF SecondStage, ReadingPoints
  <2>7. CASE Next1 /\ UNCHANGED stage2Vars
    BY <1>2, <2>7, FirstLabels DEF Before
  <2>8. QED  BY <2>3, <2>4, <2>5, <2>6, <2>7 DEF Next, Stopped
<1>5. QED  BY <1>3, <1>4

-----------------------------------------------------------------------------
(* The theorems.                                                            *)

LEMMA InvInit == Init => Inv
BY ControlInit, A20Init, FirstStageInit, FirstFaultsInit, DriveInit, SecondStageInit DEF Inv

LEMMA InvStep == Inv /\ [Next]_vars => Inv'
<1> SUFFICES ASSUME Inv, [Next]_vars PROVE Inv'
    OBVIOUS
<1>1. /\ TypeOK /\ Records /\ Control /\ Modes /\ KbcType /\ A20Protocol
      /\ FirstStage /\ FirstFaults /\ Drive /\ SecondStage
  BY DEF Inv
<1>2. TypeOK' /\ Records' /\ Control' /\ Modes'
  BY <1>1, TypeStep, RecordsStep, ControlStep, ModesStep
<1>3. KbcType' /\ A20Protocol'
  BY <1>1, A20ProtocolStep
<1>4. FirstStage' /\ FirstFaults'
  BY <1>1, FirstStageStep, FirstFaultsStep
<1>5. Drive' /\ SecondStage'
  BY <1>1, DriveStep, SecondStageStep
<1>6. QED  BY <1>2, <1>3, <1>4, <1>5 DEF Inv

\* The inductive invariant of the boot: labels, modes, what the keyboard
\* controller holds, what both stages have read and where it is.
THEOREM InvAlways == Spec => []Inv
<1>1. QED  BY InvInit, InvStep, PTL DEF Spec

\* entry.asm and x86.asm: interrupts are on only in real mode, and nothing is
\* copied above 1 MiB with the A20 gate shut, whatever keys are pressed while
\* EnableA20 talks to the keyboard controller.
THEOREM ProtectedModeAlwaysSafe == Spec => []SafeProtectedMode
<1>1. Inv => SafeProtectedMode
  <2> SUFFICES ASSUME Inv PROVE SafeProtectedMode
      OBVIOUS
  <2>1. Control /\ Modes /\ A20Protocol
    BY DEF Inv
  <2>2. iflag => cpu = "real"
    BY <2>1 DEF Modes, Before
  <2>3. pc \in {"returned", "kernel"} => A20On
    BY <2>1 DEF A20Protocol, Before, Labels1
  <2>4. QED  BY <2>2, <2>3 DEF SafeProtectedMode
<1>2. QED  BY <1>1, InvAlways, PTL

\* stage1.asm: whatever fails and is retried, the jump to 0x500 finds the
\* sectors of STAGE2.BIN there, in order and below the stack.
THEOREM Stage2AlwaysWhole == Spec => []Stage2Whole
<1>1. Inv => Stage2Whole
  BY DEF Inv, FirstStage
<1>2. QED  BY <1>1, InvAlways, PTL

\* disk.c and stage1.asm: a sector is given up after three failures of its own
\* and no others count, in both stages.
THEOREM GivenUpAlwaysAfterThree == Spec => []GivenUpAfterThree
<1>1. Inv => GivenUpAfterThree
  <2> SUFFICES ASSUME Inv PROVE GivenUpAfterThree
      OBVIOUS
  <2>1. TypeOK /\ FirstFaults /\ Drive /\ SecondStage
    BY DEF Inv
  <2>2. pc = "reboot" => FaultsSeen >= 3 * Cardinality(bad)
    BY <2>1 DEF FirstFaults
  <2>3. ~WrongGeometry => FaultsSeen >= 3 * Cardinality(bad)
    <3> SUFFICES ASSUME ~WrongGeometry PROVE FaultsSeen >= 3 * Cardinality(bad)
        OBVIOUS
    <3>1. Faults2
      BY <2>1 DEF SecondStage
    <3>2. Cardinality(bad) \in Nat /\ FaultsSeen \in Int
      BY <2>1, FS_CardinalityType, GeometryAssumption DEF TypeOK, FaultsSeen
    <3>3. CASE ~Asking
      BY <3>1, <3>3 DEF Faults2
    <3>4. CASE Asking
      <4>1. tries \in 0..2 /\ FaultsSeen >= 3 * Cardinality(bad) + tries + (IF Failed THEN 1 ELSE 0)
        BY <3>1, <3>4 DEF Faults2
      <4>2. QED  BY <3>2, <4>1
    <3>5. QED  BY <3>3, <3>4
  <2>4. QED  BY <2>2, <2>3 DEF GivenUpAfterThree
<1>2. QED  BY <1>1, InvAlways, PTL

\* stage1.asm, entry.asm, disk.c and fat.c: the boot ends in a reboot, in the
\* endless loop of main, at a null pointer or in a reset of the processor only
\* for a cause outside the code, but for the geometry of another drive.
THEOREM AlwaysFailsForACause == Spec => []FailsForACause
<1>1. Inv => FailsForACause
  <2> SUFFICES ASSUME Inv PROVE FailsForACause
      OBVIOUS
  <2>1. FirstFaults /\ Drive /\ SecondStage /\ A20Protocol
    BY DEF Inv
  <2>2. pc = "reboot" => bad # {} \/ resetBad \/ (ret = "none" /\ FaultsSeen = 1)
                            \/ FileNamed(file_stage2_bin) = NoFile
    BY <2>1 DEF FirstFaults, Stage2File
  <2>3. pc = "halt" => bad # {} \/ WrongGeometry
    BY <2>1 DEF Drive
  <2>4. pc = "wild" => bad # {} \/ WrongGeometry \/ Kernel = NoFile
    BY <2>1 DEF SecondStage, Directory
  <2>5. pc = "reset" => kbc.byte - 2 \in Scancodes \/ kbc.byte \in Scancodes
    BY <2>1 DEF A20Protocol
  <2>6. QED  BY <2>2, <2>3, <2>4, <2>5 DEF FailsForACause
<1>2. QED  BY <1>1, InvAlways, PTL

\* fat.c and main.c: a kernel of less than 64 KiB that is started is the file,
\* piece by piece and in order, but for sectors that were given up.
THEOREM KernelAlwaysWhole == Spec => []KernelWhole
<1>1. Inv => KernelWhole
  <2> SUFFICES ASSUME Inv, pc = "kernel", ~WrongGeometry, Kernel.size < MEMORY_LOAD_SIZE
               PROVE  /\ Len(kernel) = (Kernel.size + 511) \div 512
                      /\ \A i \in DOMAIN kernel :
                            /\ kernel[i].size = Lesser(512, Kernel.size - 512 * (i - 1))
                            /\ \/ kernel[i].lba = SectorOf(Kernel.clusters[i])
                               \/ SectorOf(Kernel.clusters[i]) \in bad
    BY DEF KernelWhole
  <2>1. Pieces
    BY DEF Inv, SecondStage
  <2>2. Good(kernel) /\ Len(kernel) = (Kernel.size + 511) \div 512
    BY <2>1 DEF Pieces
  <2>3. QED  BY <2>2 DEF Good
<1>2. QED  BY <1>1, InvAlways, PTL
=============================================================================
