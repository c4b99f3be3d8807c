------------------------------- MODULE Fat12 -------------------------------
(***************************************************************************)
(* The boot floppy as the two boot stages find it, and what the BIOS does   *)
(* with it.  The image is the one the build makes (mkfs.fat and mcopy): a   *)
(* set of files, each a root directory slot, a name, a size and the list of *)
(* its clusters.  A sector is named by its address on the disk (LBA), and   *)
(* memory maps the address of a sector-sized place to the sector it holds.  *)
(***************************************************************************)
EXTENDS Integers, Sequences, FiniteSets, TLC

CONSTANTS Images,        \* the floppies that may be in the drive
          BootDrive,     \* the number the BIOS passes in DL
          Geometry,      \* drive number -> [cylinders, heads, sectors] of each drive present
          MaxFaults      \* how many BIOS calls may fail in one boot

VARIABLES image,    \* the floppy in the drive
          faults,   \* BIOS calls that may still fail
          mem,      \* memory: address of a sector-sized place -> LBA of what is there
          pc,       \* the label the processor is at
          ret,      \* where the sector read in progress returns to
          req,      \* the sector read in progress
          tries,    \* how often it has been tried
          bad       \* history: the sectors that were given up

\* The disk the build makes: 80 tracks of two sides, 18 sectors each.
ImageSectors == 2880

\* The drives as CH, CL and DH can describe them; the one the machine boots
\* from holds the disk (and has not 256 heads: boot.asm adds one to DH).
ASSUME GeometryAssumption ==
    /\ \A d \in DOMAIN Geometry :
          /\ Geometry[d].cylinders \in 1..1024
          /\ Geometry[d].heads \in 1..256
          /\ Geometry[d].sectors \in 1..63
    /\ BootDrive \in DOMAIN Geometry
    /\ Geometry[BootDrive].heads < 256
    /\ Geometry[BootDrive].cylinders * (Geometry[BootDrive].heads * Geometry[BootDrive].sectors)
          >= ImageSectors
    /\ MaxFaults \in Nat

bootVars == <<image, faults, mem, pc, ret, req, tries, bad>>

\* The parameter block in the boot sector.
Bpb == [bytesPerSector |-> 512, sectorsPerCluster |-> 1, reservedSectors |-> 1,
        fatCount |-> 2, dirEntryCount |-> 224, sectorsPerFat |-> 9]

EntrySize == 32
EntriesPerSector == Bpb.bytesPerSector \div EntrySize
EndOfChain == 4088                        \* 0xFF8
NoFile == [slot |-> -1, name |-> <<>>, clusters |-> <<>>, size |-> 0]

-----------------------------------------------------------------------------
(* The image, as mkfs.fat lays it out: boot sector, two copies of the FAT,  *)
(* 14 sectors of root directory, then cluster 2.                            *)
FatStart == 1
RootStart == 19
DataStart == 33
SectorOf(cluster) == DataStart + cluster - 2

\* What mkfs.fat and mcopy leave: entries in slots of their own, and chains of
\* clusters of the disk that have no cluster in common.
ASSUME ImageAssumption ==
    \A im \in Images : \A f \in im.files :
        /\ f.slot \in 0..(Bpb.dirEntryCount - 1)
        /\ f.clusters \in Seq(2..(ImageSectors - DataStart + 1))
        /\ \A g \in im.files :
              /\ f.slot = g.slot => f = g
              /\ \A i \in DOMAIN f.clusters, j \in DOMAIN g.clusters :
                    f.clusters[i] = g.clusters[j] => f = g /\ i = j

\* The successor of a cluster in its file's chain; 0 for a free cluster.
Successor(cluster) ==
    LET holders == {f \in image.files : \E i \in DOMAIN f.clusters : f.clusters[i] = cluster}
        f == CHOOSE x \in holders : TRUE
        i == CHOOSE j \in DOMAIN f.clusters : f.clusters[j] = cluster
    IN IF holders = {} THEN 0
       ELSE IF i = Len(f.clusters) THEN 4095 ELSE f.clusters[i + 1]

\* The packed table: entry n is the nibbles 3n .. 3n+2, low nibble first.
Nibble(j) == (Successor(j \div 3) \div 16^(j % 3)) % 16

\* The little-endian word at byte k of the table that starts at address a.
FatWord(a, k) ==
    IF a \in DOMAIN mem /\ mem[a] \in {FatStart, FatStart + Bpb.sectorsPerFat}
    THEN Nibble(2*k) + 16 * Nibble(2*k + 1) + 256 * Nibble(2*k + 2) + 4096 * Nibble(2*k + 3)
    ELSE 65535

\* The directory entry in slot i of the sector at address a, if it is one.
EntryAt(a, i) ==
    LET slot == IF a \in DOMAIN mem THEN (mem[a] - RootStart) * EntriesPerSector + i ELSE -1
        here == {f \in image.files : f.slot = slot}
    IN IF slot < 0 \/ here = {} THEN NoFile ELSE CHOOSE f \in here : TRUE

\* The file of a name in the image; NoFile if it has none.
FileNamed(name) ==
    LET named == {f \in image.files : f.name = name}
    IN IF named = {} THEN NoFile ELSE CHOOSE f \in named : TRUE

-----------------------------------------------------------------------------
(* INT 13h.  A call that addresses a place the drive does not have fails;   *)
(* any other may fail while faults are left.                                *)

\* CH, CL and DH as the BIOS reads them: CL holds two bits of the cylinder.
Cylinder(ch, cl) == (cl \div 64) * 256 + ch

Addressable(drive, ch, cl, dh) ==
    /\ drive \in DOMAIN Geometry
    /\ Cylinder(ch, cl) < Geometry[drive].cylinders
    /\ dh < Geometry[drive].heads
    /\ cl % 64 \in 1..Geometry[drive].sectors

LbaOf(drive, ch, cl, dh) ==
    (Cylinder(ch, cl) * Geometry[drive].heads + dh) * Geometry[drive].sectors + (cl % 64) - 1

\* n sectors from lba on are put at address a and the places after it.
Store(a, lba, n) ==
    LET places == {a + Bpb.bytesPerSector * i : i \in 0..(n - 1)}
    IN [p \in places \union DOMAIN mem |->
          IF p \in places THEN lba + (p - a) \div Bpb.bytesPerSector ELSE mem[p]]

BiosReads(drive, ch, cl, dh, n, a) ==
    /\ Addressable(drive, ch, cl, dh)
    /\ mem' = Store(a, LbaOf(drive, ch, cl, dh), n)
    /\ UNCHANGED faults

BiosFails == faults > 0 /\ faults' = faults - 1 /\ UNCHANGED mem
BiosRefuses(drive, ch, cl, dh) ==
    ~Addressable(drive, ch, cl, dh) /\ UNCHANGED <<faults, mem>>

DiskInit ==
    /\ image \in Images
    /\ faults = MaxFaults
    /\ mem = <<>>
    /\ ret = "none" /\ req = [lba |-> 0, count |-> 0, at |-> 0] /\ tries = 0 /\ bad = {}

\* disk_read and DISK_ReadSectors: a request for count sectors from lba on.
Request(lba, count, at, back) ==
    /\ req' = [lba |-> lba, count |-> count, at |-> at]
    /\ ret' = back
    /\ tries' = 0
=============================================================================
