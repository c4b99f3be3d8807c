------------------------------- MODULE MCBoot -------------------------------
\* Floppies for Boot: fragmented chains with odd and even clusters, a kernel in
\* the last slot of a root sector, sizes at the edges of a sector, files that
\* are missing.
EXTENDS Boot

File(slot, name, clusters, size) == [slot |-> slot, name |-> name, clusters |-> clusters, size |-> size]
S2(clusters) == File(1, file_stage2_bin, clusters, 512 * Len(clusters))
Krn(slot, clusters, size) == File(slot, <<"K","E","R","N","E","L"," "," ","B","I","N">>, clusters, size)
Image(files) == [files |-> files]

Floppies ==
    { Image({S2(<<2, 3, 5>>), Krn(2, <<4, 9, 6>>, 1100)}),
      Image({S2(<<7>>), Krn(15, <<3, 4>>, 1024)}),
      Image({S2(<<300, 2>>), Krn(16, <<2009>>, 5)}),
      Image({S2(<<2, 4>>), Krn(223, <<3, 343, 341>>, 1025)}),
      Image({S2(<<9, 8>>)}),
      Image({S2(<<2>>), Krn(5, <<>>, 0)}),
      Image({Krn(0, <<2>>, 100)}) }

\* The boot floppy, a small floppy in a second drive, a hard disk, and a small one
\* with whose geometry a sector of the second root sector, the table and cluster
\* 2009 are still found on the boot floppy, the last at a wrong place.
Drives == 0 :> [cylinders |-> 80, heads |-> 2, sectors |-> 18]
       @@ 1 :> [cylinders |-> 80, heads |-> 2, sectors |-> 9]
       @@ 128 :> [cylinders |-> 1023, heads |-> 16, sectors |-> 63]
       @@ 129 :> [cylinders |-> 615, heads |-> 4, sectors |-> 17]
=============================================================================
