------------------------------ MODULE GceBoot ------------------------------
(***************************************************************************)
(* What the kernel reads from a disk that make_gce_disk.py wrote: the      *)
(* partitions (gpt.zig) and the files of the system partition (fat32.zig). *)
(* The boot loader opens the kernel through the firmware, which looks long *)
(* names up; that reader is not part of this repository.                   *)
(***************************************************************************)
EXTENDS GceDisk

Nothing == [what |-> "nothing", at |-> -1, len |-> 0, c |-> <<>>, start |-> -1, end |-> -1]

\* The first element that passes a test.
FirstOf(s, Test(_), default) ==
    LET hits == {k \in DOMAIN s : Test(s[k])}
    IN  IF hits = {} THEN default ELSE s[CHOOSE k \in hits : \A j \in hits : k <= j]

\* The part of the disk that starts at a sector.
PartAt(d, lba) ==
    FirstOf(d, LAMBDA part : part.at = lba * SECTOR_SIZE, Nothing)

\* The entries a header leads to.  The kernel takes whole sectors of entries,
\* 64 at most.
TableOf(d, h) ==
    LET table == PartAt(d, h.entries_lba)
        per_sector == SECTOR_SIZE \div h.size
        most == Min2(64, Ceil(h.num, per_sector)) * per_sector
    IN  IF table.what # "entries" THEN <<>>
        ELSE SubSeq(table.c, 1, Min2(Len(table.c), most))

\* findLinuxRootPartition, findEspPartition: the first entry of a type.
\* The kernel holds the types as they are on the disk.
KERNEL_LINUX == <<175, 61, 198, 15, 131, 132, 114, 71, 142, 121, 61, 105, 216, 71, 125, 228>>
KERNEL_ESP == <<40, 115, 42, 193, 31, 248, 210, 17, 186, 75, 0, 160, 201, 62, 201, 59>>
FindPartition(d, type) ==
    LET h == PartAt(d, GPT_HEADER_LBA)
        t == IF h.what = "header" THEN TableOf(d, h.c) ELSE <<>>
    IN  FirstOf(t, LAMBDA e : e.type = type, Nothing)

---------------------------------------------------------------------------
(* fat32.zig *)

\* init: the kernel takes sizes and places from the boot sector of the partition
\* it found.
Mount == LET fat_start == FindPartition(disk, KERNEL_ESP).start + bpb.reserved
         IN  [fat_start |-> fat_start, root |-> bpb.root_cluster,
              data_start |-> fat_start + bpb.num_fats * bpb.fat_size_32]

\* A sector of the disk as a sector of the system partition that was written.
EspSector(lba) == lba - ESP_START_LBA

\* The entry of a cluster in a FAT that starts at a sector.
FatEntry(start, c) ==
    LET sector == EspSector(start + (c * 4) \div SECTOR_SIZE)
        s == (sector - RESERVED) * PerSector + ((c * 4) % SECTOR_SIZE) \div 4
    IN  IF s \in DOMAIN fat THEN fat[s] ELSE 0
FirstFat(c) == FatEntry(Mount.fat_start, c)
SecondFat(c) == FatEntry(Mount.fat_start + bpb.fat_size_32, c)

\* nextCluster reads the first FAT and takes no number below 2 and none that
\* ends a chain.
NoCluster == 0
nextCluster(c) == LET v == FirstFat(c) IN IF v < 2 THEN NoCluster ELSE v

\* A part of a chain that begins at a cluster, and the cluster behind it.
Follow(cs, c) ==
    LET next == IF cs = <<>> THEN c ELSE nextCluster(cs[Len(cs)])
    IN  IF next = NoCluster THEN cs ELSE Append(cs, next)

\* The clusters of a chain, as many as there are up to a number.
Walk(n, c) == LET walked[k \in 0 .. n] == IF k = 0 THEN <<>> ELSE Follow(walked[k - 1], c)
              IN  walked[n]

\* readCluster: the cluster of the partition that lies in that sector.
readCluster(c) ==
    LET k == EspSector(Mount.data_start + (c - 2)) - data_start_sector + 2
    IN  IF k \in DOMAIN data THEN data[k] ELSE "zeros"

\* fat32Read of a whole file.
fat32Read(e) ==
    LET cs == Walk(Ceil(e.size, cluster_size), e.lo + e.hi * U16)
    IN  [k \in 1 .. Len(cs) |-> readCluster(cs[k])]

\* fat32Lookup compares short names and skips labels and parts of long names.
fat32Lookup(dir, name) ==
    FirstOf(readCluster(dir), LAMBDA e : e.attr \notin {LFN, VOLUME} /\ e.name = name,
            make_dir_entry("", 0, 0, 0))

Cluster(e) == e.lo + e.hi * U16
Bootloader == fat32Lookup(Cluster(fat32Lookup(Cluster(fat32Lookup(Mount.root, "EFI")), "BOOT")),
                          "BOOTAA64EFI")
ZigixDir == Cluster(fat32Lookup(Mount.root, "ZIGIX"))
Kernel == fat32Lookup(ZigixDir, "ZIGIX-~1")

\* The firmware puts a long name together from the parts in front of a short
\* entry, in the order of their numbers, up to a NUL.
LongName(es, k) ==
    LET parts == {j \in 1 .. k - 1 : es[j].attr = LFN /\ es[j].cksum = es[k].name}
        n == Cardinality(parts)
        part(i) == es[CHOOSE j \in parts : es[j].ord = i].chars
        all == [i \in 1 .. n * chars_per_entry |->
                   part(((i - 1) \div chars_per_entry) + 1)[((i - 1) % chars_per_entry) + 1]]
        ends == {i \in DOMAIN all : all[i] = NUL}
    IN  IF {es[j].ord : j \in parts} # 1 .. n
           \/ (n > 0 /\ ~(\E j \in parts : j = k - n /\ es[j].ord = n /\ es[j].last))
        THEN <<>>
        ELSE IF ends = {} THEN all
             ELSE SubSeq(all, 1, (CHOOSE i \in ends : \A j \in ends : i <= j) - 1)

---------------------------------------------------------------------------
(* Properties *)

Finished == pc = "done"

TypeOK ==
    /\ pc \in {"fat_size", "dirs", "boot", "kernel", "entries", "head", "esp", "root", "backup",
               "done", "failed"}
    /\ fat_size \in Nat \ {0} /\ next_cluster \in Nat \ {0, 1} /\ esp_len \in Nat
    /\ \A k \in 1 .. Len(disk) - 1 : disk[k].at + disk[k].len = disk[k + 1].at

\* Line 92 says the size matches the algorithm of mkfs.fat: the FATs end up no
\* larger than they must be to have an entry for every cluster they leave.
FatSizeLeast ==
    pc # "fat_size" =>
        /\ (Clusters(fat_size) + 2) * 4 <= fat_size * SECTOR_SIZE
        /\ \A k \in 1 .. fat_size - 1 : (Clusters(k) + 2) * 4 > k * SECTOR_SIZE

\* A finished disk has two equal FATs, and their first two entries are the
\* reserved ones.
FatCopiesAgree ==
    Finished =>
        /\ \A c \in 0 .. fat_size * PerSector - 1 : FirstFat(c) = SecondFat(c)
        /\ FirstFat(0) = MEDIA /\ FirstFat(1) = END

\* Whatever the sizes of the files, the chains of directories and files of a
\* finished disk do not meet, lie in the data area, and hold all clusters that
\* are marked used.
ChainsApart ==
    Finished =>
        LET chain(f) == Walk(ESP_SECTORS, first[f])
            set(f) == {chain(f)[k] : k \in DOMAIN chain(f)}
        IN  /\ \A f, g \in DOMAIN first : f # g => set(f) \cap set(g) = {}
            /\ \A f \in DOMAIN first : set(f) \subseteq 2 .. data_clusters + 1
            /\ UNION {set(f) : f \in DOMAIN first}
                 = {c \in 2 .. fat_size * PerSector - 1 : FirstFat(c) # 0}

\* Looking the two files up from the root directory of a finished disk and
\* reading them gives the bytes of the input files, and the long name of the
\* kernel is the path the boot loader opens.
EspReadBack ==
    LET whole(f) == [k \in 1 .. Ceil(input[f], cluster_size) |-> Chunk(f, k - 1)]
    IN  Finished =>
            /\ \A e \in {Bootloader} : e.size = input.boot /\ fat32Read(e) = whole("boot")
            /\ \A e \in {Kernel}, es \in {readCluster(ZigixDir)} :
                  /\ e.size = input.kernel /\ fat32Read(e) = whole("kernel")
                  /\ \E k \in DOMAIN es : es[k] = e /\ LongName(es, k) = KernelName

\* make_lfn_entries keeps names of every length, those that fill their last
\* entry included: such an entry has no terminating NUL.
LongNames ==
    pc = "entries" => \A n \in 1 .. 3 * chars_per_entry :
        LET name == [i \in 1 .. n |-> 100 + i]
        IN  \A es \in {make_lfn_entries(name, "SHORT~1", ARCHIVE, 9, 1)} :
                LongName(es, Len(es)) = name

\* Both headers of a finished disk have a valid checksum, name their own place
\* and each other, and bound the partitions, which do not overlap.
HeadersValid ==
    Finished =>
        LET p == PartAt(disk, GPT_HEADER_LBA).c
            b == PartAt(disk, TOTAL_SECTORS - 1).c
            es == p.entries_crc
        IN  /\ \A h \in {p, b} : h.crc = <<[h EXCEPT !.crc = <<>>]>>
            /\ p.my = GPT_HEADER_LBA /\ b.my = p.alternate /\ b.alternate = p.my
            /\ Tell = (b.my + 1) * SECTOR_SIZE
            /\ b.entries_crc = es
            /\ \A k \in DOMAIN es : p.first <= es[k].start /\ es[k].start <= es[k].end
                                    /\ es[k].end <= p.last
            /\ \A k \in 1 .. Len(es) - 1 : es[k].end < es[k + 1].start

\* When everything in front of the first partition is lost, the backup header in
\* the last sector still leads to the entries, behind the last usable sector.
BackupStandsAlone ==
    Finished =>
        LET left == [k \in DOMAIN disk |-> IF disk[k].at >= ESP_START_LBA * SECTOR_SIZE
                                           THEN disk[k] ELSE Nothing]
            b == PartAt(left, TOTAL_SECTORS - 1).c
        IN  TableOf(left, b) = b.entries_crc /\ b.entries_lba > b.last

\* The kernel finds both partitions of a finished disk where the script put
\* them, and the root partition begins with the image it was given, cut only
\* when the image is larger than the partition.
RootReadBack ==
    Finished =>
        LET r == FindPartition(disk, KERNEL_LINUX)
            e == FindPartition(disk, KERNEL_ESP)
        IN  /\ Nothing \notin {r, e}
            /\ LET s == PartAt(disk, r.start)
               IN  /\ s.what = "root" /\ s.len = (r.end - r.start + 1) * SECTOR_SIZE
                   /\ s.c = Min2(input.root, s.len)
            /\ LET s == PartAt(disk, e.start)
               IN  s.what = "esp" /\ s.len = (e.end - e.start + 1) * SECTOR_SIZE

\* The script allocates without a limit, yet it finishes exactly when both
\* files fit: a disk with a damaged system partition is never completed.
FinishesIffFits ==
    LET fits == /\ data_clusters >= FSINFO_USED
                /\ 4 + num_clusters(input.boot) + num_clusters(input.kernel) <= data_clusters
    IN  (pc = "done" => fits) /\ (pc = "failed" => ~fits)

\* set_fat_entry, write_file_to_clusters: both copies of the table hold the same
\* chains, and no two chains meet.
FatSound == TypeOK /\ FatCopiesAgree /\ ChainsApart

\* Kernel and firmware find the files under their names, with their contents.
EspFiles == EspReadBack /\ LongNames

\* make_gpt: both headers are valid, and each leads to a complete table.
TablesSound == HeadersValid /\ BackupStandsAlone
====
