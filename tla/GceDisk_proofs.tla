--------------------------- MODULE GceDisk_proofs ---------------------------
(***************************************************************************)
(* Proofs about make_gce_disk.py: for every sector size, every size of the *)
(* partition and every size of the files.                                  *)
(***************************************************************************)
EXTENDS GceBoot, LeastNumber, TLAPS

---------------------------------------------------------------------------
(* Arithmetic *)

LEMMA MulMono ==
    ASSUME NEW a \in Int, NEW b \in Int, NEW c \in Nat, a <= b
    PROVE  a * c <= b * c
OBVIOUS

LEMMA MulStrict ==
    ASSUME NEW a \in Int, NEW b \in Int, NEW c \in Nat \ {0}
    PROVE  a * c < b * c <=> a < b
OBVIOUS

LEMMA DivFacts ==
    ASSUME NEW a \in Int, NEW b \in Nat \ {0}
    PROVE  /\ a \div b \in Int
           /\ (a \div b) * b <= a /\ a < (a \div b) * b + b
OBVIOUS

\* Rounding up exceeds a number exactly when the dividend exceeds its multiple.
LEMMA CeilAbove ==
    ASSUME NEW x \in Int, NEW b \in Nat \ {0}, NEW k \in Int
    PROVE  /\ Ceil(x, b) \in Int
           /\ Ceil(x, b) > k <=> x > k * b
<1>1. Ceil(x, b) \in Int /\ Ceil(x, b) * b <= x + b - 1 /\ x + b - 1 < Ceil(x, b) * b + b
  BY DivFacts DEF Ceil
<1>2. CASE Ceil(x, b) > k
  BY <1>1, <1>2, MulMono
<1>3. CASE ~(Ceil(x, b) > k)
  BY <1>1, <1>3, MulMono
<1> QED BY <1>1, <1>2, <1>3, Zenon

\* The constants.
LEMMA Sizes ==
    /\ SECTOR_SIZE \in Nat \ {0} /\ SECTOR_SIZE >= 4 /\ RESERVED \in Nat \ {0}
    /\ FSINFO_USED \in Nat \ {0} /\ TOTAL_SECTORS \in Nat \ {0}
    /\ EspSizes \subseteq Nat /\ BootSizes \subseteq Nat /\ KernelSizes \subseteq Nat
    /\ RootSizes \subseteq Nat
<1>1. SECTOR_SIZE \in Nat \ {0} /\ SECTOR_SIZE % 4 = 0
  BY GceAssumption, Zenon
<1>2. SECTOR_SIZE >= 4
  BY <1>1
<1> QED BY <1>1, <1>2, GceAssumption, Zenon

---------------------------------------------------------------------------
(* The size of the FATs *)

\* No size below the first guess is enough.
LEMMA GuessLow ==
    ASSUME NEW e \in Nat
    PROVE  /\ Guess(e) \in Int
           /\ RESERVED <= e => Guess(e) >= 1
           /\ \A k \in 1 .. Guess(e) - 1 : (e - (RESERVED + 2 * k) + 2) * 4 > k * SECTOR_SIZE
<1> DEFINE x == (e - RESERVED) * 4
           q == x \div SECTOR_SIZE
           d == 2 * SECTOR_SIZE + 4
           g == (q + 8) \div d
<1>1. x \in Int /\ d \in Nat \ {0}
  BY Sizes
<1>2. q \in Int /\ q * SECTOR_SIZE <= x /\ x < q * SECTOR_SIZE + SECTOR_SIZE
  BY <1>1, Sizes, DivFacts, Zenon
<1> HIDE DEF q
<1>3. g \in Int /\ g * d <= q + 8 /\ q + 8 < g * d + d
  BY <1>1, <1>2, DivFacts
<1>4. Guess(e) = g + 1
  BY DEF Guess, num_fats, g, q, d, x
<1> HIDE DEF g, d
<1>5. ASSUME NEW k \in 1 .. g PROVE x + 8 > k * SECTOR_SIZE + 8 * k
  <2>1. k * d <= q + 8
    <3>1. k \in Int /\ k <= g
      BY <1>3
    <3>2. k * d <= g * d
      BY <3>1, <1>1, <1>3, MulMono, Zenon
    <3> QED BY <3>1, <3>2, <1>1, <1>2, <1>3
  <2>2. k * SECTOR_SIZE + 8 * k <= k * d
    <3>1. SECTOR_SIZE + 8 <= d
      BY Sizes DEF d
    <3> QED BY <3>1, <1>1, Sizes, MulMono
  <2>3. d <= k * d
    BY <1>1
  <2>4. q > 0
    BY <2>1, <2>3, <1>2, Sizes DEF d
  <2>5. q < x
    <3>1. q * 4 <= q * SECTOR_SIZE
      BY <2>4, <1>2, Sizes
    <3> QED BY <3>1, <2>4, <1>1, <1>2, Sizes
  <2> QED BY <2>1, <2>2, <2>5, <1>1, <1>2, Sizes
<1>6. ASSUME NEW k \in 1 .. g PROVE (e - (RESERVED + 2 * k) + 2) * 4 > k * SECTOR_SIZE
  BY <1>5, <1>3, Sizes
<1>7. RESERVED <= e => g >= 0
  <2> SUFFICES ASSUME RESERVED <= e PROVE g >= 0
    BY Zenon
  <2>1. x >= 0
    BY Sizes
  <2>2. q > -1
    <3>1. (q + 1) * SECTOR_SIZE > 0 * SECTOR_SIZE
      BY <1>2, <2>1, Sizes
    <3>2. q + 1 \in Int /\ 0 \in Int
      BY <1>2
    <3> QED BY <3>1, <3>2, <1>2, MulStrict, Sizes
  <2>3. (g + 1) * d > 0 * d
    BY <1>1, <1>2, <1>3, <2>2
  <2>4. g + 1 \in Int /\ 0 \in Int
    BY <1>3
  <2> QED BY <2>3, <2>4, <1>1, <1>3, MulStrict
<1> QED BY <1>3, <1>4, <1>6, <1>7

---------------------------------------------------------------------------
(* Clusters and the length of the partition *)

\* A file has at least one cluster, and each of them but that of an empty file
\* has a part of the file.
LEMMA ClusterCount ==
    ASSUME NEW size \in Nat
    PROVE  /\ num_clusters(size) \in Nat \ {0}
           /\ size > 0 => \A i \in 0 .. num_clusters(size) - 1 : i * SECTOR_SIZE < size
<1>1. Ceil(size, SECTOR_SIZE) \in Int
  BY CeilAbove, Sizes
<1>2. num_clusters(size) \in Nat \ {0} /\ num_clusters(size) >= 1
  BY <1>1 DEF num_clusters, cluster_size, Max2
<1>3. ASSUME size > 0, NEW i \in 0 .. num_clusters(size) - 1 PROVE i * SECTOR_SIZE < size
  <2>1. i \in Int /\ 0 \in Int
    BY <1>2
  <2>2. Ceil(size, SECTOR_SIZE) > 0
    BY <1>3, <2>1, CeilAbove, Sizes
  <2>3. Ceil(size, SECTOR_SIZE) > i
    BY <1>1, <1>2, <2>2 DEF num_clusters, cluster_size, Max2
  <2> QED BY <2>1, <2>3, CeilAbove, Sizes
<1> QED BY <1>2, <1>3, Zenon

\* A part of a file that is written to the bytearray of the partition: in the
\* data area it changes no length, behind it it makes the bytearray longer.
LEMMA AssignLen ==
    ASSUME ESP_SECTORS \in Nat, fat_size \in Int, NEW c \in Int, NEW n \in 1 .. SECTOR_SIZE,
           esp_len \in Nat, esp_len >= ESP_SECTORS * SECTOR_SIZE
    PROVE  /\ Assign(cluster_offset(c), n) \in Nat
           /\ Assign(cluster_offset(c), n) >= ESP_SECTORS * SECTOR_SIZE
           /\ c - 2 < data_clusters /\ esp_len = ESP_SECTORS * SECTOR_SIZE =>
                 Assign(cluster_offset(c), n) = ESP_SECTORS * SECTOR_SIZE
           /\ c - 2 >= data_clusters =>
                 Assign(cluster_offset(c), n) > ESP_SECTORS * SECTOR_SIZE
<1> DEFINE off == cluster_offset(c)
           b == ESP_SECTORS * SECTOR_SIZE
           j == c - 2 - data_clusters
<1>1. off \in Int /\ j \in Int /\ b \in Int /\ off = b + j * SECTOR_SIZE
  BY Sizes DEF cluster_offset, cluster_size, data_start_sector, data_clusters, Clusters, num_fats
<1>2. /\ c - 2 < data_clusters <=> j < 0
      /\ c - 2 >= data_clusters <=> j >= 0
  BY Sizes DEF data_clusters, Clusters, num_fats
<1>3. j < 0 => j * SECTOR_SIZE <= -SECTOR_SIZE
  <2> SUFFICES ASSUME j < 0 PROVE j * SECTOR_SIZE <= (-1) * SECTOR_SIZE
    BY Sizes
  <2> HIDE DEF j
  <2> QED BY <1>1, Sizes, MulMono
<1>4. j >= 0 => j * SECTOR_SIZE >= 0
  <2> HIDE DEF j
  <2> QED BY <1>1, Sizes
<1> DEFINE js == j * SECTOR_SIZE
<1>5. js \in Int
  BY <1>1, Sizes
<1>6. /\ j < 0 => js <= -SECTOR_SIZE
      /\ j >= 0 => js >= 0
      /\ off = b + js
  BY <1>1, <1>3, <1>4, Zenon
<1> HIDE DEF js, off, b, j
<1>7. Assign(off, n) = IF esp_len < (IF off < esp_len THEN off ELSE esp_len) + n
                       THEN (IF off < esp_len THEN off ELSE esp_len) + n ELSE esp_len
  BY Zenon DEF Assign, Max2, Min2
<1>8. /\ Assign(off, n) \in Nat /\ Assign(off, n) >= b
      /\ j < 0 /\ esp_len = b => Assign(off, n) = b
      /\ j >= 0 => Assign(off, n) > b
  <2>1. esp_len \in Nat /\ esp_len >= b /\ n \in 1 .. SECTOR_SIZE
    BY Zenon DEF b
  <2> QED BY <2>1, <1>1, <1>5, <1>6, <1>7, Sizes
<1> QED BY <1>2, <1>8, Zenon DEF off, b

---------------------------------------------------------------------------
(* The inductive invariant *)

\* Clusters of the two files.
BootClusters == num_clusters(input.boot)
KernelClusters == num_clusters(input.kernel)

Writing == {"entries", "head", "esp", "root", "backup", "done"}
EspBytes == ESP_SECTORS * SECTOR_SIZE

\* The loop that sizes the FATs has passed only sizes that are too small, and
\* it ends with one that is not.
SizeInv ==
    /\ ESP_SECTORS \in EspSizes /\ fat_size \in Nat \ {0}
    /\ \A k \in 1 .. fat_size - 1 : (Clusters(k) + 2) * 4 > k * SECTOR_SIZE
    /\ pc # "fat_size" => (Clusters(fat_size) + 2) * 4 <= fat_size * SECTOR_SIZE

\* Clusters are given out one after the other, without a gap.
CountInv ==
    /\ pc \in {"fat_size", "dirs", "boot", "kernel", "failed"} \cup Writing
    /\ input \in [boot : BootSizes, kernel : KernelSizes, root : RootSizes]
    /\ chunk \in Nat /\ next_cluster \in Nat \ {0, 1}
    /\ pc \in {"fat_size", "dirs"} => chunk = 0
    /\ pc = "boot" => chunk < BootClusters /\ next_cluster = 6 + chunk
    /\ pc = "kernel" => chunk < KernelClusters /\ next_cluster = 6 + BootClusters + chunk
    /\ pc \in Writing => next_cluster = 6 + BootClusters + KernelClusters

\* The bytearray of the partition has its length as long as the clusters given
\* out exist.
LenInv ==
    /\ esp_len \in Nat /\ esp_len >= EspBytes
    /\ pc \in {"fat_size", "dirs"} \/ next_cluster - 2 <= data_clusters => esp_len = EspBytes
    /\ pc \notin {"fat_size", "failed"} => data_clusters >= FSINFO_USED
    /\ pc \in {"backup", "done"} => esp_len = EspBytes

\* The parts of the disk.
Part(lba, what, len, c) == [at |-> lba * SECTOR_SIZE, what |-> what, len |-> len, c |-> c]
MbrPart == Part(0, "mbr", SECTOR_SIZE, make_protective_mbr)
HeaderPart == Part(GPT_HEADER_LBA, "header", SECTOR_SIZE, Header)
EntriesPart == Part(GPT_ENTRIES_START_LBA, "entries", GPT_ENTRIES_SECTORS * SECTOR_SIZE, Entries)
EspPart == Part(ESP_START_LBA, "esp", esp_len, "esp")
RootPart == Part(ROOT_START_LBA, "root", root_size, Min2(input.root, root_size))
BackupEntriesPart ==
    Part(backup_entries_lba, "entries", GPT_ENTRIES_SECTORS * SECTOR_SIZE, Entries)
BackupPart == Part(TOTAL_SECTORS - 1, "header", SECTOR_SIZE, Backup(Header))

DiskInv ==
    /\ pc \in {"head", "esp", "root", "backup", "done"} => gpt = make_gpt
    /\ pc \in {"fat_size", "dirs", "boot", "kernel", "entries", "head"} => disk = <<>>
    /\ pc = "esp" => disk = <<MbrPart, HeaderPart, EntriesPart>>
    /\ pc = "root" => disk = <<MbrPart, HeaderPart, EntriesPart, EspPart>>
    /\ pc = "backup" => disk = <<MbrPart, HeaderPart, EntriesPart, EspPart, RootPart>>
    /\ pc = "done" => disk = <<MbrPart, HeaderPart, EntriesPart, EspPart, RootPart,
                               BackupEntriesPart, BackupPart>>

GceInv == SizeInv /\ CountInv /\ LenInv /\ DiskInv

LEMMA GceInit == ASSUME Init PROVE GceInv
<1>1. ESP_SECTORS \in Nat /\ RESERVED <= ESP_SECTORS
  BY Sizes, GceAssumption, Zenon DEF Init
<1>2. SizeInv
  <2>1. Guess(ESP_SECTORS) \in Nat \ {0}
    BY <1>1, GuessLow
  <2>2. \A k \in 1 .. fat_size - 1 : (Clusters(k) + 2) * 4 > k * SECTOR_SIZE
    BY <1>1, GuessLow, Zenon DEF Init, Clusters, num_fats
  <2> QED BY <2>1, <2>2, Zenon DEF Init, SizeInv
<1>3. CountInv
  BY DEF Init, CountInv, Writing
<1>4. LenInv
  BY <1>1, Sizes DEF Init, LenInv, EspBytes
<1>5. DiskInv
  BY Zenon DEF Init, DiskInv
<1> QED BY <1>2, <1>3, <1>4, <1>5, Zenon DEF GceInv

\* One turn of the loop that sizes the FATs.
LEMMA GrowKeeps == ASSUME GceInv, GrowFat PROVE GceInv'
<1>1. /\ ESP_SECTORS \in Nat /\ fat_size \in Nat \ {0} /\ Clusters(fat_size) \in Int
      /\ fat_size' = fat_size + 1 /\ ESP_SECTORS' = ESP_SECTORS /\ pc = "fat_size" /\ pc' = pc
  BY Sizes DEF GceInv, SizeInv, GrowFat, Clusters, num_fats
<1>2. (Clusters(fat_size) + 2) * 4 > fat_size * SECTOR_SIZE
  <2>1. (Clusters(fat_size) + 2) * 4 \in Int
    BY <1>1
  <2> QED BY <1>1, <2>1, CeilAbove, Sizes DEF GrowFat, needed_sectors
<1>3. \A k : Clusters(k)' = Clusters(k)
  BY <1>1, Zenon DEF Clusters
<1>4. SizeInv'
  <2>1. \A k \in 1 .. fat_size : (Clusters(k) + 2) * 4 > k * SECTOR_SIZE
    BY <1>1, <1>2 DEF GceInv, SizeInv
  <2> QED BY <1>1, <1>3, <2>1 DEF GceInv, SizeInv, Clusters
<1>5. CountInv' /\ LenInv' /\ DiskInv'
  BY <1>1, Zenon DEF GceInv, GrowFat, CountInv, LenInv, DiskInv, Writing, EspBytes
<1> QED BY <1>4, <1>5, Zenon DEF GceInv

\* Once the FATs have their size it stays right.
LEMMA SizeKeeps ==
    ASSUME SizeInv, pc # "fat_size", UNCHANGED <<ESP_SECTORS, fat_size>>
    PROVE  SizeInv'
BY Zenon DEF SizeInv, Clusters

LEMMA BpbKeeps == ASSUME GceInv, WriteBpb PROVE GceInv'
<1>1. /\ ESP_SECTORS \in Nat /\ fat_size \in Nat \ {0} /\ Clusters(fat_size) \in Int
      /\ fat_size' = fat_size /\ ESP_SECTORS' = ESP_SECTORS /\ pc = "fat_size"
      /\ pc' \in {"failed", "dirs"} /\ (pc' = "dirs" => data_clusters >= FSINFO_USED)
  BY Sizes DEF GceInv, SizeInv, WriteBpb, Clusters, num_fats, data_clusters
<1>2. (Clusters(fat_size) + 2) * 4 <= fat_size * SECTOR_SIZE
  <2>1. (Clusters(fat_size) + 2) * 4 \in Int
    BY <1>1
  <2>2. ~(needed_sectors(fat_size) > fat_size)
    BY <1>1, <2>1, CeilAbove, Sizes DEF WriteBpb, needed_sectors
  <2>3. ~((Clusters(fat_size) + 2) * 4 > fat_size * SECTOR_SIZE)
    BY <1>1, <2>1, <2>2, CeilAbove, Sizes DEF needed_sectors
  <2> QED BY <1>1, <2>1, <2>3, Sizes
<1>3. SizeInv'
  BY <1>1, <1>2, Zenon DEF GceInv, SizeInv, Clusters
<1>4. CountInv' /\ DiskInv'
  BY <1>1, Zenon DEF GceInv, WriteBpb, CountInv, DiskInv, Writing
<1>5. LenInv'
  BY <1>1, Zenon DEF GceInv, WriteBpb, LenInv, EspBytes, data_clusters, Clusters
<1> QED BY <1>3, <1>4, <1>5, Zenon DEF GceInv

LEMMA DirsKeeps == ASSUME GceInv, AllocDirs PROVE GceInv'
<1>1. /\ pc = "dirs" /\ pc' = "boot" /\ next_cluster' = 6 /\ chunk' = chunk /\ chunk = 0
      /\ UNCHANGED <<ESP_SECTORS, fat_size, input, esp_len, gpt, disk>>
  BY Zenon DEF AllocDirs, GceInv, CountInv
<1>2. SizeInv'
  BY <1>1, SizeKeeps, Zenon DEF GceInv
<1>3. CountInv'
  <2>1. input.boot \in Nat
    BY Sizes, Zenon DEF GceInv, CountInv
  <2>2. BootClusters \in Nat \ {0} /\ BootClusters' = BootClusters
    BY <1>1, <2>1, ClusterCount, Zenon DEF BootClusters
  <2> QED BY <1>1, <2>2 DEF GceInv, CountInv, Writing
<1>4. LenInv'
  BY <1>1, Zenon DEF GceInv, LenInv, EspBytes, data_clusters, Clusters
<1>5. DiskInv'
  BY <1>1, Zenon DEF GceInv, DiskInv
<1> QED BY <1>2, <1>3, <1>4, <1>5, Zenon DEF GceInv

LEMMA InputNat ==
    ASSUME CountInv
    PROVE  /\ input.boot \in Nat /\ input.kernel \in Nat
           /\ \A f \in {"boot", "kernel"} : input[f] \in Nat
<1>1. input.boot \in Nat /\ input.kernel \in Nat
  BY Sizes, Zenon DEF CountInv
<1> QED BY <1>1, Zenon

\* A piece of a file that is not empty.
LEMMA PieceLen ==
    ASSUME NEW f \in {"boot", "kernel"}, input[f] \in Nat, NEW i \in Nat, i * SECTOR_SIZE < input[f]
    PROVE  Chunk(f, i).len \in 1 .. SECTOR_SIZE
<1>1. i * SECTOR_SIZE \in Nat /\ input[f] - i * SECTOR_SIZE \in Nat \ {0}
  BY Sizes
<1> QED BY <1>1, Sizes DEF Chunk, cluster_size, Min2

\* One turn of write_file_to_clusters leaves the length of the partition alone
\* while there are clusters.
LEMMA ClusterLen ==
    ASSUME GceInv, NEW f \in {"boot", "kernel"}, NEW next, WriteCluster(f, next),
           next \in {"kernel", "entries"}
    PROVE  LenInv'
<1>1. /\ pc = f /\ next_cluster' = next_cluster + 1 /\ UNCHANGED <<ESP_SECTORS, fat_size, input>>
      /\ pc' \in {pc, next}
      /\ esp_len' = IF chunk * SECTOR_SIZE < input[f]
                    THEN Assign(cluster_offset(next_cluster), Chunk(f, chunk).len) ELSE esp_len
  BY Zenon DEF WriteCluster, cluster_size
<1>2. /\ ESP_SECTORS \in Nat /\ fat_size \in Int /\ next_cluster \in Int /\ chunk \in Nat
      /\ esp_len \in Nat /\ esp_len >= ESP_SECTORS * SECTOR_SIZE /\ input[f] \in Nat
      /\ data_clusters \in Int
  BY Sizes, InputNat DEF GceInv, SizeInv, CountInv, LenInv, EspBytes, data_clusters, Clusters, num_fats
<1>3. /\ esp_len' \in Nat /\ esp_len' >= EspBytes
      /\ next_cluster - 2 < data_clusters /\ esp_len = EspBytes => esp_len' = EspBytes
  <2>1. CASE chunk * SECTOR_SIZE < input[f]
    <3>1. Chunk(f, chunk).len \in 1 .. SECTOR_SIZE
      BY <1>2, <2>1, PieceLen, Zenon
    <3> QED BY <1>1, <1>2, <2>1, <3>1, AssignLen, Zenon DEF EspBytes
  <2>2. CASE ~(chunk * SECTOR_SIZE < input[f])
    BY <1>1, <1>2, <2>2, Zenon DEF EspBytes
  <2> QED BY <2>1, <2>2, Zenon
<1>4. EspBytes' = EspBytes /\ data_clusters' = data_clusters
  BY <1>1, Zenon DEF EspBytes, data_clusters, Clusters
<1> QED BY <1>1, <1>2, <1>3, <1>4 DEF GceInv, LenInv

LEMMA BootKeeps == ASSUME GceInv, WriteCluster("boot", "kernel") PROVE GceInv'
<1>1. /\ pc = "boot" /\ next_cluster' = next_cluster + 1
      /\ UNCHANGED <<ESP_SECTORS, fat_size, input, gpt, disk>>
      /\ \/ chunk < BootClusters - 1 /\ chunk' = chunk + 1 /\ pc' = pc
         \/ ~(chunk < BootClusters - 1) /\ chunk' = 0 /\ pc' = "kernel"
  BY Zenon DEF WriteCluster, BootClusters
<1>2. /\ BootClusters \in Nat \ {0} /\ BootClusters' = BootClusters
      /\ KernelClusters \in Nat \ {0} /\ KernelClusters' = KernelClusters
  BY <1>1, InputNat, ClusterCount, Zenon DEF GceInv, BootClusters, KernelClusters
<1>3. SizeInv'
  BY <1>1, SizeKeeps, Zenon DEF GceInv
<1>4. CountInv'
  BY <1>1, <1>2 DEF GceInv, CountInv, Writing
<1>5. LenInv'
  BY ClusterLen, Zenon
<1>6. DiskInv'
  BY <1>1, Zenon DEF GceInv, DiskInv
<1> QED BY <1>3, <1>4, <1>5, <1>6, Zenon DEF GceInv

LEMMA KernelKeeps == ASSUME GceInv, WriteCluster("kernel", "entries") PROVE GceInv'
<1>1. /\ pc = "kernel" /\ next_cluster' = next_cluster + 1
      /\ UNCHANGED <<ESP_SECTORS, fat_size, input, gpt, disk>>
      /\ \/ chunk < KernelClusters - 1 /\ chunk' = chunk + 1 /\ pc' = pc
         \/ ~(chunk < KernelClusters - 1) /\ chunk' = 0 /\ pc' = "entries"
  BY Zenon DEF WriteCluster, KernelClusters
<1>2. /\ BootClusters \in Nat \ {0} /\ BootClusters' = BootClusters
      /\ KernelClusters \in Nat \ {0} /\ KernelClusters' = KernelClusters
  BY <1>1, InputNat, ClusterCount, Zenon DEF GceInv, BootClusters, KernelClusters
<1>3. SizeInv'
  BY <1>1, SizeKeeps, Zenon DEF GceInv
<1>4. CountInv'
  BY <1>1, <1>2 DEF GceInv, CountInv, Writing
<1>5. LenInv'
  BY ClusterLen, Zenon
<1>6. DiskInv'
  BY <1>1, Zenon DEF GceInv, DiskInv
<1> QED BY <1>3, <1>4, <1>5, <1>6, Zenon DEF GceInv

---------------------------------------------------------------------------
(* Writing the disk *)

\* Where the parts of the disk begin.
LEMMA Layout ==
    ASSUME ESP_SECTORS \in EspSizes
    PROVE  /\ GPT_ENTRIES_SECTORS \in Nat \ {0}
           /\ ESP_START_LBA \in Nat /\ ESP_START_LBA = 2 + GPT_ENTRIES_SECTORS
           /\ ROOT_START_LBA \in Nat /\ ROOT_START_LBA = ESP_START_LBA + ESP_SECTORS
           /\ ROOT_END_LBA \in Nat /\ ROOT_END_LBA >= ROOT_START_LBA
           /\ backup_entries_lba = ROOT_END_LBA + 1
           /\ TOTAL_SECTORS - 1 = backup_entries_lba + GPT_ENTRIES_SECTORS
           /\ root_size = (backup_entries_lba - ROOT_START_LBA) * SECTOR_SIZE
<1> DEFINE n == GPT_NUM_ENTRIES * GPT_ENTRY_SIZE
<1>1. n \in Int /\ n > 0 * SECTOR_SIZE
  BY Sizes, GceAssumption
<1>2. Ceil(n, SECTOR_SIZE) \in Int /\ Ceil(n, SECTOR_SIZE) > 0
  BY <1>1, CeilAbove, Sizes
<1>3. GPT_ENTRIES_SECTORS \in Nat \ {0} /\ GPT_ENTRIES_SECTORS = Ceil(n, SECTOR_SIZE)
  BY <1>2 DEF GPT_ENTRIES_SECTORS
<1>4. ESP_SECTORS \in Nat /\ ESP_SECTORS + 2 * GPT_ENTRIES_SECTORS + 3 < TOTAL_SECTORS
  BY <1>3, Sizes, GceAssumption, Zenon
<1> QED
  BY <1>3, <1>4, Sizes DEF ESP_START_LBA, GPT_ENTRIES_START_LBA, ROOT_START_LBA, ESP_END_LBA,
     ROOT_END_LBA, backup_entries_lba, root_size

\* What the positions and contents depend on.
Inputs == <<ESP_SECTORS, fat_size, input, esp_len, next_cluster, chunk>>

\* A step that writes to the disk changes nothing the sizes depend on.
LEMMA WritingKeeps ==
    ASSUME GceInv, UNCHANGED Inputs, pc \in Writing, pc' \in Writing,
           pc' \in {"backup", "done"} => esp_len = EspBytes
    PROVE  SizeInv' /\ CountInv' /\ LenInv'
<1>1. SizeInv'
  BY SizeKeeps, Zenon DEF GceInv, Inputs, Writing
<1>2. CountInv'
  BY Zenon DEF GceInv, CountInv, Inputs, Writing, BootClusters, KernelClusters
<1>3. LenInv'
  BY Zenon DEF GceInv, LenInv, Inputs, Writing, EspBytes, data_clusters, Clusters
<1> QED BY <1>1, <1>2, <1>3, Zenon

LEMMA PartsKeep ==
    ASSUME UNCHANGED Inputs
    PROVE  UNCHANGED <<MbrPart, HeaderPart, EntriesPart, EspPart, RootPart, BackupEntriesPart,
                       BackupPart, make_gpt, EspBytes>>
BY Zenon DEF Inputs, MbrPart, HeaderPart, EntriesPart, EspPart, RootPart, BackupEntriesPart, BackupPart,
       make_gpt, EspBytes, Part, Header, Entries, ESP_END_LBA, ROOT_START_LBA, root_size

\* Longer tuples.
LEMMA Tuple4 ==
    ASSUME NEW a, NEW b, NEW c, NEW d
    PROVE  Append(<<a, b, c>>, d) = <<a, b, c, d>>
<1> DEFINE s == Append(<<a, b, c>>, d)
           t == <<a, b, c, d>>
<1>1. s \in Seq({a, b, c, d}) /\ t \in Seq({a, b, c, d}) /\ Len(s) = 4 /\ Len(t) = 4
  OBVIOUS
<1>2. \A i \in 1 .. 4 : s[i] = t[i]
  OBVIOUS
<1>3. s = [i \in 1 .. 4 |-> s[i]] /\ t = [i \in 1 .. 4 |-> t[i]]
  BY <1>1
<1> QED BY <1>2, <1>3, Zenon

LEMMA Tuple5 ==
    ASSUME NEW a, NEW b, NEW c, NEW d, NEW e
    PROVE  Append(<<a, b, c, d>>, e) = <<a, b, c, d, e>>
<1> DEFINE s == Append(<<a, b, c, d>>, e)
           t == <<a, b, c, d, e>>
<1>1. s \in Seq({a, b, c, d, e}) /\ t \in Seq({a, b, c, d, e}) /\ Len(s) = 5 /\ Len(t) = 5
  OBVIOUS
<1>2. \A i \in 1 .. 5 : s[i] = t[i]
  OBVIOUS
<1>3. s = [i \in 1 .. 5 |-> s[i]] /\ t = [i \in 1 .. 5 |-> t[i]]
  BY <1>1
<1> QED BY <1>2, <1>3, Zenon

LEMMA Tuple7 ==
    ASSUME NEW a, NEW b, NEW c, NEW d, NEW e, NEW f, NEW g
    PROVE  <<a, b, c, d, e>> \o <<f, g>> = <<a, b, c, d, e, f, g>>
<1> DEFINE s == <<a, b, c, d, e>> \o <<f, g>>
           t == <<a, b, c, d, e, f, g>>
<1>1. s \in Seq({a, b, c, d, e, f, g}) /\ t \in Seq({a, b, c, d, e, f, g}) /\ Len(s) = 7 /\ Len(t) = 7
  OBVIOUS
<1>2. \A i \in 1 .. 7 : s[i] = t[i]
  OBVIOUS
<1>3. s = [i \in 1 .. 7 |-> s[i]] /\ t = [i \in 1 .. 7 |-> t[i]]
  BY <1>1
<1> QED BY <1>2, <1>3, Zenon

LEMMA WriteDirsKeeps == ASSUME GceInv, WriteDirs PROVE GceInv'
<1>1. /\ pc = "entries" /\ pc' = "head" /\ gpt' = make_gpt /\ disk' = disk /\ UNCHANGED Inputs
  BY Zenon DEF WriteDirs, Inputs
<1>2. DiskInv'
  BY <1>1, PartsKeep, Zenon DEF GceInv, DiskInv
<1> QED BY <1>1, <1>2, WritingKeeps, Zenon DEF GceInv, Writing

LEMMA WriteHeadKeeps == ASSUME GceInv, WriteHead PROVE GceInv'
<1>1. pc = "head" /\ pc' = "esp" /\ gpt' = gpt /\ gpt = make_gpt /\ UNCHANGED Inputs
  BY Zenon DEF WriteHead, Same, Inputs, GceInv, DiskInv
<1>2. disk' = <<MbrPart, HeaderPart, EntriesPart>>
  BY <1>1, Sizes DEF WriteHead, MbrPart, HeaderPart, EntriesPart, Part, make_gpt, GPT_HEADER_LBA,
     GPT_ENTRIES_START_LBA
<1>3. DiskInv'
  BY <1>1, <1>2, PartsKeep, Zenon DEF DiskInv
<1> QED BY <1>1, <1>3, WritingKeeps, Zenon DEF GceInv, Writing

LEMMA WriteEspKeeps == ASSUME GceInv, WriteEsp PROVE GceInv' /\ pc' = "root"
<1>1. /\ pc = "esp" /\ gpt' = gpt /\ gpt = make_gpt /\ UNCHANGED Inputs
      /\ disk = <<MbrPart, HeaderPart, EntriesPart>>
  BY Zenon DEF WriteEsp, WritePart, Same, Inputs, GceInv, DiskInv
<1>2. Tell = ESP_START_LBA * SECTOR_SIZE
  <2>1. Tell = EntriesPart.at + EntriesPart.len
    BY <1>1, Zenon DEF Tell
  <2>2. EntriesPart.at + EntriesPart.len = ESP_START_LBA * SECTOR_SIZE
    BY Layout, Sizes DEF EntriesPart, Part, GPT_ENTRIES_START_LBA, GceInv, SizeInv
  <2> QED BY <2>1, <2>2, Zenon
<1>3. pc' = "root" /\ disk' = Append(disk, EspPart)
  BY <1>2, Zenon DEF WriteEsp, WritePart, Segment, EspPart, Part
<1>4. disk' = <<MbrPart, HeaderPart, EntriesPart, EspPart>>
  BY <1>1, <1>3, Tuple4, Zenon
<1>5. DiskInv'
  BY <1>1, <1>3, <1>4, PartsKeep, Zenon DEF DiskInv
<1> QED BY <1>1, <1>3, <1>5, WritingKeeps DEF GceInv, Writing

\* The script stops before the root partition exactly when the bytearray has
\* grown.
LEMMA RootPlace ==
    ASSUME GceInv, pc = "root"
    PROVE  Tell = ROOT_START_LBA * SECTOR_SIZE <=> esp_len = EspBytes
<1>1. disk = <<MbrPart, HeaderPart, EntriesPart, EspPart>>
  BY Zenon DEF GceInv, DiskInv
<1>2. Tell = EspPart.at + EspPart.len
  BY <1>1, Zenon DEF Tell
<1>3. ROOT_START_LBA * SECTOR_SIZE = ESP_START_LBA * SECTOR_SIZE + EspBytes
  BY Layout, Sizes DEF GceInv, SizeInv, EspBytes
<1>4. Tell = ESP_START_LBA * SECTOR_SIZE + esp_len
  BY <1>2, Zenon DEF EspPart, Part
<1>5. ESP_START_LBA * SECTOR_SIZE \in Int /\ esp_len \in Int /\ EspBytes \in Int
  BY Layout, Sizes DEF GceInv, SizeInv, LenInv, EspBytes
<1> HIDE DEF EspBytes
<1> QED BY <1>3, <1>4, <1>5

LEMMA WriteRootKeeps == ASSUME GceInv, WriteRoot PROVE GceInv'
<1>1. /\ pc = "root" /\ gpt' = gpt /\ gpt = make_gpt /\ UNCHANGED Inputs
      /\ disk = <<MbrPart, HeaderPart, EntriesPart, EspPart>>
  BY Zenon DEF WriteRoot, WritePart, Same, Inputs, GceInv, DiskInv
<1>2. CASE Tell = ROOT_START_LBA * SECTOR_SIZE
  <2>1. pc' = "backup" /\ disk' = Append(disk, RootPart) /\ esp_len = EspBytes
    BY <1>1, <1>2, RootPlace, Zenon DEF WriteRoot, WritePart, Segment, RootPart, Part
  <2>2. disk' = <<MbrPart, HeaderPart, EntriesPart, EspPart, RootPart>>
    BY <1>1, <2>1, Tuple5, Zenon
  <2>3. DiskInv'
    BY <1>1, <2>1, <2>2, PartsKeep, Zenon DEF DiskInv
  <2> QED BY <1>1, <2>1, <2>3, WritingKeeps, Zenon DEF GceInv, Writing
<1>3. CASE Tell # ROOT_START_LBA * SECTOR_SIZE
  <2>1. pc' = "failed"
    BY <1>3, Zenon DEF WriteRoot, WritePart
  <2>2. SizeInv'
    BY <1>1, SizeKeeps, Zenon DEF GceInv, Inputs
  <2>3. CountInv'
    BY <1>1, <2>1, Zenon DEF GceInv, CountInv, Inputs, Writing
  <2>4. LenInv'
    BY <1>1, <2>1, Zenon DEF GceInv, LenInv, Inputs, EspBytes, data_clusters, Clusters
  <2>5. DiskInv'
    BY <2>1, Zenon DEF DiskInv
  <2> QED BY <2>2, <2>3, <2>4, <2>5, Zenon DEF GceInv
<1> QED BY <1>2, <1>3, Zenon

LEMMA WriteBackupKeeps == ASSUME GceInv, WriteBackup PROVE GceInv' /\ pc' = "done"
<1>1. /\ pc = "backup" /\ gpt' = gpt /\ gpt = make_gpt /\ UNCHANGED Inputs /\ esp_len = EspBytes
      /\ disk = <<MbrPart, HeaderPart, EntriesPart, EspPart, RootPart>>
  BY Zenon DEF WriteBackup, Same, Inputs, GceInv, DiskInv, LenInv
<1>2. Tell = backup_entries_lba * SECTOR_SIZE
  <2>1. Tell = RootPart.at + RootPart.len
    BY <1>1, Zenon DEF Tell
  <2>2. RootPart.at + RootPart.len = backup_entries_lba * SECTOR_SIZE
    BY Layout, Sizes DEF RootPart, Part, GceInv, SizeInv
  <2> QED BY <2>1, <2>2, Zenon
<1>3. BackupEntriesPart.at + BackupEntriesPart.len = (TOTAL_SECTORS - 1) * SECTOR_SIZE
  BY Layout, Sizes DEF BackupEntriesPart, Part, GceInv, SizeInv
<1>4. pc' = "done" /\ disk' = disk \o <<BackupEntriesPart, BackupPart>>
  BY <1>1, <1>2, <1>3, Zenon DEF WriteBackup, Segment, BackupEntriesPart, BackupPart, Part, make_gpt
<1>5. disk' = <<MbrPart, HeaderPart, EntriesPart, EspPart, RootPart, BackupEntriesPart, BackupPart>>
  BY <1>1, <1>4, Tuple7
<1>6. DiskInv'
  BY <1>1, <1>4, <1>5, PartsKeep, Zenon DEF DiskInv
<1> QED BY <1>1, <1>4, <1>6, WritingKeeps, Zenon DEF GceInv, Writing

LEMMA GceStep == ASSUME GceInv, [Next]_vars PROVE GceInv'
<1>1. CASE GrowFat
  BY <1>1, GrowKeeps, Zenon
<1>2. CASE WriteBpb
  BY <1>2, BpbKeeps, Zenon
<1>3. CASE AllocDirs
  BY <1>3, DirsKeeps, Zenon
<1>4. CASE WriteCluster("boot", "kernel")
  BY <1>4, BootKeeps, Zenon
<1>5. CASE WriteCluster("kernel", "entries")
  BY <1>5, KernelKeeps, Zenon
<1>6. CASE WriteDirs
  BY <1>6, WriteDirsKeeps, Zenon
<1>7. CASE WriteHead
  BY <1>7, WriteHeadKeeps, Zenon
<1>8. CASE WriteEsp
  BY <1>8, WriteEspKeeps, Zenon
<1>9. CASE WriteRoot
  BY <1>9, WriteRootKeeps, Zenon
<1>10. CASE WriteBackup
  BY <1>10, WriteBackupKeeps, Zenon
<1>11. CASE UNCHANGED vars
  <2>1. UNCHANGED Inputs /\ UNCHANGED <<pc, gpt, disk>>
    BY <1>11, Zenon DEF vars, Inputs
  <2>2. SizeInv'
    BY <2>1, Zenon DEF GceInv, SizeInv, Inputs, Clusters
  <2>3. CountInv'
    BY <2>1, Zenon DEF GceInv, CountInv, Inputs, BootClusters, KernelClusters
  <2>4. LenInv'
    BY <2>1, Zenon DEF GceInv, LenInv, Inputs, EspBytes, data_clusters, Clusters
  <2>5. DiskInv'
    BY <2>1, PartsKeep, Zenon DEF GceInv, DiskInv
  <2> QED BY <2>2, <2>3, <2>4, <2>5, Zenon DEF GceInv
<1> QED BY <1>1, <1>2, <1>3, <1>4, <1>5, <1>6, <1>7, <1>8, <1>9, <1>10, <1>11, Zenon DEF Next, Ended

LEMMA GceAlways == Spec => []GceInv
<1>1. Init => GceInv
  BY GceInit, Zenon
<1>2. GceInv /\ [Next]_vars => GceInv'
  BY GceStep, Zenon
<1> QED BY <1>1, <1>2, PTL DEF Spec

\* The loop of the script ends with the least number of FAT sectors that has an
\* entry for every cluster it leaves, whatever the sizes of sector and partition:
\* the first guess is never too high.
THEOREM GceFatSizeLeast == Spec => []FatSizeLeast
<1>1. GceInv => FatSizeLeast
  BY Zenon DEF GceInv, SizeInv, FatSizeLeast
<1> QED BY <1>1, GceAlways, PTL

---------------------------------------------------------------------------
(* Files that fit *)

Fits == /\ data_clusters >= FSINFO_USED
        /\ 4 + BootClusters + KernelClusters <= data_clusters

\* A kernel that is not empty makes the bytearray longer as soon as one of its
\* clusters does not exist.
GrownInv ==
    /\ (pc = "kernel" /\ chunk > 0) \/ pc \in Writing =>
          (next_cluster - 2 > data_clusters => esp_len > EspBytes)
    /\ pc = "failed" => ~Fits

\* Each turn of the loop for the kernel writes some of it.
LEMMA KernelGrows ==
    ASSUME GceInv, 0 \notin KernelSizes, WriteCluster("kernel", "entries")
    PROVE  next_cluster' - 2 > data_clusters => esp_len' > EspBytes
<1>1. /\ ESP_SECTORS \in Nat /\ fat_size \in Int /\ next_cluster \in Int /\ chunk \in Nat
      /\ esp_len \in Nat /\ esp_len >= ESP_SECTORS * SECTOR_SIZE /\ data_clusters \in Int
      /\ input.kernel \in Nat \ {0} /\ pc = "kernel" /\ chunk < KernelClusters
  <2>1. input.kernel \in KernelSizes
    BY Zenon DEF GceInv, CountInv
  <2>2. input.kernel \in Nat \ {0}
    BY <2>1, Sizes, Zenon
  <2>3. pc = "kernel"
    BY Zenon DEF WriteCluster
  <2>4. next_cluster \in Nat /\ chunk \in Nat /\ chunk < KernelClusters
    BY <2>3, Zenon DEF GceInv, CountInv
  <2>5. ESP_SECTORS \in Nat /\ fat_size \in Nat
    BY Sizes, Zenon DEF GceInv, SizeInv
  <2>6. esp_len \in Nat /\ esp_len >= ESP_SECTORS * SECTOR_SIZE
    BY Zenon DEF GceInv, LenInv, EspBytes
  <2>7. data_clusters \in Int
    BY <2>5, Sizes DEF data_clusters, Clusters, num_fats
  <2> QED BY <2>2, <2>3, <2>4, <2>5, <2>6, <2>7
<1>2. chunk * SECTOR_SIZE < input.kernel
  BY <1>1, ClusterCount DEF KernelClusters
<1>3. Chunk("kernel", chunk).len \in 1 .. SECTOR_SIZE
  BY <1>1, <1>2, PieceLen, Zenon
<1>4. /\ next_cluster' = next_cluster + 1
      /\ esp_len' = Assign(cluster_offset(next_cluster), Chunk("kernel", chunk).len)
  BY <1>2, Zenon DEF WriteCluster, cluster_size
<1>5. next_cluster - 2 >= data_clusters => esp_len' > EspBytes
  BY <1>1, <1>3, <1>4, AssignLen, Zenon DEF EspBytes
<1> QED BY <1>1, <1>4, <1>5

LEMMA FitsKeeps ==
    ASSUME UNCHANGED <<ESP_SECTORS, fat_size, input>>
    PROVE  UNCHANGED <<Fits, BootClusters, KernelClusters, data_clusters, EspBytes>>
BY Zenon DEF Fits, BootClusters, KernelClusters, data_clusters, Clusters, EspBytes

LEMMA GrownStep ==
    ASSUME GceInv, GceInv', GrownInv, 0 \notin KernelSizes, [Next]_vars
    PROVE  GrownInv'
<1>1. CASE GrowFat \/ AllocDirs \/ WriteCluster("boot", "kernel")
  BY <1>1 DEF GrowFat, AllocDirs, WriteCluster, GrownInv, Writing
<1>2. CASE WriteBpb
  <2>1. pc' \in {"dirs", "failed"} /\ (pc' = "failed" => data_clusters < FSINFO_USED)
        /\ UNCHANGED <<ESP_SECTORS, fat_size, input>>
    BY <1>2, Zenon DEF WriteBpb
  <2>2. data_clusters \in Int /\ FSINFO_USED \in Int
    BY Sizes DEF GceInv, SizeInv, data_clusters, Clusters, num_fats
  <2> QED BY <2>1, <2>2, FitsKeeps DEF GrownInv, Fits, Writing
<1>3. CASE WriteCluster("kernel", "entries")
  <2>1. pc' \in {"kernel", "entries"} /\ UNCHANGED <<ESP_SECTORS, fat_size, input>>
    BY <1>3, Zenon DEF WriteCluster
  <2> QED BY <1>3, <2>1, FitsKeeps, KernelGrows, Zenon DEF GrownInv
<1>4. CASE WriteDirs \/ WriteHead \/ WriteBackup \/ WriteEsp \/ UNCHANGED vars
  <2>1. UNCHANGED Inputs
    BY <1>4, Zenon DEF WriteDirs, WriteHead, WriteBackup, WriteEsp, WritePart, Same, Inputs, vars
  <2>2. pc' = pc \/ (pc \in Writing /\ pc' \in Writing)
    BY <1>4, WriteEspKeeps, WriteBackupKeeps, Zenon DEF WriteDirs, WriteHead, WriteBackup, WriteEsp,
       WritePart, Writing, vars
  <2>3. UNCHANGED <<Fits, data_clusters, EspBytes, next_cluster, chunk, esp_len>>
    BY <2>1, FitsKeeps, Zenon DEF Inputs
  <2> QED BY <2>2, <2>3, Zenon DEF GrownInv, Writing
<1>5. CASE WriteRoot
  <2>1. pc = "root" /\ pc' \in {"backup", "failed"} /\ UNCHANGED Inputs
    BY <1>5, Zenon DEF WriteRoot, WritePart, Same, Inputs
  <2>2. CASE pc' = "failed"
    <3>1. esp_len # EspBytes
      BY <1>5, <2>1, <2>2, RootPlace DEF WriteRoot, WritePart
    <3>2. data_clusters \in Int /\ next_cluster \in Int
      BY Sizes DEF GceInv, SizeInv, CountInv, data_clusters, Clusters, num_fats
    <3>3. next_cluster - 2 > data_clusters /\ next_cluster = 6 + BootClusters + KernelClusters
      BY <2>1, <3>1, <3>2 DEF GceInv, LenInv, CountInv, Writing
    <3>4. BootClusters \in Nat /\ KernelClusters \in Nat
      BY InputNat, ClusterCount, Zenon DEF GceInv, BootClusters, KernelClusters
    <3>5. ~Fits
      BY <3>2, <3>3, <3>4 DEF Fits
    <3> QED BY <2>1, <2>2, <3>5, FitsKeeps DEF GrownInv, Inputs, Writing
  <2>3. CASE pc' = "backup"
    BY <2>1, <2>3, FitsKeeps, Zenon DEF GrownInv, Inputs, Writing
  <2> QED BY <2>1, <2>2, <2>3, Zenon
<1> QED BY <1>1, <1>2, <1>3, <1>4, <1>5, Zenon DEF Next, Ended

\* A disk is completed exactly when the files fit, provided the kernel is not
\* empty (an empty one takes a cluster and writes none): the assertion before the
\* root partition stops the script on every other input.
THEOREM GceFinishesIffFits == 0 \notin KernelSizes => (Spec => []FinishesIffFits)
<1> SUFFICES ASSUME 0 \notin KernelSizes PROVE Spec => []FinishesIffFits
  BY Zenon
<1>1. Init => GrownInv
  BY Zenon DEF Init, GrownInv, Writing
<1>2. GceInv /\ GceInv' /\ GrownInv /\ [Next]_vars => GrownInv'
  BY GrownStep, Zenon
<1>3. GceInv /\ GrownInv => FinishesIffFits
  <2> SUFFICES ASSUME GceInv, GrownInv PROVE FinishesIffFits
    BY Zenon
  <2>1. ASSUME pc = "done" PROVE Fits
    <3>1. esp_len = EspBytes /\ esp_len \in Nat /\ data_clusters >= FSINFO_USED
      BY <2>1, Zenon DEF GceInv, LenInv
    <3>2. data_clusters \in Int /\ next_cluster \in Int
      BY Sizes DEF GceInv, SizeInv, CountInv, data_clusters, Clusters, num_fats
    <3>3. next_cluster - 2 <= data_clusters
      BY <2>1, <3>1, <3>2 DEF GrownInv, Writing
    <3>4. BootClusters \in Nat /\ KernelClusters \in Nat
      BY InputNat, ClusterCount, Zenon DEF GceInv, BootClusters, KernelClusters
    <3> QED BY <2>1, <3>1, <3>2, <3>3, <3>4 DEF GceInv, CountInv, Writing, Fits
  <2> QED BY <2>1, Zenon DEF GrownInv, FinishesIffFits, Fits, BootClusters, KernelClusters
<1> QED BY <1>1, <1>2, <1>3, GceAlways, PTL DEF Spec

---------------------------------------------------------------------------
(* Reading the partition table *)

LEMMA LeastOf ==
    ASSUME NEW H \in SUBSET Int, NEW k \in H, \A j \in H : k <= j
    PROVE  (CHOOSE i \in H : \A j \in H : i <= j) = k
<1> DEFINE m == CHOOSE i \in H : \A j \in H : i <= j
<1>1. m \in H /\ \A j \in H : m <= j
  BY Zenon
<1> HIDE DEF m
<1>2. m = k
  BY <1>1
<1> QED BY <1>2, Zenon DEF m

\* The part found at a sector, when the parts in front of it lie elsewhere or
\* are lost.
LEMMA PartOf ==
    ASSUME NEW d, NEW n \in Nat, DOMAIN d = 1 .. n, NEW k \in 1 .. n, NEW lba \in Nat,
           d[k].at = lba * SECTOR_SIZE,
           \A j \in 1 .. k - 1 : d[j].at = -1 \/ \E m \in Nat : m < lba /\ d[j].at = m * SECTOR_SIZE
    PROVE  PartAt(d, lba) = d[k]
<1> DEFINE H == {j \in DOMAIN d : d[j].at = lba * SECTOR_SIZE}
<1>1. k \in H /\ H \in SUBSET Int
  OBVIOUS
<1>2. ASSUME NEW j \in 1 .. k - 1 PROVE d[j].at # lba * SECTOR_SIZE
  <2>1. CASE d[j].at = -1
    BY <2>1, Sizes
  <2>2. ASSUME NEW m \in Nat, m < lba, d[j].at = m * SECTOR_SIZE PROVE d[j].at # lba * SECTOR_SIZE
    <3>1. m * SECTOR_SIZE < lba * SECTOR_SIZE
      BY <2>2, MulStrict, Sizes
    <3> QED BY <2>2, <3>1, Sizes
  <2> QED BY <2>1, <2>2, Zenon
<1>3. \A j \in H : k <= j
  BY <1>2
<1>4. (CHOOSE i \in H : \A j \in H : i <= j) = k
  BY <1>1, <1>3, LeastOf, Zenon
<1> QED BY <1>1, <1>4, Zenon DEF PartAt, FirstOf

\* The types as they are on the disk are the ones the kernel looks for.
LEMMA GuidTypes ==
    /\ guid_to_mixed_endian(LINUX_FS_GUID) = KERNEL_LINUX
    /\ guid_to_mixed_endian(EFI_SYSTEM_GUID) = KERNEL_ESP
    /\ KERNEL_LINUX # KERNEL_ESP
<1>1. \A k \in 1 .. 16 : guid_to_mixed_endian(LINUX_FS_GUID)[k] = KERNEL_LINUX[k]
  BY DEF guid_to_mixed_endian, LINUX_FS_GUID, KERNEL_LINUX
<1>2. \A k \in 1 .. 16 : guid_to_mixed_endian(EFI_SYSTEM_GUID)[k] = KERNEL_ESP[k]
  BY DEF guid_to_mixed_endian, EFI_SYSTEM_GUID, KERNEL_ESP
<1>3. /\ KERNEL_LINUX = [k \in 1 .. 16 |-> KERNEL_LINUX[k]]
      /\ KERNEL_ESP = [k \in 1 .. 16 |-> KERNEL_ESP[k]]
  <2>1. KERNEL_LINUX \in Seq(Nat) /\ Len(KERNEL_LINUX) = 16 /\ KERNEL_ESP \in Seq(Nat) /\ Len(KERNEL_ESP) = 16
    BY DEF KERNEL_LINUX, KERNEL_ESP
  <2> QED BY <2>1
<1>4. /\ guid_to_mixed_endian(LINUX_FS_GUID) = [k \in 1 .. 16 |-> guid_to_mixed_endian(LINUX_FS_GUID)[k]]
      /\ guid_to_mixed_endian(EFI_SYSTEM_GUID) = [k \in 1 .. 16 |-> guid_to_mixed_endian(EFI_SYSTEM_GUID)[k]]
  BY DEF guid_to_mixed_endian
<1>5. KERNEL_LINUX[1] = 175 /\ KERNEL_ESP[1] = 40
  BY Zenon DEF KERNEL_LINUX, KERNEL_ESP
<1> QED BY <1>1, <1>2, <1>3, <1>4, <1>5

\* A header is sealed over itself with the checksum cleared.
LEMMA HeaderFields ==
    ASSUME NEW a, NEW b, NEW c, NEW d, NEW e, NEW f, NEW g, NEW s, NEW h,
           h = Sealed([my |-> a, alternate |-> b, first |-> c, last |-> d, entries_lba |-> e,
                       num |-> f, size |-> g, entries_crc |-> s, crc |-> <<>>])
    PROVE  /\ h.my = a /\ h.alternate = b /\ h.first = c /\ h.last = d /\ h.entries_lba = e
           /\ h.num = f /\ h.size = g /\ h.entries_crc = s
           /\ h.crc = <<[h EXCEPT !.crc = <<>>]>>
<1> DEFINE r == [my |-> a, alternate |-> b, first |-> c, last |-> d, entries_lba |-> e,
                 num |-> f, size |-> g, entries_crc |-> s, crc |-> <<>>]
<1>1. h = [r EXCEPT !.crc = <<r>>]
  BY Zenon DEF Sealed
<1>2. h.crc = <<r>>
  BY <1>1, Zenon
<1>3. [h EXCEPT !.crc = <<>>] = r
  BY <1>1
<1> QED BY <1>1, <1>2, <1>3

\* A header of this script leads to the whole table.
LEMMA WholeTable ==
    ASSUME NEW d, NEW h, h.num = GPT_NUM_ENTRIES, h.size = GPT_ENTRY_SIZE,
           PartAt(d, h.entries_lba).what = "entries", PartAt(d, h.entries_lba).c = Entries
    PROVE  TableOf(d, h) = Entries
<1> DEFINE per == SECTOR_SIZE \div GPT_ENTRY_SIZE
           n == Ceil(GPT_NUM_ENTRIES, per)
           most == Min2(64, n) * per
<1>1. per \in Nat \ {0}
  <2>1. GPT_ENTRY_SIZE \in Nat \ {0} /\ GPT_ENTRY_SIZE <= SECTOR_SIZE
    BY GceAssumption, Zenon
  <2>2. per \in Int /\ SECTOR_SIZE < per * GPT_ENTRY_SIZE + GPT_ENTRY_SIZE
    BY <2>1, DivFacts, Sizes
  <2>3. (per + 1) * GPT_ENTRY_SIZE > 1 * GPT_ENTRY_SIZE
    BY <2>1, <2>2, Sizes
  <2>4. per + 1 \in Int /\ 1 \in Int
    BY <2>2
  <2> HIDE DEF per
  <2>5. 1 < per + 1
    BY <2>1, <2>3, <2>4, MulStrict, Zenon
  <2> QED BY <2>2, <2>5
<1> HIDE DEF per
<1>2. GPT_NUM_ENTRIES \in Nat /\ GPT_NUM_ENTRIES >= 2
  BY GceAssumption, Zenon
<1>3. n \in Int /\ n > 0 /\ (per = 1 => n > 1)
  <2>1. GPT_NUM_ENTRIES > 0 * per /\ (per = 1 => GPT_NUM_ENTRIES > 1 * per)
    BY <1>1, <1>2
  <2>2. 0 \in Int /\ 1 \in Int
    OBVIOUS
  <2> QED BY <1>1, <1>2, <2>1, <2>2, CeilAbove
<1> HIDE DEF n
<1>4. most \in Int /\ most >= 2
  <2>1. Min2(64, n) \in Nat /\ Min2(64, n) >= 1 /\ (per = 1 => Min2(64, n) >= 2)
    BY <1>3 DEF Min2
  <2>2. Min2(64, n) * per \in Int
    BY <1>1, <2>1
  <2>3. CASE per = 1
    BY <2>1, <2>2, <2>3
  <2>4. CASE per >= 2
    <3>1. 1 * per <= Min2(64, n) * per
      BY <1>1, <2>1, MulMono
    <3> QED BY <1>1, <2>2, <2>4, <3>1
  <2> QED BY <1>1, <2>3, <2>4
<1> HIDE DEF most
<1>5. Len(Entries) = 2 /\ Min2(Len(Entries), most) = 2 /\ Entries \in Seq({Entries[1], Entries[2]})
  BY <1>4 DEF Entries, Min2
<1>6. SubSeq(Entries, 1, 2) = Entries
  BY <1>5
<1> QED BY <1>5, <1>6, Zenon DEF TableOf, n, most, per

\* A finished disk has each of its parts where it belongs.
LEMMA DiskParts ==
    ASSUME GceInv, Finished
    PROVE  /\ DOMAIN disk = 1 .. 7 /\ Len(disk) = 7
           /\ disk[1] = MbrPart /\ disk[2] = HeaderPart /\ disk[3] = EntriesPart
           /\ disk[4] = EspPart /\ disk[5] = RootPart /\ disk[6] = BackupEntriesPart
           /\ disk[7] = BackupPart /\ esp_len = EspBytes /\ ESP_SECTORS > 0
<1>1. /\ disk = <<MbrPart, HeaderPart, EntriesPart, EspPart, RootPart, BackupEntriesPart, BackupPart>>
      /\ esp_len = EspBytes /\ data_clusters >= FSINFO_USED
  BY Zenon DEF GceInv, DiskInv, LenInv, Finished
<1>2. ESP_SECTORS > 0
  BY <1>1, Sizes DEF GceInv, SizeInv, data_clusters, Clusters, num_fats
<1> QED BY <1>1, <1>2

Lba == <<0, 1, 2, ESP_START_LBA, ROOT_START_LBA, backup_entries_lba, TOTAL_SECTORS - 1>>

LEMMA LbaOrder ==
    ASSUME GceInv, Finished
    PROVE  /\ \A k \in 1 .. 7 : Lba[k] \in Nat /\ disk[k].at = Lba[k] * SECTOR_SIZE
           /\ \A j, k \in 1 .. 7 : j < k => Lba[j] < Lba[k]
<1>1. /\ 2 < ESP_START_LBA /\ ESP_START_LBA < ROOT_START_LBA /\ ROOT_START_LBA < backup_entries_lba
      /\ backup_entries_lba < TOTAL_SECTORS - 1 /\ ESP_START_LBA \in Nat /\ ROOT_START_LBA \in Nat
      /\ backup_entries_lba \in Nat /\ TOTAL_SECTORS - 1 \in Nat
  BY DiskParts, Layout, Sizes DEF GceInv, SizeInv
<1>2. \A k \in 1 .. 7 : Lba[k] \in Nat
  BY <1>1 DEF Lba
<1>3. \A j, k \in 1 .. 7 : j < k => Lba[j] < Lba[k]
  BY <1>1 DEF Lba
<1>4. \A k \in 1 .. 7 : disk[k].at = Lba[k] * SECTOR_SIZE
  BY DiskParts DEF Lba, MbrPart, HeaderPart, EntriesPart, EspPart, RootPart, BackupEntriesPart,
     BackupPart, Part, GPT_HEADER_LBA, GPT_ENTRIES_START_LBA
<1> QED BY <1>2, <1>3, <1>4

\* A part is found at its sector, with and without the parts in front of the
\* first partition.
LEMMA DiskAt ==
    ASSUME GceInv, Finished, NEW k \in 1 .. 7
    PROVE  PartAt(disk, Lba[k]) = disk[k]
<1>1. \A j \in 1 .. k - 1 : \E m \in Nat : m < Lba[k] /\ disk[j].at = m * SECTOR_SIZE
  <2> SUFFICES ASSUME NEW j \in 1 .. k - 1
               PROVE  \E m \in Nat : m < Lba[k] /\ disk[j].at = m * SECTOR_SIZE
    BY Zenon
  <2>1. j \in 1 .. 7 /\ j < k
    OBVIOUS
  <2> QED BY <2>1, LbaOrder, Zenon
<1>2. DOMAIN disk = 1 .. 7 /\ Lba[k] \in Nat /\ disk[k].at = Lba[k] * SECTOR_SIZE
  BY DiskParts, LbaOrder, Zenon
<1>3. 7 \in Nat
  BY Zenon
<1> QED BY <1>1, <1>2, <1>3, PartOf

Left == [k \in DOMAIN disk |-> IF disk[k].at >= ESP_START_LBA * SECTOR_SIZE THEN disk[k] ELSE Nothing]

LEMMA LeftAt ==
    ASSUME GceInv, Finished, NEW k \in 4 .. 7
    PROVE  PartAt(Left, Lba[k]) = disk[k]
<1>1. DOMAIN disk = 1 .. 7 /\ DOMAIN Left = 1 .. 7 /\ 7 \in Nat /\ k \in 1 .. 7
  BY DiskParts DEF Left
<1>2. Lba[k] \in Nat /\ disk[k].at = Lba[k] * SECTOR_SIZE
  BY <1>1, LbaOrder, Zenon
<1>3. \A j \in 1 .. 7 : Lba[j] \in Nat /\ disk[j].at = Lba[j] * SECTOR_SIZE
  BY LbaOrder, Zenon
<1>4. ASSUME NEW j \in 4 .. 7 PROVE Left[j] = disk[j]
  <2>1. ESP_START_LBA \in Nat /\ ESP_START_LBA <= Lba[j] /\ Lba[j] \in Nat
    <3>1. Lba[4] = ESP_START_LBA /\ 4 \in 1 .. 7 /\ j \in 1 .. 7
      BY DEF Lba
    <3>2. j = 4 \/ 4 < j
      OBVIOUS
    <3> QED BY <3>1, <3>2, LbaOrder
  <2>2. ESP_START_LBA * SECTOR_SIZE <= Lba[j] * SECTOR_SIZE
    BY <2>1, MulMono, Sizes
  <2>3. ESP_START_LBA * SECTOR_SIZE \in Int /\ Lba[j] * SECTOR_SIZE \in Int
    BY <2>1, Sizes
  <2>4. disk[j].at = Lba[j] * SECTOR_SIZE /\ j \in DOMAIN disk
    BY <1>1, <1>3
  <2> QED BY <2>2, <2>3, <2>4 DEF Left
<1>5. ASSUME NEW j \in 1 .. k - 1
      PROVE  Left[j].at = -1 \/ \E m \in Nat : m < Lba[k] /\ Left[j].at = m * SECTOR_SIZE
  <2>1. j \in 1 .. 7 /\ j < k /\ j \in DOMAIN disk
    BY <1>1
  <2>2. Left[j] = disk[j] \/ Left[j] = Nothing
    BY <2>1, Zenon DEF Left
  <2>3. Lba[j] \in Nat /\ Lba[j] < Lba[k] /\ disk[j].at = Lba[j] * SECTOR_SIZE
    BY <1>1, <2>1, LbaOrder, Zenon
  <2>4. Nothing.at = -1
    BY Zenon DEF Nothing
  <2> QED BY <2>2, <2>3, <2>4, Zenon
<1>6. Left[k].at = Lba[k] * SECTOR_SIZE /\ Left[k] = disk[k]
  BY <1>2, <1>4, Zenon
<1> QED BY <1>1, <1>2, <1>5, <1>6, PartOf

\* A header made from another one by exchanging its places.
Moved(h, x, y, z) == [h EXCEPT !.crc = <<>>, !.my = x, !.alternate = y, !.entries_lba = z]

\* A header by its fields, before its checksum is known.
HeaderOf(a, b, c, d, e, f, g, s) ==
    [my |-> a, alternate |-> b, first |-> c, last |-> d, entries_lba |-> e,
     num |-> f, size |-> g, entries_crc |-> s, crc |-> <<>>]

\* Clearing the checksum of a sealed header.
LEMMA Unsealed ==
    ASSUME NEW a, NEW b, NEW c, NEW d, NEW e, NEW f, NEW g, NEW s, NEW h,
           h = Sealed([my |-> a, alternate |-> b, first |-> c, last |-> d, entries_lba |-> e,
                       num |-> f, size |-> g, entries_crc |-> s, crc |-> <<>>])
    PROVE  [h EXCEPT !.crc = <<>>]
             = [my |-> a, alternate |-> b, first |-> c, last |-> d, entries_lba |-> e,
                num |-> f, size |-> g, entries_crc |-> s, crc |-> <<>>]
<1> DEFINE r == [my |-> a, alternate |-> b, first |-> c, last |-> d, entries_lba |-> e,
                 num |-> f, size |-> g, entries_crc |-> s, crc |-> <<>>]
<1>1. h = [r EXCEPT !.crc = <<r>>]
  BY Zenon DEF Sealed
<1> QED BY <1>1

Clears(a, b, c, d, e, f, g, s) ==
    [Sealed(HeaderOf(a, b, c, d, e, f, g, s)) EXCEPT !.crc = <<>>] = HeaderOf(a, b, c, d, e, f, g, s)

LEMMA Cleared ==
    ASSUME NEW a, NEW b, NEW c, NEW d, NEW e, NEW f, NEW g, NEW s
    PROVE  Clears(a, b, c, d, e, f, g, s)
BY Unsealed DEF Clears, HeaderOf

Swaps(a, b, c, d, e, f, g, s, x, y, z) ==
    Moved(Sealed(HeaderOf(a, b, c, d, e, f, g, s)), x, y, z) = HeaderOf(x, y, c, d, z, f, g, s)

LEMMA Exchanged ==
    ASSUME NEW a, NEW b, NEW c, NEW d, NEW e, NEW f, NEW g, NEW s, NEW x, NEW y, NEW z
    PROVE  Swaps(a, b, c, d, e, f, g, s, x, y, z)
<1>1. PICK r : r = HeaderOf(a, b, c, d, e, f, g, s)
  BY Zenon
<1>2. PICK h : h = Sealed(r)
  BY Zenon
<1>3. [h EXCEPT !.crc = <<>>] = r
  <2>1. Clears(a, b, c, d, e, f, g, s)
    BY Cleared, Zenon
  <2> QED BY <1>1, <1>2, <2>1, Zenon DEF Clears
<1>4. [r EXCEPT !.my = x] = HeaderOf(x, b, c, d, e, f, g, s)
  BY <1>1 DEF HeaderOf
<1>5. [HeaderOf(x, b, c, d, e, f, g, s) EXCEPT !.alternate = y] = HeaderOf(x, y, c, d, e, f, g, s)
  BY DEF HeaderOf
<1>6. [HeaderOf(x, y, c, d, e, f, g, s) EXCEPT !.entries_lba = z] = HeaderOf(x, y, c, d, z, f, g, s)
  BY DEF HeaderOf
<1>7. Moved(h, x, y, z) = HeaderOf(x, y, c, d, z, f, g, s)
  BY <1>3, <1>4, <1>5, <1>6, Zenon DEF Moved
<1> QED BY <1>1, <1>2, <1>7, Zenon DEF Swaps

\* The two headers.
LEMMA Headers ==
    /\ Header.my = GPT_HEADER_LBA /\ Header.alternate = TOTAL_SECTORS - 1
    /\ Header.first = ESP_START_LBA /\ Header.last = ROOT_END_LBA
    /\ Header.entries_lba = GPT_ENTRIES_START_LBA
    /\ Header.num = GPT_NUM_ENTRIES /\ Header.size = GPT_ENTRY_SIZE
    /\ Header.entries_crc = Entries /\ Header.crc = <<[Header EXCEPT !.crc = <<>>]>>
    /\ Backup(Header).my = TOTAL_SECTORS - 1 /\ Backup(Header).alternate = GPT_HEADER_LBA
    /\ Backup(Header).last = ROOT_END_LBA
    /\ Backup(Header).entries_lba = backup_entries_lba
    /\ Backup(Header).num = GPT_NUM_ENTRIES /\ Backup(Header).size = GPT_ENTRY_SIZE
    /\ Backup(Header).entries_crc = Entries
    /\ Backup(Header).crc = <<[Backup(Header) EXCEPT !.crc = <<>>]>>
<1>1. Backup(Header) = Sealed([my |-> TOTAL_SECTORS - 1, alternate |-> GPT_HEADER_LBA,
                               first |-> ESP_START_LBA, last |-> ROOT_END_LBA,
                               entries_lba |-> backup_entries_lba, num |-> GPT_NUM_ENTRIES,
                               size |-> GPT_ENTRY_SIZE, entries_crc |-> Entries, crc |-> <<>>])
  <2>1. Header = Sealed(HeaderOf(GPT_HEADER_LBA, TOTAL_SECTORS - 1, ESP_START_LBA, ROOT_END_LBA,
                                 GPT_ENTRIES_START_LBA, GPT_NUM_ENTRIES, GPT_ENTRY_SIZE, Entries))
    BY Zenon DEF Header, HeaderOf
  <2>2. Moved(Header, TOTAL_SECTORS - 1, GPT_HEADER_LBA, backup_entries_lba)
          = HeaderOf(TOTAL_SECTORS - 1, GPT_HEADER_LBA, ESP_START_LBA, ROOT_END_LBA,
                     backup_entries_lba, GPT_NUM_ENTRIES, GPT_ENTRY_SIZE, Entries)
    <3>1. Swaps(GPT_HEADER_LBA, TOTAL_SECTORS - 1, ESP_START_LBA, ROOT_END_LBA,
                GPT_ENTRIES_START_LBA, GPT_NUM_ENTRIES, GPT_ENTRY_SIZE, Entries,
                TOTAL_SECTORS - 1, GPT_HEADER_LBA, backup_entries_lba)
      BY Exchanged, Zenon
    <3> QED BY <2>1, <3>1, Zenon DEF Swaps
  <2> QED BY <2>2, Zenon DEF Backup, Moved, HeaderOf
<1>2. /\ Header.my = GPT_HEADER_LBA /\ Header.alternate = TOTAL_SECTORS - 1
      /\ Header.first = ESP_START_LBA /\ Header.last = ROOT_END_LBA
      /\ Header.entries_lba = GPT_ENTRIES_START_LBA
      /\ Header.num = GPT_NUM_ENTRIES /\ Header.size = GPT_ENTRY_SIZE
      /\ Header.entries_crc = Entries /\ Header.crc = <<[Header EXCEPT !.crc = <<>>]>>
  BY HeaderFields DEF Header
<1>3. /\ Backup(Header).my = TOTAL_SECTORS - 1 /\ Backup(Header).alternate = GPT_HEADER_LBA
      /\ Backup(Header).last = ROOT_END_LBA
      /\ Backup(Header).entries_lba = backup_entries_lba
      /\ Backup(Header).num = GPT_NUM_ENTRIES /\ Backup(Header).size = GPT_ENTRY_SIZE
      /\ Backup(Header).entries_crc = Entries
      /\ Backup(Header).crc = <<[Backup(Header) EXCEPT !.crc = <<>>]>>
  BY <1>1, HeaderFields
<1> QED BY <1>2, <1>3, Zenon

\* The parts that hold headers and tables.
LEMMA FoundParts ==
    ASSUME GceInv, Finished
    PROVE  /\ PartAt(disk, GPT_HEADER_LBA) = HeaderPart
           /\ PartAt(disk, GPT_ENTRIES_START_LBA) = EntriesPart
           /\ PartAt(disk, ESP_START_LBA) = EspPart
           /\ PartAt(disk, ROOT_START_LBA) = RootPart
           /\ PartAt(disk, TOTAL_SECTORS - 1) = BackupPart
           /\ PartAt(Left, backup_entries_lba) = BackupEntriesPart
           /\ PartAt(Left, TOTAL_SECTORS - 1) = BackupPart
<1>1. /\ Lba[2] = GPT_HEADER_LBA /\ Lba[3] = GPT_ENTRIES_START_LBA /\ Lba[4] = ESP_START_LBA
      /\ Lba[5] = ROOT_START_LBA /\ Lba[6] = backup_entries_lba /\ Lba[7] = TOTAL_SECTORS - 1
  BY Zenon DEF Lba, GPT_HEADER_LBA, GPT_ENTRIES_START_LBA
<1>2. \A k \in {2, 3, 4, 5, 7} : PartAt(disk, Lba[k]) = disk[k]
  BY DiskAt
<1>3. \A k \in {6, 7} : PartAt(Left, Lba[k]) = disk[k]
  BY LeftAt
<1> QED BY <1>1, <1>2, <1>3, DiskParts, Zenon

\* The kernel finds both entries of the table.
LEMMA FoundPartitions ==
    ASSUME GceInv, Finished
    PROVE  /\ FindPartition(disk, KERNEL_ESP) = Entries[1]
           /\ FindPartition(disk, KERNEL_LINUX) = Entries[2]
<1>1. HeaderPart.what = "header" /\ HeaderPart.c = Header
  BY Zenon DEF HeaderPart, Part
<1>2. EntriesPart.what = "entries" /\ EntriesPart.c = Entries
  BY Zenon DEF EntriesPart, Part
<1>3. TableOf(disk, Header) = Entries
  BY <1>2, FoundParts, Headers, WholeTable, Zenon
<1>4. /\ DOMAIN Entries = {1, 2} /\ Entries[1].type = KERNEL_ESP /\ Entries[2].type = KERNEL_LINUX
  BY GuidTypes DEF Entries
<1> DEFINE hits(t) == {k \in DOMAIN Entries : Entries[k].type = t}
           at(t) == CHOOSE k \in hits(t) : \A j \in hits(t) : k <= j
<1>5. \A t : FindPartition(disk, t) = IF hits(t) = {} THEN Nothing ELSE Entries[at(t)]
  <2> SUFFICES ASSUME NEW t
               PROVE  FindPartition(disk, t) = IF hits(t) = {} THEN Nothing ELSE Entries[at(t)]
    BY Zenon
  <2> DEFINE table == IF PartAt(disk, GPT_HEADER_LBA).what = "header"
                      THEN TableOf(disk, PartAt(disk, GPT_HEADER_LBA).c) ELSE <<>>
             found == {k \in DOMAIN table : table[k].type = t}
  <2>1. table = Entries
    BY <1>1, <1>3, FoundParts, Zenon
  <2>2. FindPartition(disk, t)
          = IF found = {} THEN Nothing ELSE table[CHOOSE k \in found : \A j \in found : k <= j]
    BY Zenon DEF FindPartition, FirstOf
  <2> HIDE DEF table
  <2> QED BY <2>1, <2>2, Zenon
<1>6. hits(KERNEL_ESP) = {1} /\ hits(KERNEL_LINUX) = {2}
  BY <1>4, GuidTypes, Zenon
<1>7. \A n \in {1, 2} : (CHOOSE k \in {n} : \A j \in {n} : k <= j) = n
  OBVIOUS
<1>8. at(KERNEL_ESP) = 1 /\ at(KERNEL_LINUX) = 2
  BY <1>6, <1>7, Zenon
<1> QED BY <1>5, <1>6, <1>8

LEMMA HeadersOnDisk == ASSUME GceInv PROVE HeadersValid
<1> SUFFICES ASSUME Finished PROVE HeadersValid
  BY Zenon DEF HeadersValid
<1>1. PartAt(disk, GPT_HEADER_LBA).c = Header /\ PartAt(disk, TOTAL_SECTORS - 1).c = Backup(Header)
  BY FoundParts DEF HeaderPart, BackupPart, Part
<1>2. Tell = (TOTAL_SECTORS - 1 + 1) * SECTOR_SIZE
  <2>1. Tell = BackupPart.at + BackupPart.len
    <3>1. DOMAIN disk = 1 .. 7 /\ Len(disk) = 7 /\ disk[7] = BackupPart
      BY DiskParts, Zenon
    <3>2. disk # <<>>
      BY <3>1
    <3> QED BY <3>1, <3>2, Zenon DEF Tell
  <2>2. BackupPart.at + BackupPart.len = (TOTAL_SECTORS - 1) * SECTOR_SIZE + SECTOR_SIZE
    BY Zenon DEF BackupPart, Part
  <2> QED BY <2>1, <2>2, Sizes, GceAssumption
<1>3. /\ ESP_START_LBA <= ESP_END_LBA /\ ESP_END_LBA < ROOT_START_LBA
      /\ ROOT_START_LBA <= ROOT_END_LBA /\ ESP_START_LBA \in Nat /\ ESP_END_LBA \in Int
      /\ ROOT_START_LBA \in Nat /\ ROOT_END_LBA \in Nat
  BY Layout, DiskParts, Sizes DEF GceInv, SizeInv, ROOT_START_LBA, ESP_END_LBA
<1>4. /\ Entries[1].start = ESP_START_LBA /\ Entries[1].end = ESP_END_LBA
      /\ Entries[2].start = ROOT_START_LBA /\ Entries[2].end = ROOT_END_LBA
      /\ DOMAIN Entries = {1, 2} /\ Len(Entries) = 2
  BY DEF Entries
<1>5. /\ \A k \in DOMAIN Entries : /\ ESP_START_LBA <= Entries[k].start
                                   /\ Entries[k].start <= Entries[k].end
                                   /\ Entries[k].end <= ROOT_END_LBA
      /\ \A k \in 1 .. Len(Entries) - 1 : Entries[k].end < Entries[k + 1].start
  BY <1>3, <1>4
<1> HIDE DEF Finished
<1> DEFINE p == PartAt(disk, GPT_HEADER_LBA).c
           b == PartAt(disk, TOTAL_SECTORS - 1).c
<1>6. /\ p.first = ESP_START_LBA /\ p.last = ROOT_END_LBA /\ p.entries_crc = Entries
      /\ b.entries_crc = Entries /\ p.my = GPT_HEADER_LBA /\ b.my = TOTAL_SECTORS - 1
      /\ p.alternate = TOTAL_SECTORS - 1 /\ b.alternate = GPT_HEADER_LBA
      /\ p.crc = <<[p EXCEPT !.crc = <<>>]>> /\ b.crc = <<[b EXCEPT !.crc = <<>>]>>
  BY <1>1, Headers, Zenon
<1> HIDE DEF p, b
<1>7. /\ \A h \in {p, b} : h.crc = <<[h EXCEPT !.crc = <<>>]>>
      /\ p.my = GPT_HEADER_LBA /\ b.my = p.alternate /\ b.alternate = p.my
      /\ Tell = (b.my + 1) * SECTOR_SIZE
      /\ b.entries_crc = p.entries_crc
      /\ \A k \in DOMAIN p.entries_crc :
            /\ p.first <= p.entries_crc[k].start /\ p.entries_crc[k].start <= p.entries_crc[k].end
            /\ p.entries_crc[k].end <= p.last
      /\ \A k \in 1 .. Len(p.entries_crc) - 1 : p.entries_crc[k].end < p.entries_crc[k + 1].start
  BY <1>2, <1>5, <1>6, Zenon
<1> QED BY <1>7, Zenon DEF HeadersValid, p, b

LEMMA BackupOnDisk == ASSUME GceInv PROVE BackupStandsAlone
<1> SUFFICES ASSUME Finished PROVE BackupStandsAlone
  BY Zenon DEF BackupStandsAlone
<1>1. PartAt(Left, TOTAL_SECTORS - 1).c = Backup(Header)
  BY FoundParts DEF BackupPart, Part
<1>2. BackupEntriesPart.what = "entries" /\ BackupEntriesPart.c = Entries
  BY Zenon DEF BackupEntriesPart, Part
<1>3. TableOf(Left, Backup(Header)) = Entries
  BY <1>2, FoundParts, Headers, WholeTable, Zenon
<1>4. Backup(Header).entries_lba > Backup(Header).last
  <2>1. backup_entries_lba = ROOT_END_LBA + 1 /\ ROOT_END_LBA \in Nat
    BY Layout, Zenon DEF GceInv, SizeInv
  <2>2. backup_entries_lba > ROOT_END_LBA
    BY <2>1
  <2> QED BY <2>2, Headers, Zenon
<1> QED BY <1>1, <1>3, <1>4, Headers, Zenon DEF BackupStandsAlone, Left

\* make_gpt and the writes of main: whatever the sizes of the partition and of
\* the input files, both headers of a finished disk are valid and each of them
\* leads to a complete table.
THEOREM GceTablesSound == Spec => []TablesSound
<1>1. GceInv => TablesSound
  BY HeadersOnDisk, BackupOnDisk, Zenon DEF TablesSound
<1> QED BY <1>1, GceAlways, PTL

LEMMA RootOnDisk == ASSUME GceInv PROVE RootReadBack
<1> SUFFICES ASSUME Finished PROVE RootReadBack
  BY Zenon DEF RootReadBack
<1> DEFINE r == FindPartition(disk, KERNEL_LINUX)
           e == FindPartition(disk, KERNEL_ESP)
<1>1. /\ r.start = ROOT_START_LBA /\ r.end = ROOT_END_LBA
      /\ e.start = ESP_START_LBA /\ e.end = ESP_END_LBA
  BY FoundPartitions DEF Entries
<1> HIDE DEF r, e
<1>2. Nothing \notin {r, e}
  <2>1. Nothing.start = -1
    BY Zenon DEF Nothing
  <2>2. ROOT_START_LBA # -1 /\ ESP_START_LBA # -1
    BY Layout DEF GceInv, SizeInv
  <2> QED BY <1>1, <2>1, <2>2, Zenon
<1>3. /\ PartAt(disk, r.start).what = "root"
      /\ PartAt(disk, r.start).len = (r.end - r.start + 1) * SECTOR_SIZE
      /\ PartAt(disk, r.start).c = Min2(input.root, PartAt(disk, r.start).len)
  <2>1. PartAt(disk, r.start) = RootPart
    BY <1>1, FoundParts, Zenon
  <2> QED BY <1>1, <2>1 DEF RootPart, Part, root_size
<1>4. /\ PartAt(disk, e.start).what = "esp"
      /\ PartAt(disk, e.start).len = (e.end - e.start + 1) * SECTOR_SIZE
  <2>1. PartAt(disk, e.start) = EspPart
    BY <1>1, FoundParts, Zenon
  <2>2. ESP_END_LBA - ESP_START_LBA + 1 = ESP_SECTORS
    BY Layout, Sizes DEF GceInv, SizeInv, ESP_END_LBA
  <2> QED BY <1>1, <2>1, <2>2, DiskParts DEF EspPart, Part, EspBytes
<1> QED BY <1>2, <1>3, <1>4, Zenon DEF RootReadBack, r, e

\* gpt.zig on what make_gce_disk.py wrote: whatever the sizes, the kernel finds
\* both partitions of a finished disk, and the root partition begins with the
\* image the script was given.
THEOREM GceRootReadBack == Spec => []RootReadBack
<1>1. GceInv => RootReadBack
  BY RootOnDisk, Zenon
<1> QED BY <1>1, GceAlways, PTL

---------------------------------------------------------------------------
(* The file allocation table *)

DirNames == {"root", "efi", "bootdir", "zigix"}
FatEntries == fat_size * PerSector

\* What the entry of a cluster holds.
FatVal(c) == IF c = 0 THEN MEDIA
             ELSE IF c < 6 \/ c = 5 + BootClusters \/ c = 5 + BootClusters + KernelClusters THEN END
             ELSE c + 1

\* Both copies of a table hold the same entries, for the clusters below n.
Holds(table, n) ==
    /\ DOMAIN table = (0 .. n - 1) \cup {FatEntries + c : c \in 0 .. n - 1}
    /\ \A c \in 0 .. n - 1 : table[c] = FatVal(c) /\ table[FatEntries + c] = FatVal(c)

\* That is so as long as the clusters given out exist.
TableInv ==
    /\ pc \in {"fat_size", "dirs"} => fat = <<>>
    /\ pc \in {"boot", "kernel"} \cup Writing /\ next_cluster - 2 <= data_clusters =>
          Holds(fat, next_cluster)

\* The boot sector, and where chains begin.
FirstInv ==
    /\ pc \in {"dirs", "boot", "kernel"} \cup Writing =>
          bpb = [reserved |-> RESERVED, num_fats |-> num_fats, fat_size_32 |-> fat_size,
                 root_cluster |-> 2]
    /\ pc \in {"boot", "kernel"} \cup Writing =>
          /\ DOMAIN first = DirNames \cup (IF pc = "boot" /\ chunk = 0 THEN {} ELSE {"boot"})
                                     \cup (IF pc = "boot" \/ (pc = "kernel" /\ chunk = 0) THEN {}
                                           ELSE {"kernel"})
          /\ first["root"] = 2 /\ first["efi"] = 3 /\ first["bootdir"] = 4 /\ first["zigix"] = 5
          /\ "boot" \in DOMAIN first => first["boot"] = 6
          /\ "kernel" \in DOMAIN first => first["kernel"] = 6 + BootClusters

LEMMA Quarter == PerSector \in Nat \ {0} /\ SECTOR_SIZE = 4 * PerSector
BY GceAssumption, Sizes DEF PerSector

\* A FAT has an entry for every cluster.
LEMMA FatRoom ==
    ASSUME GceInv, pc # "fat_size"
    PROVE  FatEntries \in Nat /\ data_clusters \in Int /\ data_clusters + 2 <= FatEntries
<1>1. fat_size \in Nat /\ data_clusters \in Int /\ (data_clusters + 2) * 4 <= fat_size * SECTOR_SIZE
  BY Sizes DEF GceInv, SizeInv, data_clusters, Clusters, num_fats
<1>2. FatEntries \in Nat
  BY <1>1, Quarter DEF FatEntries
<1>3. fat_size * SECTOR_SIZE = 4 * FatEntries
  <2> DEFINE p == PerSector
  <2>1. p \in Nat /\ SECTOR_SIZE = 4 * p
    BY Quarter, Zenon
  <2> HIDE DEF p
  <2>2. fat_size * (4 * p) = 4 * (fat_size * p)
    BY <1>1, <2>1
  <2> QED BY <2>1, <2>2, Zenon DEF FatEntries, p
<1> HIDE DEF FatEntries, data_clusters
<1> QED BY <1>1, <1>2, <1>3

\* set_fat_entry on a cluster that both copies have an entry for.
LEMMA SetEntry ==
    ASSUME fat_size \in Nat, FatEntries \in Nat, NEW f, NEW c \in 0 .. FatEntries - 1, NEW v
    PROVE  /\ set_fat_entry(f, c, v).fat = Put(f.fat, {c, FatEntries + c}, v)
           /\ set_fat_entry(f, c, v).data = Put(f.data, {}, "fat entry")
<1> DEFINE hits == {Slot(copy, c) : copy \in 0 .. num_fats - 1}
<1>1. 0 .. num_fats - 1 = {0, 1}
  BY DEF num_fats
<1>2. Slot(0, c) = c /\ Slot(1, c) = FatEntries + c
  BY Quarter DEF Slot, FatEntries
<1>3. hits = {c, FatEntries + c}
  BY <1>1, <1>2, Zenon
<1>4. Slots = FatEntries + FatEntries
  BY Quarter DEF Slots, FatEntries, num_fats
<1> HIDE DEF hits, FatEntries
<1>5. {s \in hits : s < Slots} = {c, FatEntries + c} /\ {s \in hits : s >= Slots} = {}
  BY <1>3, <1>4
<1>6. {2 + (s - Slots) \div PerSector : s \in {s \in hits : s >= Slots}} = {}
  BY <1>5, Zenon
<1> QED BY <1>5, <1>6 DEF set_fat_entry, hits

\* One more entry.
LEMMA NextEntry ==
    ASSUME fat_size \in Nat, FatEntries \in Nat, NEW f, NEW n \in 0 .. FatEntries - 1,
           Holds(f.fat, n), NEW v, v = FatVal(n)
    PROVE  Holds(set_fat_entry(f, n, v).fat, n + 1)
<1> DEFINE old == f.fat
           t == set_fat_entry(f, n, v).fat
<1>1. t = Put(old, {n, FatEntries + n}, v)
  BY SetEntry, Zenon
<1> HIDE DEF t, old, FatEntries, FatVal
<1>2. DOMAIN t = {n, FatEntries + n} \cup DOMAIN old
  BY <1>1, Zenon DEF Put
<1>3. \A x \in DOMAIN t : t[x] = IF x \in {n, FatEntries + n} THEN v ELSE old[x]
  BY <1>1, <1>2, Zenon DEF Put
<1>4. /\ DOMAIN old = (0 .. n - 1) \cup {FatEntries + c : c \in 0 .. n - 1}
      /\ \A c \in 0 .. n - 1 : old[c] = FatVal(c) /\ old[FatEntries + c] = FatVal(c)
  BY Zenon DEF Holds, old
<1>5. DOMAIN t = (0 .. n) \cup {FatEntries + c : c \in 0 .. n}
  <2>1. 0 .. n = (0 .. n - 1) \cup {n}
    OBVIOUS
  <2>2. {FatEntries + c : c \in 0 .. n} = {FatEntries + c : c \in 0 .. n - 1} \cup {FatEntries + n}
    BY <2>1, Zenon
  <2> QED BY <1>2, <1>4, <2>1, <2>2, Zenon
<1>6. ASSUME NEW c \in 0 .. n PROVE t[c] = FatVal(c) /\ t[FatEntries + c] = FatVal(c)
  <2>1. c \in DOMAIN t /\ FatEntries + c \in DOMAIN t
    BY <1>5, Zenon
  <2>2. CASE c = n
    BY <1>3, <2>1, <2>2
  <2>3. CASE c # n
    <3>1. c \in 0 .. n - 1 /\ c \notin {n, FatEntries + n} /\ FatEntries + c \notin {n, FatEntries + n}
      BY <2>3
    <3> QED BY <1>3, <1>4, <2>1, <3>1
  <2> QED BY <2>2, <2>3, Zenon
<1>7. n + 1 - 1 = n
  OBVIOUS
<1> QED BY <1>5, <1>6, <1>7 DEF Holds, t

\* Sizes that steps leave alone.
LEMMA FatKeeps ==
    ASSUME UNCHANGED <<ESP_SECTORS, fat_size, input>>
    PROVE  /\ UNCHANGED <<FatEntries, data_clusters, BootClusters, KernelClusters>>
           /\ \A t, n : Holds(t, n)' <=> Holds(t, n)
BY DEF FatEntries, data_clusters, Clusters, BootClusters, KernelClusters, Holds, FatVal

LEMMA ClustersPositive ==
    ASSUME GceInv
    PROVE  BootClusters \in Nat \ {0} /\ KernelClusters \in Nat \ {0}
BY InputNat, ClusterCount, Zenon DEF GceInv, BootClusters, KernelClusters

LEMMA DirsTable == ASSUME GceInv, GceInv', TableInv, AllocDirs PROVE TableInv'
<1>1. /\ pc = "dirs" /\ pc' = "boot" /\ next_cluster' = 6 /\ fat = <<>>
      /\ UNCHANGED <<ESP_SECTORS, fat_size, input>>
  BY Zenon DEF AllocDirs, TableInv
<1>2. FatEntries \in Nat /\ data_clusters \in Int /\ data_clusters + 2 <= FatEntries /\ fat_size \in Nat
  BY <1>1, FatRoom, Zenon DEF GceInv, SizeInv
<1> SUFFICES ASSUME next_cluster' - 2 <= data_clusters PROVE Holds(fat', 6)
  BY <1>1, FatKeeps, Zenon DEF TableInv
<1>3. \A k \in 0 .. 5 : k \in 0 .. FatEntries - 1
  BY <1>1, <1>2
<1>4. BootClusters \in Nat \ {0} /\ KernelClusters \in Nat \ {0}
  BY ClustersPositive, Zenon
<1>5. FatVal(0) = MEDIA /\ \A k \in 1 .. 5 : FatVal(k) = END
  BY <1>4 DEF FatVal
<1> DEFINE f0 == [fat |-> fat, data |-> data]
           f1 == set_fat_entry(f0, 0, MEDIA)
           f2 == set_fat_entry(f1, 1, END)
           f3 == set_fat_entry(f2, 2, END)
           f4 == set_fat_entry(f3, 3, END)
           f5 == set_fat_entry(f4, 4, END)
           f6 == set_fat_entry(f5, 5, END)
<1>6. fat' = f6.fat
  BY Zenon DEF AllocDirs, ReservedEntries
<1>7. Holds(f0.fat, 0)
  BY <1>1, <1>2 DEF Holds
<1> HIDE DEF f0, f1, f2, f3, f4, f5, f6, FatVal, FatEntries, Holds
<1>8. Holds(f1.fat, 0 + 1)
  BY <1>2, <1>3, <1>5, <1>7, NextEntry DEF f1
<1>9. Holds(f2.fat, 1 + 1)
  BY <1>2, <1>3, <1>5, <1>8, NextEntry DEF f2
<1>10. Holds(f3.fat, 2 + 1)
  BY <1>2, <1>3, <1>5, <1>9, NextEntry DEF f3
<1>11. Holds(f4.fat, 3 + 1)
  BY <1>2, <1>3, <1>5, <1>10, NextEntry DEF f4
<1>12. Holds(f5.fat, 4 + 1)
  BY <1>2, <1>3, <1>5, <1>11, NextEntry DEF f5
<1>13. Holds(f6.fat, 5 + 1)
  BY <1>2, <1>3, <1>5, <1>12, NextEntry DEF f6
<1> QED BY <1>6, <1>13

\* The entry that a turn of write_file_to_clusters writes.
LEMMA LinkVal ==
    ASSUME GceInv
    PROVE  /\ pc = "boot" => Link(chunk, BootClusters, next_cluster) = FatVal(next_cluster)
           /\ pc = "kernel" => Link(chunk, KernelClusters, next_cluster) = FatVal(next_cluster)
<1>1. BootClusters \in Nat \ {0} /\ KernelClusters \in Nat \ {0} /\ chunk \in Nat
  BY ClustersPositive, Zenon DEF GceInv, CountInv
<1>2. ASSUME pc = "boot" PROVE Link(chunk, BootClusters, next_cluster) = FatVal(next_cluster)
  <2>1. chunk < BootClusters /\ next_cluster = 6 + chunk
    BY <1>2, Zenon DEF GceInv, CountInv
  <2> QED BY <1>1, <2>1 DEF Link, FatVal
<1>3. ASSUME pc = "kernel" PROVE Link(chunk, KernelClusters, next_cluster) = FatVal(next_cluster)
  <2>1. chunk < KernelClusters /\ next_cluster = 6 + BootClusters + chunk
    BY <1>3, Zenon DEF GceInv, CountInv
  <2> QED BY <1>1, <2>1 DEF Link, FatVal
<1> QED BY <1>2, <1>3, Zenon

LEMMA ClusterTable ==
    ASSUME GceInv, GceInv', TableInv,
           WriteCluster("boot", "kernel") \/ WriteCluster("kernel", "entries")
    PROVE  TableInv'
<1> DEFINE file == pc
           c == next_cluster
           n == num_clusters(input[file])
           off == cluster_offset(c)
           some == chunk * cluster_size < input[file]
           piece == Chunk(file, chunk)
           d == IF some /\ off <= esp_len THEN Put(data, {c}, piece) ELSE data
           f == [fat |-> fat, data |-> d]
           v == Link(chunk, n, c)
<1>1. /\ pc \in {"boot", "kernel"} /\ next_cluster' = c + 1
      /\ UNCHANGED <<ESP_SECTORS, fat_size, input>>
      /\ pc' \in {"boot", "kernel"} \cup Writing
      /\ fat' = set_fat_entry(f, c, v).fat
  BY Zenon DEF WriteCluster, Writing
<1>2. /\ FatEntries \in Nat /\ data_clusters \in Int /\ data_clusters + 2 <= FatEntries
      /\ fat_size \in Nat /\ c \in Nat
  <2>1. pc # "fat_size"
    BY <1>1, Zenon
  <2>2. FatEntries \in Nat /\ data_clusters \in Int /\ data_clusters + 2 <= FatEntries
    BY <2>1, FatRoom, Zenon
  <2>3. fat_size \in Nat \ {0} /\ next_cluster \in Nat \ {0, 1}
    BY Zenon DEF GceInv, SizeInv, CountInv
  <2> QED BY <2>2, <2>3
<1> SUFFICES ASSUME next_cluster' - 2 <= data_clusters PROVE Holds(fat', c + 1)
  BY <1>1, FatKeeps DEF TableInv, Writing
<1>3. c \in 0 .. FatEntries - 1 /\ c - 2 <= data_clusters
  BY <1>1, <1>2
<1>4. Holds(f.fat, c)
  BY <1>1, <1>3, Zenon DEF TableInv
<1>5. v = FatVal(c)
  BY <1>1, LinkVal DEF BootClusters, KernelClusters
<1> HIDE DEF c, n, f, v, FatVal, FatEntries, Holds
<1>6. Holds(set_fat_entry(f, c, v).fat, c + 1)
  BY <1>2, <1>3, <1>4, <1>5, NextEntry
<1> QED BY <1>1, <1>6, Zenon

LEMMA TableStep == ASSUME GceInv, GceInv', TableInv, [Next]_vars PROVE TableInv'
<1>1. CASE GrowFat \/ WriteBpb
  BY <1>1, Zenon DEF GrowFat, WriteBpb, TableInv, Writing
<1>2. CASE AllocDirs
  BY <1>2, DirsTable, Zenon
<1>3. CASE WriteCluster("boot", "kernel") \/ WriteCluster("kernel", "entries")
  BY <1>3, ClusterTable
<1>4. CASE WriteDirs \/ WriteHead \/ WriteEsp \/ WriteRoot \/ WriteBackup \/ UNCHANGED vars
  <2>1. /\ UNCHANGED <<ESP_SECTORS, fat_size, input, fat, next_cluster>>
        /\ pc' = pc \/ (pc \in Writing /\ pc' \in Writing \cup {"failed"})
    BY <1>4, Zenon DEF WriteDirs, WriteHead, WriteEsp, WriteRoot, WriteBackup, WritePart, Same, vars, Writing
  <2> HIDE DEF Holds
  <2> QED BY <2>1, FatKeeps DEF TableInv, Writing
<1> QED BY <1>1, <1>2, <1>3, <1>4, Zenon DEF Next, Ended

\* The names that have a first cluster.
LEMMA FirstStep == ASSUME GceInv, GceInv', FirstInv, [Next]_vars PROVE FirstInv'
<1>1. CASE GrowFat \/ WriteBpb
  BY <1>1, Zenon DEF GrowFat, WriteBpb, FirstInv, Writing
<1>2. CASE AllocDirs
  <2>1. /\ pc = "dirs" /\ pc' = "boot" /\ chunk = 0 /\ UNCHANGED <<fat_size, bpb, chunk>>
        /\ first' = [root |-> 2, efi |-> 3, bootdir |-> 4, zigix |-> 5]
    BY <1>2, Zenon DEF AllocDirs, GceInv, CountInv
  <2>2. DOMAIN first' = DirNames
    BY <2>1, Zenon DEF DirNames
  <2> QED BY <2>1, <2>2 DEF FirstInv, DirNames
<1>3. CASE WriteCluster("boot", "kernel")
  <2>1. /\ pc = "boot" /\ UNCHANGED <<fat_size, bpb, input>> /\ next_cluster = 6 + chunk
        /\ chunk \in Nat /\ first' = IF chunk = 0 THEN Put(first, {"boot"}, next_cluster) ELSE first
        /\ (pc' = "boot" /\ chunk' = chunk + 1) \/ (pc' = "kernel" /\ chunk' = 0)
    BY <1>3, Zenon DEF WriteCluster, GceInv, CountInv
  <2>2. /\ DOMAIN first' = DirNames \cup {"boot"} /\ first'["boot"] = 6
        /\ \A d \in DirNames : first'[d] = first[d]
    BY <2>1 DEF FirstInv, Put, DirNames
  <2> QED BY <2>1, <2>2 DEF FirstInv, DirNames
<1>4. CASE WriteCluster("kernel", "entries")
  <2>1. /\ pc = "kernel" /\ UNCHANGED <<fat_size, bpb, input>>
        /\ next_cluster = 6 + BootClusters + chunk
        /\ chunk \in Nat /\ first' = IF chunk = 0 THEN Put(first, {"kernel"}, next_cluster) ELSE first
        /\ (pc' = "kernel" /\ chunk' = chunk + 1) \/ (pc' = "entries" /\ chunk' = 0)
    BY <1>4, Zenon DEF WriteCluster, GceInv, CountInv
  <2>2. BootClusters' = BootClusters /\ BootClusters \in Nat
    BY <2>1, ClustersPositive, Zenon DEF BootClusters
  <2>3. /\ DOMAIN first' = DirNames \cup {"boot", "kernel"} /\ first'["kernel"] = 6 + BootClusters
        /\ \A d \in DirNames \cup {"boot"} : first'[d] = first[d]
    BY <2>1, <2>2 DEF FirstInv, Put, DirNames
  <2> QED BY <2>1, <2>2, <2>3 DEF FirstInv, DirNames, Writing
<1>5. CASE WriteDirs \/ WriteHead \/ WriteEsp \/ WriteRoot \/ WriteBackup \/ UNCHANGED vars
  <2>1. /\ UNCHANGED <<fat_size, input, bpb, first, chunk>>
        /\ pc' = pc \/ (pc \in Writing /\ pc' \in Writing \cup {"failed"})
    BY <1>5, Zenon DEF WriteDirs, WriteHead, WriteEsp, WriteRoot, WriteBackup, WritePart, Same, vars, Writing
  <2>2. BootClusters' = BootClusters
    BY <2>1, Zenon DEF BootClusters
  <2> QED BY <2>1, <2>2 DEF FirstInv, Writing
<1> QED BY <1>1, <1>2, <1>3, <1>4, <1>5 DEF Next, Ended

---------------------------------------------------------------------------
(* Reading the table *)

LEMMA DivMod ==
    ASSUME NEW a \in Nat, NEW b \in Nat \ {0}
    PROVE  a \div b \in Nat /\ a % b \in Nat /\ a = b * (a \div b) + (a % b)
OBVIOUS

\* Where the kernel looks for an entry.
LEMMA SlotOf ==
    ASSUME NEW c \in Nat
    PROVE  /\ (c * 4) \div SECTOR_SIZE \in Nat
           /\ ((c * 4) \div SECTOR_SIZE) * PerSector + ((c * 4) % SECTOR_SIZE) \div 4 = c
<1> DEFINE p == PerSector
           q == (c * 4) \div SECTOR_SIZE
           r == (c * 4) % SECTOR_SIZE
<1>1. p \in Nat \ {0} /\ SECTOR_SIZE = 4 * p
  BY Quarter, Zenon
<1>2. q \in Nat /\ r \in Nat /\ c * 4 = SECTOR_SIZE * q + r
  <2>1. c * 4 \in Nat /\ SECTOR_SIZE \in Nat \ {0}
    BY Sizes
  <2> QED BY <2>1, DivMod
<1> HIDE DEF p, q, r
<1>3. SECTOR_SIZE * q = 4 * (q * p) /\ q * p \in Nat
  BY <1>1, <1>2
<1>4. r = 4 * (c - q * p)
  <2> DEFINE m == q * p
  <2>1. m \in Int /\ c * 4 = 4 * m + r
    BY <1>2, <1>3
  <2> HIDE DEF m
  <2>2. r = 4 * (c - m)
    BY <1>2, <2>1
  <2> QED BY <2>2 DEF m
<1>5. r \div 4 = c - q * p
  BY <1>2, <1>3, <1>4
<1>6. q * p + r \div 4 = c
  BY <1>3, <1>5
<1> QED BY <1>2, <1>6, Zenon DEF p, q, r

\* What the kernel takes from the boot sector.
LEMMA Mounted ==
    ASSUME GceInv, FirstInv, Finished
    PROVE  /\ Mount.fat_start = ESP_START_LBA + RESERVED /\ Mount.root = 2
           /\ Mount.data_start = ESP_START_LBA + RESERVED + 2 * fat_size
           /\ bpb.fat_size_32 = fat_size
<1>1. bpb.reserved = RESERVED /\ bpb.root_cluster = 2 /\ bpb.num_fats = 2 /\ bpb.fat_size_32 = fat_size
  BY DEF FirstInv, Finished, Writing, num_fats
<1>2. FindPartition(disk, KERNEL_ESP).start = ESP_START_LBA
  BY FoundPartitions DEF Entries
<1> QED BY <1>1, <1>2, Zenon DEF Mount

\* Both copies, entry by entry.
LEMMA ReadEntry ==
    ASSUME GceInv, FirstInv, Finished, NEW c \in Nat
    PROVE  /\ FirstFat(c) = IF c \in DOMAIN fat THEN fat[c] ELSE 0
           /\ SecondFat(c) = IF FatEntries + c \in DOMAIN fat THEN fat[FatEntries + c] ELSE 0
<1> DEFINE p == PerSector
           q == (c * 4) \div SECTOR_SIZE
           r == ((c * 4) % SECTOR_SIZE) \div 4
           e == ESP_START_LBA
<1>1. p \in Nat /\ q \in Nat /\ r \in Int /\ q * p + r = c
  <2>1. (c * 4) % SECTOR_SIZE \in Nat
    BY Sizes, DivMod
  <2>2. r \in Int
    BY <2>1, DivMod
  <2> QED BY <2>2, SlotOf, Quarter, Zenon
<1>2. e \in Nat /\ RESERVED \in Nat /\ fat_size \in Nat
  BY Layout, Sizes, Zenon DEF GceInv, SizeInv
<1>3. Mount.fat_start = e + RESERVED /\ bpb.fat_size_32 = fat_size
  BY Mounted, Zenon
<1>4. FatEntries = fat_size * p
  BY Zenon DEF FatEntries
<1> HIDE DEF p, q, r, e
<1>5. (((e + RESERVED) + q) - e - RESERVED) * p + r = c
  BY <1>1, <1>2
<1>6. (((e + RESERVED + fat_size) + q) - e - RESERVED) * p + r = FatEntries + c
  BY <1>1, <1>2, <1>4
<1>7. FirstFat(c) = LET s == (((e + RESERVED) + q) - e - RESERVED) * p + r
                    IN  IF s \in DOMAIN fat THEN fat[s] ELSE 0
  BY <1>3, Zenon DEF FirstFat, FatEntry, EspSector, p, q, r, e
<1>8. SecondFat(c) = LET s == (((e + RESERVED + fat_size) + q) - e - RESERVED) * p + r
                     IN  IF s \in DOMAIN fat THEN fat[s] ELSE 0
  BY <1>3, Zenon DEF SecondFat, FatEntry, EspSector, p, q, r, e
<1> QED BY <1>5, <1>6, <1>7, <1>8, Zenon

\* A finished disk has all its clusters.
LEMMA DoneFits ==
    ASSUME GceInv, GrownInv, Finished
    PROVE  next_cluster = 6 + BootClusters + KernelClusters /\ next_cluster - 2 <= data_clusters
<1>1. esp_len = EspBytes /\ esp_len \in Nat
  BY Zenon DEF GceInv, LenInv, Finished
<1>2. data_clusters \in Int /\ next_cluster \in Int
  BY Sizes DEF GceInv, SizeInv, CountInv, data_clusters, Clusters, num_fats
<1>3. next_cluster - 2 <= data_clusters
  BY <1>1, <1>2 DEF GrownInv, Writing, Finished
<1> QED BY <1>3, Zenon DEF GceInv, CountInv, Writing, Finished

FatInv == GceInv /\ GrownInv /\ TableInv /\ FirstInv

\* The table of a finished disk.
LEMMA DoneTable ==
    ASSUME FatInv, Finished
    PROVE  /\ FatEntries \in Nat /\ next_cluster \in Nat /\ next_cluster <= FatEntries
           /\ \A c \in 0 .. FatEntries - 1 :
                 /\ FirstFat(c) = IF c < next_cluster THEN FatVal(c) ELSE 0
                 /\ SecondFat(c) = FirstFat(c)
<1>1. /\ FatEntries \in Nat /\ data_clusters \in Int /\ next_cluster \in Nat
      /\ data_clusters + 2 <= FatEntries /\ next_cluster - 2 <= data_clusters
  BY FatRoom, DoneFits DEF FatInv, Finished, GceInv, CountInv
<1>2. Holds(fat, next_cluster)
  BY <1>1 DEF FatInv, TableInv, Finished, Writing
<1> HIDE DEF FatEntries, FatVal, data_clusters
<1>3. ASSUME NEW c \in 0 .. FatEntries - 1
      PROVE  /\ FirstFat(c) = IF c < next_cluster THEN FatVal(c) ELSE 0
             /\ SecondFat(c) = FirstFat(c)
  <2>1. /\ FirstFat(c) = IF c \in DOMAIN fat THEN fat[c] ELSE 0
        /\ SecondFat(c) = IF FatEntries + c \in DOMAIN fat THEN fat[FatEntries + c] ELSE 0
    BY ReadEntry DEF FatInv
  <2>2. c \in DOMAIN fat <=> c < next_cluster
    BY <1>1, <1>2 DEF Holds
  <2>3. FatEntries + c \in DOMAIN fat <=> c < next_cluster
    BY <1>1, <1>2 DEF Holds
  <2>4. c < next_cluster => fat[c] = FatVal(c) /\ fat[FatEntries + c] = FatVal(c)
    BY <1>1, <1>2 DEF Holds
  <2> QED BY <2>1, <2>2, <2>3, <2>4, Zenon
<1> QED BY <1>1, <1>3

LEMMA CopiesAgree == ASSUME FatInv PROVE FatCopiesAgree
<1> SUFFICES ASSUME Finished PROVE FatCopiesAgree
  BY Zenon DEF FatCopiesAgree
<1>1. next_cluster = 6 + BootClusters + KernelClusters /\ BootClusters \in Nat /\ KernelClusters \in Nat
  BY DoneFits, ClustersPositive, Zenon DEF FatInv
<1>2. 0 \in 0 .. FatEntries - 1 /\ 1 \in 0 .. FatEntries - 1 /\ 0 < next_cluster /\ 1 < next_cluster
  BY <1>1, DoneTable
<1>3. FatVal(0) = MEDIA /\ FatVal(1) = END
  BY DEF FatVal
<1>4. FirstFat(0) = MEDIA /\ FirstFat(1) = END
  BY <1>2, <1>3, DoneTable, Zenon
<1>5. \A c \in 0 .. fat_size * PerSector - 1 : FirstFat(c) = SecondFat(c)
  BY DoneTable, Zenon DEF FatEntries
<1> QED BY <1>4, <1>5, Zenon DEF FatCopiesAgree

\* A chain of consecutive clusters is walked from its first to its last.
LEMMA WalkChain ==
    ASSUME NEW n \in Nat, NEW c \in Nat \ {0}, NEW len \in Nat \ {0},
           \A i \in 0 .. len - 2 : nextCluster(c + i) = c + i + 1,
           nextCluster(c + len - 1) = NoCluster
    PROVE  Walk(n, c) = [i \in 1 .. Min2(n, len) |-> c + i - 1]
<1> DEFINE chain(k) == [i \in 1 .. Min2(k, len) |-> c + i - 1]
           Is(w) == w = [k \in 0 .. n |-> IF k = 0 THEN <<>> ELSE Follow(w[k - 1], c)]
           g == [k \in 0 .. n |-> chain(k)]
<1>1. chain(0) = <<>>
  BY DEF Min2
<1>2. ASSUME NEW k \in Nat PROVE Follow(chain(k), c) = chain(k + 1)
  <2>1. Min2(k, len) \in Nat /\ chain(k) \in Seq(Int) /\ Len(chain(k)) = Min2(k, len)
    BY DEF Min2
  <2>2. CASE k = 0
    <3>1. chain(k) = <<>> /\ Min2(k + 1, len) = 1
      BY <1>1, <2>2 DEF Min2
    <3>2. Follow(<<>>, c) = Append(<<>>, c)
      BY Zenon DEF Follow, NoCluster
    <3>3. chain(k + 1) = Append(<<>>, c)
      BY <3>1
    <3> QED BY <3>1, <3>2, <3>3
  <2>3. CASE k # 0 /\ k < len
    <3>1. Min2(k, len) = k /\ Min2(k + 1, len) = k + 1 /\ chain(k) # <<>>
      BY <2>1, <2>3 DEF Min2
    <3>2. chain(k)[Len(chain(k))] = c + (k - 1) /\ k - 1 \in 0 .. len - 2
      BY <2>1, <2>3, <3>1
    <3>3. nextCluster(chain(k)[Len(chain(k))]) = c + k /\ c + k # NoCluster
      <4>1. nextCluster(c + (k - 1)) = c + (k - 1) + 1
        BY <3>2, Zenon
      <4>2. c + (k - 1) + 1 = c + k /\ c + k # 0
        OBVIOUS
      <4> QED BY <3>2, <4>1, <4>2 DEF NoCluster
    <3>4. Follow(chain(k), c) = Append(chain(k), c + k)
      BY <3>1, <3>3, Zenon DEF Follow
    <3>5. Append(chain(k), c + k) = chain(k + 1)
      BY <2>1, <3>1
    <3> QED BY <3>4, <3>5, Zenon
  <2>4. CASE k >= len
    <3>1. Min2(k, len) = len /\ Min2(k + 1, len) = len /\ chain(k) # <<>>
      BY <2>1, <2>4 DEF Min2
    <3>2. chain(k)[Len(chain(k))] = c + len - 1
      BY <2>1, <3>1
    <3>3. Follow(chain(k), c) = chain(k)
      BY <3>1, <3>2, Zenon DEF Follow
    <3> QED BY <3>1, <3>3, Zenon
  <2> QED BY <2>2, <2>3, <2>4
<1> HIDE DEF chain
<1>3. Is(g)
  <2>1. ASSUME NEW k \in 0 .. n
        PROVE  g[k] = IF k = 0 THEN <<>> ELSE Follow(g[k - 1], c)
    <3>1. CASE k = 0
      BY <1>1, <3>1, Zenon
    <3>2. CASE k # 0
      <4>1. k - 1 \in Nat /\ k - 1 \in 0 .. n /\ k - 1 + 1 = k
        BY <3>2
      <4>2. Follow(chain(k - 1), c) = chain(k)
        BY <1>2, <4>1, Zenon
      <4> QED BY <3>2, <4>1, <4>2, Zenon
    <3> QED BY <3>1, <3>2
  <2>2. g = [k \in 0 .. n |-> g[k]]
    BY Zenon
  <2> HIDE DEF g
  <2>3. [k \in 0 .. n |-> g[k]] = [k \in 0 .. n |-> IF k = 0 THEN <<>> ELSE Follow(g[k - 1], c)]
    BY <2>1, Zenon
  <2> QED BY <2>2, <2>3
<1>4. ASSUME NEW w, Is(w) PROVE w[n] = chain(n)
  <2> DEFINE S == [k \in 0 .. n |-> {chain(k)}]
  <2>1. \A k \in 0 .. n : w[k] = IF k = 0 THEN <<>> ELSE Follow(w[k - 1], c)
    BY <1>4, Zenon
  <2>2. w[0] \in S[0]
    BY <1>1, <2>1
  <2>3. ASSUME NEW k \in 1 .. n, w[k - 1] \in S[k - 1] PROVE w[k] \in S[k]
    <3>1. k - 1 \in Nat /\ k - 1 \in 0 .. n /\ k - 1 + 1 = k /\ k \in 0 .. n /\ k # 0
      OBVIOUS
    <3>2. w[k - 1] = chain(k - 1)
      BY <2>3, <3>1, Zenon
    <3>3. w[k] = chain(k)
      BY <1>2, <2>1, <3>1, <3>2, Zenon
    <3> QED BY <3>1, <3>3, Zenon
  <2> HIDE DEF S
  <2>4. \A k \in 0 .. n : w[k] \in S[k]
    BY <2>2, <2>3, LoopInduction, Zenon
  <2>5. n \in 0 .. n
    OBVIOUS
  <2> QED BY <2>4, <2>5, Zenon DEF S
<1>5. Walk(n, c) = (CHOOSE w : Is(w))[n]
  BY Zenon DEF Walk
<1>6. Is(CHOOSE w : Is(w))
  <2> HIDE DEF Is, g
  <2> QED BY <1>3, Zenon
<1>7. Walk(n, c) = chain(n)
  <2> HIDE DEF Is
  <2> QED BY <1>4, <1>5, <1>6, Zenon
<1> QED BY <1>7, Zenon DEF chain

\* How many clusters a name has.
ChainLen(f) == IF f = "boot" THEN BootClusters ELSE IF f = "kernel" THEN KernelClusters ELSE 1

\* The chains of a finished disk are intervals.
LEMMA Chains ==
    ASSUME FatInv, Finished, NEW f \in DOMAIN first
    PROVE  /\ first[f] \in 2 .. next_cluster - 1 /\ ChainLen(f) \in Nat \ {0}
           /\ first[f] + ChainLen(f) <= next_cluster
           /\ \A i \in 0 .. ChainLen(f) - 2 : nextCluster(first[f] + i) = first[f] + i + 1
           /\ nextCluster(first[f] + ChainLen(f) - 1) = NoCluster
<1>1. next_cluster = 6 + BootClusters + KernelClusters /\ BootClusters \in Nat \ {0} /\ KernelClusters \in Nat \ {0}
  BY DoneFits, ClustersPositive, Zenon DEF FatInv
<1>2. /\ f \in DirNames \cup {"boot", "kernel"}
      /\ first["root"] = 2 /\ first["efi"] = 3 /\ first["bootdir"] = 4 /\ first["zigix"] = 5
      /\ (f = "boot" => first[f] = 6) /\ (f = "kernel" => first[f] = 6 + BootClusters)
  BY Zenon DEF FatInv, FirstInv, Finished, Writing
<1>3. \A c \in 2 .. next_cluster - 1 :
          nextCluster(c) = IF FatVal(c) = END THEN NoCluster ELSE c + 1
  <2> SUFFICES ASSUME NEW c \in 2 .. next_cluster - 1
               PROVE  nextCluster(c) = IF FatVal(c) = END THEN NoCluster ELSE c + 1
    BY Zenon
  <2>1. FirstFat(c) = FatVal(c)
    BY <1>1, DoneTable
  <2>2. FatVal(c) = END \/ FatVal(c) = c + 1
    BY DEF FatVal
  <2> QED BY <1>1, <2>1, <2>2 DEF nextCluster, END, NoCluster
<1>4. CASE f \in DirNames
  <2>1. ChainLen(f) = 1 /\ first[f] \in 2 .. 5
    BY <1>2, <1>4 DEF ChainLen, DirNames
  <2>2. FatVal(first[f]) = END
    BY <2>1 DEF FatVal
  <2> QED BY <1>1, <1>3, <2>1, <2>2
<1>5. CASE f = "boot"
  <2>1. ChainLen(f) = BootClusters /\ first[f] = 6
    BY <1>2, <1>5, Zenon DEF ChainLen
  <2>2. FatVal(5 + BootClusters) = END /\ \A i \in 0 .. BootClusters - 2 : FatVal(6 + i) = 6 + i + 1
    BY <1>1 DEF FatVal
  <2>3. nextCluster(5 + BootClusters) = NoCluster
    BY <1>1, <1>3, <2>2
  <2>4. ASSUME NEW i \in 0 .. BootClusters - 2 PROVE nextCluster(6 + i) = 6 + i + 1
    <3>1. 6 + i \in 2 .. next_cluster - 1 /\ FatVal(6 + i) # END
      BY <1>1, <2>2 DEF END
    <3> QED BY <1>3, <3>1, Zenon
  <2>5. 6 + BootClusters - 1 = 5 + BootClusters
    BY <1>1
  <2> QED BY <1>1, <2>1, <2>3, <2>4, <2>5
<1>6. CASE f = "kernel"
  <2> DEFINE a == 6 + BootClusters
  <2>1. ChainLen(f) = KernelClusters /\ first[f] = a
    BY <1>2, <1>6, Zenon DEF ChainLen
  <2>2. FatVal(a + KernelClusters - 1) = END /\ \A i \in 0 .. KernelClusters - 2 : FatVal(a + i) = a + i + 1
    BY <1>1 DEF FatVal
  <2>3. nextCluster(a + KernelClusters - 1) = NoCluster
    <3>1. a + KernelClusters - 1 \in 2 .. next_cluster - 1
      BY <1>1
    <3> HIDE DEF a
    <3> QED BY <1>3, <2>2, <3>1
  <2>4. ASSUME NEW i \in 0 .. KernelClusters - 2 PROVE nextCluster(a + i) = a + i + 1
    <3>1. a + i \in 2 .. next_cluster - 1 /\ a + i + 1 # END
      BY <1>1 DEF END
    <3> HIDE DEF a
    <3>2. FatVal(a + i) = a + i + 1
      BY <2>2, Zenon
    <3> QED BY <1>3, <3>1, <3>2
  <2> QED BY <1>1, <2>1, <2>3, <2>4
<1> QED BY <1>2, <1>4, <1>5, <1>6

LEMMA ApartChains == ASSUME FatInv PROVE ChainsApart
<1> SUFFICES ASSUME Finished PROVE ChainsApart
  BY Zenon DEF ChainsApart
<1> DEFINE chain(f) == Walk(ESP_SECTORS, first[f])
           set(f) == {chain(f)[k] : k \in DOMAIN chain(f)}
<1>1. /\ next_cluster = 6 + BootClusters + KernelClusters /\ BootClusters \in Nat \ {0}
      /\ KernelClusters \in Nat \ {0} /\ next_cluster - 2 <= data_clusters
      /\ data_clusters \in Int /\ data_clusters <= ESP_SECTORS /\ ESP_SECTORS \in Nat
      /\ FatEntries \in Nat /\ data_clusters + 2 <= FatEntries
  <2>1. fat_size \in Nat /\ ESP_SECTORS \in Nat /\ RESERVED \in Nat
    BY Sizes, Zenon DEF FatInv, GceInv, SizeInv
  <2>2. data_clusters \in Int /\ data_clusters <= ESP_SECTORS
    BY <2>1 DEF data_clusters, Clusters, num_fats
  <2> QED BY <2>1, <2>2, DoneFits, ClustersPositive, FatRoom DEF FatInv, Finished
<1>2. ASSUME NEW f \in DOMAIN first
      PROVE  set(f) = first[f] .. first[f] + ChainLen(f) - 1 /\ first[f] \in Nat /\ ChainLen(f) \in Nat
  <2>1. /\ first[f] \in Nat \ {0} /\ ChainLen(f) \in Nat \ {0} /\ ChainLen(f) <= ESP_SECTORS
    BY <1>1, Chains
  <2> DEFINE c == first[f]
             len == ChainLen(f)
  <2>2. /\ \A i \in 0 .. len - 2 : nextCluster(c + i) = c + i + 1
        /\ nextCluster(c + len - 1) = NoCluster /\ c \in Nat \ {0} /\ len \in Nat \ {0}
    BY <2>1, Chains, Zenon
  <2>3. Min2(ESP_SECTORS, len) = len
    BY <1>1, <2>1 DEF Min2
  <2> HIDE DEF c, len
  <2>4. Walk(ESP_SECTORS, c) = [i \in 1 .. Min2(ESP_SECTORS, len) |-> c + i - 1]
    <3>1. ESP_SECTORS \in Nat
      BY <1>1, Zenon
    <3> QED BY <2>2, <3>1, WalkChain, Zenon
  <2>5. chain(f) = [i \in 1 .. len |-> c + i - 1]
    BY <2>3, <2>4 DEF c
  <2> HIDE DEF chain
  <2>6. set(f) = {c + i - 1 : i \in 1 .. len}
    BY <2>5, Zenon
  <2>7. {c + i - 1 : i \in 1 .. len} = c .. c + len - 1
    <3>1. \A x \in c .. c + len - 1 : x - c + 1 \in 1 .. len /\ x = c + (x - c + 1) - 1
      BY <2>2
    <3> QED BY <2>2, <3>1
  <2> QED BY <2>2, <2>6, <2>7, Zenon DEF c, len
<1> HIDE DEF chain, set
<1>3. /\ DOMAIN first = DirNames \cup {"boot", "kernel"}
      /\ first["root"] = 2 /\ first["efi"] = 3 /\ first["bootdir"] = 4 /\ first["zigix"] = 5
      /\ first["boot"] = 6 /\ first["kernel"] = 6 + BootClusters
  BY Zenon DEF FatInv, FirstInv, Finished, Writing
<1>4. /\ set("root") = {2} /\ set("efi") = {3} /\ set("bootdir") = {4} /\ set("zigix") = {5}
      /\ set("boot") = 6 .. 5 + BootClusters
      /\ set("kernel") = 6 + BootClusters .. next_cluster - 1
  <2>1. /\ ChainLen("root") = 1 /\ ChainLen("efi") = 1 /\ ChainLen("bootdir") = 1
        /\ ChainLen("zigix") = 1 /\ ChainLen("boot") = BootClusters
        /\ ChainLen("kernel") = KernelClusters
    BY Zenon DEF ChainLen
  <2>2. {"root", "efi", "bootdir", "zigix", "boot", "kernel"} \subseteq DOMAIN first
    BY <1>3, Zenon DEF DirNames
  <2>3. /\ set("root") = 2 .. 2 + 1 - 1 /\ set("efi") = 3 .. 3 + 1 - 1
        /\ set("bootdir") = 4 .. 4 + 1 - 1 /\ set("zigix") = 5 .. 5 + 1 - 1
        /\ set("boot") = 6 .. 6 + BootClusters - 1
        /\ set("kernel") = 6 + BootClusters .. 6 + BootClusters + KernelClusters - 1
    BY <1>2, <1>3, <2>1, <2>2
  <2> HIDE DEF BootClusters, KernelClusters
  <2> QED BY <1>1, <2>3
<1>5. \A f, g \in DOMAIN first : f # g => set(f) \cap set(g) = {}
  <2> SUFFICES ASSUME NEW f \in DOMAIN first, NEW g \in DOMAIN first, f # g, NEW x,
                      x \in set(f), x \in set(g)
               PROVE  FALSE
    BY Zenon
  <2>1. /\ f \in {"root", "efi", "bootdir", "zigix", "boot", "kernel"}
        /\ g \in {"root", "efi", "bootdir", "zigix", "boot", "kernel"}
    BY <1>3, Zenon DEF DirNames
  <2> QED BY <1>1, <1>4, <2>1
<1>6. UNION {set(f) : f \in DOMAIN first} = 2 .. next_cluster - 1
  <2>1. ASSUME NEW x \in 2 .. next_cluster - 1 PROVE \E f \in DOMAIN first : x \in set(f)
    <3>1. x = 2 \/ x = 3 \/ x = 4 \/ x = 5 \/ x \in 6 .. 5 + BootClusters
          \/ x \in 6 + BootClusters .. next_cluster - 1
      BY <1>1
    <3> QED BY <1>3, <1>4, <3>1 DEF DirNames
  <2>2. ASSUME NEW f \in DOMAIN first, NEW x \in set(f) PROVE x \in 2 .. next_cluster - 1
    <3>1. f \in {"root", "efi", "bootdir", "zigix", "boot", "kernel"}
      BY <1>3, Zenon DEF DirNames
    <3> QED BY <1>1, <1>4, <2>2, <3>1
  <2> QED BY <2>1, <2>2, Zenon
<1>7. \A f \in DOMAIN first : set(f) \subseteq 2 .. data_clusters + 1
  <2>1. 2 .. next_cluster - 1 \subseteq 2 .. data_clusters + 1
    BY <1>1
  <2> QED BY <1>6, <2>1, Zenon
<1>8. {c \in 2 .. fat_size * PerSector - 1 : FirstFat(c) # 0} = 2 .. next_cluster - 1
  <2>1. \A c \in 2 .. FatEntries - 1 : FirstFat(c) # 0 <=> c < next_cluster
    <3> SUFFICES ASSUME NEW c \in 2 .. FatEntries - 1 PROVE FirstFat(c) # 0 <=> c < next_cluster
      OBVIOUS
    <3>1. FirstFat(c) = IF c < next_cluster THEN FatVal(c) ELSE 0
      BY <1>1, DoneTable
    <3>2. FatVal(c) # 0
      BY <1>1 DEF FatVal, END
    <3> QED BY <3>1, <3>2, Zenon
  <2>2. FatEntries = fat_size * PerSector /\ next_cluster - 1 <= FatEntries - 1
    BY <1>1 DEF FatEntries
  <2> HIDE DEF FatEntries
  <2>3. {c \in 2 .. FatEntries - 1 : FirstFat(c) # 0} = 2 .. next_cluster - 1
    BY <1>1, <2>1, <2>2
  <2> QED BY <2>2, <2>3, Zenon
<1> QED BY <1>5, <1>6, <1>7, <1>8, Zenon DEF ChainsApart, chain, set

---------------------------------------------------------------------------
(* The parts of the disk meet *)

Contiguous == \A k \in 1 .. Len(disk) - 1 : disk[k].at + disk[k].len = disk[k + 1].at

LEMMA PartsMeet ==
    ASSUME GceInv
    PROVE  /\ MbrPart.at + MbrPart.len = HeaderPart.at
           /\ HeaderPart.at + HeaderPart.len = EntriesPart.at
           /\ EntriesPart.at + EntriesPart.len = EspPart.at
           /\ esp_len = EspBytes => EspPart.at + EspPart.len = RootPart.at
           /\ RootPart.at + RootPart.len = BackupEntriesPart.at
           /\ BackupEntriesPart.at + BackupEntriesPart.len = BackupPart.at
<1> DEFINE g == GPT_ENTRIES_SECTORS
           e == ESP_START_LBA
           r == ROOT_START_LBA
           b == backup_entries_lba
           s == SECTOR_SIZE
<1>1. /\ g \in Nat /\ e \in Nat /\ e = 2 + g /\ r \in Nat /\ r = e + ESP_SECTORS /\ s \in Nat
      /\ b \in Nat /\ TOTAL_SECTORS - 1 = b + g /\ root_size = (b - r) * s /\ ESP_SECTORS \in Nat
  BY Layout, Sizes DEF GceInv, SizeInv
<1>2. /\ MbrPart.at = 0 * s /\ MbrPart.len = s /\ HeaderPart.at = 1 * s /\ HeaderPart.len = s
      /\ EntriesPart.at = 2 * s /\ EntriesPart.len = g * s /\ EspPart.at = e * s
      /\ EspPart.len = esp_len /\ RootPart.at = r * s /\ RootPart.len = root_size
      /\ BackupEntriesPart.at = b * s /\ BackupEntriesPart.len = g * s
      /\ BackupPart.at = (TOTAL_SECTORS - 1) * s /\ EspBytes = ESP_SECTORS * s
  BY Zenon DEF MbrPart, HeaderPart, EntriesPart, EspPart, RootPart, BackupEntriesPart, BackupPart, Part,
         EspBytes, GPT_HEADER_LBA, GPT_ENTRIES_START_LBA
<1> HIDE DEF g, e, r, b, s
<1>3. 0 * s + s = 1 * s /\ 1 * s + s = 2 * s /\ 2 * s + g * s = e * s
  BY <1>1
<1>4. e * s + ESP_SECTORS * s = r * s /\ r * s + (b - r) * s = b * s
  BY <1>1
<1>5. b * s + g * s = (TOTAL_SECTORS - 1) * s
  BY <1>1
<1> QED BY <1>1, <1>2, <1>3, <1>4, <1>5, Zenon

LEMMA DiskContiguous == GceInv /\ pc # "failed" => Contiguous
<1> SUFFICES ASSUME GceInv, pc # "failed" PROVE Contiguous
  BY Zenon
<1>1. CASE pc \in {"fat_size", "dirs", "boot", "kernel", "entries", "head"}
  <2>1. disk = <<>>
    BY <1>1, Zenon DEF GceInv, DiskInv
  <2> QED BY <2>1 DEF Contiguous
<1>2. CASE pc = "esp"
  <2>1. disk = <<MbrPart, HeaderPart, EntriesPart>>
    BY <1>2, Zenon DEF GceInv, DiskInv
  <2>2. Len(disk) = 3 /\ disk[1] = MbrPart /\ disk[2] = HeaderPart /\ disk[3] = EntriesPart
    BY <2>1, Zenon
  <2> QED BY <2>2, PartsMeet DEF Contiguous
<1>3. CASE pc = "root"
  <2>1. disk = <<MbrPart, HeaderPart, EntriesPart, EspPart>>
    BY <1>3 DEF GceInv, DiskInv
  <2>2. /\ Len(disk) = 4 /\ disk[1] = MbrPart /\ disk[2] = HeaderPart /\ disk[3] = EntriesPart
        /\ disk[4] = EspPart
    BY <2>1, Zenon
  <2> QED BY <2>2, PartsMeet DEF Contiguous
<1>4. CASE pc = "backup"
  <2>1. /\ disk = <<MbrPart, HeaderPart, EntriesPart, EspPart, RootPart>>
        /\ esp_len = EspBytes
    BY <1>4, Zenon DEF GceInv, DiskInv, LenInv
  <2>2. /\ Len(disk) = 5 /\ disk[1] = MbrPart /\ disk[2] = HeaderPart /\ disk[3] = EntriesPart
        /\ disk[4] = EspPart /\ disk[5] = RootPart
    BY <2>1
  <2> QED BY <2>1, <2>2, PartsMeet DEF Contiguous
<1>5. CASE pc = "done"
  <2>1. /\ Len(disk) = 7 /\ disk[1] = MbrPart /\ disk[2] = HeaderPart /\ disk[3] = EntriesPart
        /\ disk[4] = EspPart /\ disk[5] = RootPart /\ disk[6] = BackupEntriesPart
        /\ disk[7] = BackupPart /\ esp_len = EspBytes
    BY <1>5, DiskParts, Zenon DEF Finished
  <2> QED BY <2>1, PartsMeet DEF Contiguous
<1> QED BY <1>1, <1>2, <1>3, <1>4, <1>5, Zenon DEF GceInv, CountInv, Writing

\* A script that fails has written nothing more.
FailInv == pc = "failed" => Contiguous

LEMMA FailStep == ASSUME GceInv, FailInv, [Next]_vars PROVE FailInv'
<1> SUFFICES ASSUME pc' = "failed" PROVE Contiguous'
  BY Zenon DEF FailInv
<1>1. disk' = disk
  BY WriteEspKeeps, WriteBackupKeeps, Zenon DEF Next, GrowFat, WriteBpb, AllocDirs, WriteCluster,
     WriteDirs, WriteHead, WriteRoot, WritePart, Ended, vars
<1>2. Contiguous
  BY DiskContiguous, Zenon DEF FailInv
<1> QED BY <1>1, <1>2, Zenon DEF Contiguous

\* set_fat_entry and write_file_to_clusters, for a kernel that is not empty and
\* whatever the other sizes: the two copies of the table of a finished disk are
\* equal, its chains do not meet, and every cluster marked used is on one.
THEOREM GceFatSound == 0 \notin KernelSizes => (Spec => []FatSound)
<1> SUFFICES ASSUME 0 \notin KernelSizes PROVE Spec => []FatSound
  BY Zenon
<1>1. Init => GrownInv /\ TableInv /\ FirstInv /\ FailInv
  BY Zenon DEF Init, GrownInv, TableInv, FirstInv, FailInv, Writing
<1>2. /\ GceInv /\ GceInv' /\ GrownInv /\ TableInv /\ FirstInv /\ FailInv /\ [Next]_vars
      => (GrownInv /\ TableInv /\ FirstInv /\ FailInv)'
  BY GrownStep, TableStep, FirstStep, FailStep, Zenon
<1>3. GceInv /\ GrownInv /\ TableInv /\ FirstInv /\ FailInv => FatSound
  <2> SUFFICES ASSUME FatInv, FailInv PROVE FatSound
    BY DEF FatInv
  <2>1. TypeOK
    BY DiskContiguous, Zenon DEF FailInv, TypeOK, FatInv, GceInv, SizeInv, CountInv, LenInv, Contiguous, Writing
  <2> QED BY <2>1, CopiesAgree, ApartChains DEF FatSound
<1> QED BY <1>1, <1>2, <1>3, GceAlways, PTL DEF Spec

---------------------------------------------------------------------------
(* The files of the system partition *)

\* Cluster c holds its part of a file, when the file has one.
BootPart(c) == (c - 6) * cluster_size < input.boot =>
                   c \in DOMAIN data /\ data[c] = Chunk("boot", c - 6)
KernelPart(c) == LET i == c - (6 + BootClusters)
                 IN  i * cluster_size < input.kernel =>
                         c \in DOMAIN data /\ data[c] = Chunk("kernel", i)

\* As long as the clusters given out exist, they hold the files, and in the end
\* the directories.
DataInv ==
    /\ pc \in {"boot", "kernel"} \cup Writing /\ next_cluster - 2 <= data_clusters =>
          \A c \in 6 .. next_cluster - 1 : IF c < 6 + BootClusters THEN BootPart(c) ELSE KernelPart(c)
    /\ pc \in Writing \ {"entries"} =>
          /\ {2, 3, 4, 5} \subseteq DOMAIN data
          /\ data[2] = RootEntries /\ data[3] = EfiEntries
          /\ data[4] = BootEntries /\ data[5] = ZigixEntries

\* A cluster that exists lies in the partition.
LEMMA OffsetIn ==
    ASSUME GceInv, NEW c \in Nat, c >= 2, c - 2 <= data_clusters
    PROVE  cluster_offset(c) <= esp_len
<1> DEFINE s == SECTOR_SIZE
           a == RESERVED + 2 * fat_size
           b == c - 2
<1>1. s \in Nat /\ a \in Nat /\ b \in Nat /\ ESP_SECTORS \in Nat /\ esp_len \in Nat
      /\ esp_len >= ESP_SECTORS * s /\ b <= ESP_SECTORS - a
  BY Sizes DEF GceInv, SizeInv, LenInv, EspBytes, data_clusters, Clusters, num_fats
<1>2. cluster_offset(c) = a * s + b * s
  BY Zenon DEF cluster_offset, data_start_sector, num_fats, cluster_size
<1> HIDE DEF s, a, b
<1>3. a * s + b * s = (a + b) * s /\ a + b \in Int /\ a + b <= ESP_SECTORS
  BY <1>1
<1>4. (a + b) * s <= ESP_SECTORS * s
  BY <1>1, <1>3, MulMono
<1>5. (a + b) * s \in Int /\ ESP_SECTORS * s \in Int
  BY <1>1, <1>3
<1> QED BY <1>1, <1>2, <1>3, <1>4, <1>5

\* A turn of write_file_to_clusters, for clusters that exist.
LEMMA ClusterData ==
    ASSUME GceInv, NEW file \in {"boot", "kernel"}, NEW next, WriteCluster(file, next),
           next_cluster' - 2 <= data_clusters
    PROVE  /\ \A x \in DOMAIN data \ {next_cluster} : x \in DOMAIN data' /\ data'[x] = data[x]
           /\ chunk * cluster_size < input[file] =>
                 next_cluster \in DOMAIN data' /\ data'[next_cluster] = Chunk(file, chunk)
<1> DEFINE c == next_cluster
           n == num_clusters(input[file])
           off == cluster_offset(c)
           some == chunk * cluster_size < input[file]
           piece == Chunk(file, chunk)
           d == IF some /\ off <= esp_len THEN Put(data, {c}, piece) ELSE data
           f == [fat |-> fat, data |-> d]
           v == Link(chunk, n, c)
<1>1. pc = file /\ next_cluster' = c + 1 /\ data' = set_fat_entry(f, c, v).data
  BY Zenon DEF WriteCluster
<1>2. /\ FatEntries \in Nat /\ data_clusters \in Int /\ data_clusters + 2 <= FatEntries
      /\ fat_size \in Nat /\ c \in Nat /\ c >= 2
  <2>1. pc # "fat_size"
    BY <1>1, Zenon
  <2>2. FatEntries \in Nat /\ data_clusters \in Int /\ data_clusters + 2 <= FatEntries
    BY <2>1, FatRoom, Zenon
  <2>3. fat_size \in Nat \ {0} /\ next_cluster \in Nat \ {0, 1}
    BY Zenon DEF GceInv, SizeInv, CountInv
  <2> QED BY <2>2, <2>3
<1>3. c \in 0 .. FatEntries - 1 /\ c - 2 <= data_clusters
  BY <1>1, <1>2
<1>4. off <= esp_len
  BY <1>2, <1>3, OffsetIn, Zenon
<1>5. f.data = d
  BY Zenon
<1> HIDE DEF c, n, f, v, d, off, some, piece, FatEntries
<1>6. data' = Put(d, {}, "fat entry")
  BY <1>1, <1>2, <1>3, <1>5, SetEntry, Zenon
<1>7. DOMAIN data' = DOMAIN d /\ \A x \in DOMAIN d : data'[x] = d[x]
  BY <1>6 DEF Put
<1>8. CASE some
  <2>1. d = Put(data, {c}, piece)
    BY <1>4, <1>8, Zenon DEF d
  <2> QED BY <1>7, <2>1 DEF Put, c, piece
<1>9. CASE ~some
  <2>1. d = data
    BY <1>9, Zenon DEF d
  <2> QED BY <1>7, <1>9, <2>1 DEF some
<1> QED BY <1>8, <1>9, Zenon

LEMMA ClusterFiles ==
    ASSUME GceInv, GceInv', DataInv,
           WriteCluster("boot", "kernel") \/ WriteCluster("kernel", "entries")
    PROVE  DataInv'
<1>1. /\ pc \in {"boot", "kernel"} /\ next_cluster' = next_cluster + 1
      /\ UNCHANGED <<ESP_SECTORS, fat_size, input>>
      /\ pc' \in {"boot", "kernel", "entries"}
  BY Zenon DEF WriteCluster
<1>2. UNCHANGED <<data_clusters, BootClusters>> /\ \A f, i : Chunk(f, i)' = Chunk(f, i)
  BY <1>1, Zenon DEF data_clusters, Clusters, BootClusters, Chunk
<1>3. /\ data_clusters \in Int /\ next_cluster \in Nat /\ BootClusters \in Nat /\ chunk \in Nat
      /\ (pc = "boot" => chunk < BootClusters /\ next_cluster = 6 + chunk)
      /\ (pc = "kernel" => next_cluster = 6 + BootClusters + chunk)
  BY <1>1, FatRoom, ClustersPositive, Zenon DEF GceInv, CountInv
<1> SUFFICES ASSUME next_cluster' - 2 <= data_clusters, NEW c \in 6 .. next_cluster
             PROVE  (IF c < 6 + BootClusters THEN BootPart(c) ELSE KernelPart(c))'
  BY <1>1, <1>2, <1>3 DEF DataInv, Writing
<1>4. /\ \A x \in DOMAIN data \ {next_cluster} : x \in DOMAIN data' /\ data'[x] = data[x]
      /\ chunk * cluster_size < input[pc] =>
            next_cluster \in DOMAIN data' /\ data'[next_cluster] = Chunk(pc, chunk)
  <2>1. CASE WriteCluster("boot", "kernel")
    <3>1. pc = "boot"
      BY <2>1, Zenon DEF WriteCluster
    <3> QED BY <2>1, <3>1, ClusterData, Zenon
  <2>2. CASE WriteCluster("kernel", "entries")
    <3>1. pc = "kernel"
      BY <2>2 DEF WriteCluster
    <3> QED BY <2>2, <3>1, ClusterData, Zenon
  <2> QED BY <2>1, <2>2, Zenon
<1>5. CASE c # next_cluster
  <2>1. c \in 6 .. next_cluster - 1 /\ next_cluster - 2 <= data_clusters
    BY <1>1, <1>3, <1>5
  <2>2. IF c < 6 + BootClusters THEN BootPart(c) ELSE KernelPart(c)
    BY <1>1, <2>1, Zenon DEF DataInv
  <2>3. BootPart(c) => BootPart(c)'
    BY <1>1, <1>2, <1>4, <1>5, Zenon DEF BootPart, cluster_size
  <2>4. KernelPart(c) => KernelPart(c)'
    BY <1>1, <1>2, <1>4, <1>5 DEF KernelPart, cluster_size
  <2> QED BY <1>2, <2>2, <2>3, <2>4
<1>6. CASE c = next_cluster
  <2>1. CASE pc = "boot"
    <3>1. c < 6 + BootClusters /\ c - 6 = chunk
      BY <1>3, <1>6, <2>1
    <3>2. BootPart(c)'
      BY <1>1, <1>2, <1>4, <1>6, <2>1, <3>1 DEF BootPart, cluster_size
    <3> QED BY <1>2, <3>1, <3>2
  <2>2. CASE pc = "kernel"
    <3>1. ~(c < 6 + BootClusters) /\ c - (6 + BootClusters) = chunk
      BY <1>3, <1>6, <2>2
    <3>2. KernelPart(c)'
      BY <1>1, <1>2, <1>4, <1>6, <2>2, <3>1 DEF KernelPart, cluster_size
    <3> QED BY <1>2, <3>1, <3>2, Zenon
  <2> QED BY <1>1, <2>1, <2>2
<1> QED BY <1>5, <1>6, Zenon

LEMMA EntriesKeep ==
    ASSUME UNCHANGED <<first, input>>
    PROVE  UNCHANGED <<RootEntries, EfiEntries, BootEntries, ZigixEntries>>
BY Zenon DEF RootEntries, EfiEntries, BootEntries, ZigixEntries

LEMMA DirsData == ASSUME GceInv, FirstInv, DataInv, WriteDirs PROVE DataInv'
<1>1. /\ pc = "entries" /\ pc' = "head"
      /\ UNCHANGED <<ESP_SECTORS, fat_size, input, next_cluster, first>>
  BY Zenon DEF WriteDirs
<1>2. first.root = 2 /\ first.efi = 3 /\ first.bootdir = 4 /\ first.zigix = 5
  BY <1>1, Zenon DEF FirstInv, Writing
<1>3. UNCHANGED <<data_clusters, BootClusters>> /\ \A f, i : Chunk(f, i)' = Chunk(f, i)
  BY <1>1, Zenon DEF data_clusters, Clusters, BootClusters, Chunk
<1>4. UNCHANGED <<RootEntries, EfiEntries, BootEntries, ZigixEntries>>
  BY <1>1, EntriesKeep, Zenon
<1>5. /\ DOMAIN data' = DOMAIN data \cup {2, 3, 4, 5}
      /\ data'[2] = RootEntries /\ data'[3] = EfiEntries
      /\ data'[4] = BootEntries /\ data'[5] = ZigixEntries
      /\ \A x \in DOMAIN data \ {2, 3, 4, 5} : data'[x] = data[x]
  <2> DEFINE p == Put(data, {2}, RootEntries)
             q == Put(p, {3}, EfiEntries)
             r == Put(q, {4}, BootEntries)
             s == Put(r, {5}, ZigixEntries)
  <2>1. data' = s
    BY <1>2, Zenon DEF WriteDirs
  <2> HIDE DEF RootEntries, EfiEntries, BootEntries, ZigixEntries
  <2>2. DOMAIN p = DOMAIN data \cup {2} /\ p[2] = RootEntries /\ \A x \in DOMAIN data \ {2} : p[x] = data[x]
    BY Zenon DEF Put
  <2> HIDE DEF p
  <2>3. DOMAIN q = DOMAIN p \cup {3} /\ q[3] = EfiEntries /\ \A x \in DOMAIN p \ {3} : q[x] = p[x]
    BY Zenon DEF Put
  <2> HIDE DEF q
  <2>4. DOMAIN r = DOMAIN q \cup {4} /\ r[4] = BootEntries /\ \A x \in DOMAIN q \ {4} : r[x] = q[x]
    BY Zenon DEF Put
  <2> HIDE DEF r
  <2>5. DOMAIN s = DOMAIN r \cup {5} /\ s[5] = ZigixEntries /\ \A x \in DOMAIN r \ {5} : s[x] = r[x]
    BY Zenon DEF Put
  <2> HIDE DEF s
  <2> QED BY <2>1, <2>2, <2>3, <2>4, <2>5
<1>6. ASSUME next_cluster' - 2 <= data_clusters', NEW c \in 6 .. next_cluster' - 1
      PROVE  (IF c < 6 + BootClusters THEN BootPart(c) ELSE KernelPart(c))'
  <2>1. c \in 6 .. next_cluster - 1 /\ next_cluster - 2 <= data_clusters /\ c \notin {2, 3, 4, 5}
    BY <1>1, <1>3, <1>6
  <2>2. IF c < 6 + BootClusters THEN BootPart(c) ELSE KernelPart(c)
    BY <1>1, <2>1, Zenon DEF DataInv, Writing
  <2>3. BootPart(c) => BootPart(c)'
    BY <1>1, <1>3, <1>5, <2>1, Zenon DEF BootPart, cluster_size
  <2>4. KernelPart(c) => KernelPart(c)'
    BY <1>1, <1>3, <1>5, <2>1 DEF KernelPart, cluster_size
  <2> QED BY <1>3, <2>2, <2>3, <2>4
<1>7. /\ {2, 3, 4, 5} \subseteq DOMAIN data'
      /\ data'[2] = RootEntries' /\ data'[3] = EfiEntries'
      /\ data'[4] = BootEntries' /\ data'[5] = ZigixEntries'
  BY <1>4, <1>5, Zenon
<1> QED BY <1>6, <1>7, Zenon DEF DataInv

LEMMA DataStep == ASSUME GceInv, GceInv', FirstInv, DataInv, [Next]_vars PROVE DataInv'
<1>1. CASE GrowFat \/ WriteBpb
  BY <1>1, Zenon DEF GrowFat, WriteBpb, DataInv, Writing
<1>2. CASE AllocDirs
  <2>1. pc' = "boot" /\ next_cluster' = 6
    BY <1>2, Zenon DEF AllocDirs
  <2> QED BY <2>1 DEF DataInv, Writing
<1>3. CASE WriteCluster("boot", "kernel") \/ WriteCluster("kernel", "entries")
  BY <1>3, ClusterFiles, Zenon
<1>4. CASE WriteDirs
  BY <1>4, DirsData, Zenon
<1>5. CASE WriteHead \/ WriteEsp \/ WriteRoot \/ WriteBackup \/ UNCHANGED vars
  <2>1. /\ UNCHANGED <<ESP_SECTORS, fat_size, input, next_cluster, first, data>>
        /\ pc' = pc \/ (pc \in Writing \ {"entries"} /\ pc' \in (Writing \ {"entries"}) \cup {"failed"})
    BY <1>5 DEF WriteHead, WriteEsp, WriteRoot, WriteBackup, WritePart, Same, vars, Writing
  <2>2. UNCHANGED <<data_clusters, BootClusters>> /\ \A f, i : Chunk(f, i)' = Chunk(f, i)
    BY <2>1, Zenon DEF data_clusters, Clusters, BootClusters, Chunk
  <2>3. UNCHANGED <<RootEntries, EfiEntries, BootEntries, ZigixEntries>>
    BY <2>1, EntriesKeep, Zenon
  <2>4. \A c : (BootPart(c)' <=> BootPart(c)) /\ (KernelPart(c)' <=> KernelPart(c))
    BY <2>1, <2>2, Zenon DEF BootPart, KernelPart, cluster_size
  <2> QED BY <2>1, <2>2, <2>3, <2>4, Zenon DEF DataInv, Writing
<1> QED BY <1>1, <1>2, <1>3, <1>4, <1>5 DEF Next, Ended

---------------------------------------------------------------------------
(* Reading the files *)

\* The kernel reads a cluster where the script put it.
LEMMA ReadCluster ==
    ASSUME GceInv, FirstInv, Finished, NEW c \in Nat, c \in DOMAIN data
    PROVE  readCluster(c) = data[c]
<1> DEFINE e == ESP_START_LBA
<1>1. e \in Nat /\ RESERVED \in Nat /\ fat_size \in Nat
  BY Layout, Sizes, Zenon DEF GceInv, SizeInv
<1>2. Mount.data_start = e + RESERVED + 2 * fat_size
  BY Mounted, Zenon
<1> HIDE DEF e
<1>3. ((e + RESERVED + 2 * fat_size + (c - 2)) - e) - (RESERVED + 2 * fat_size) + 2 = c
  BY <1>1
<1>4. EspSector(Mount.data_start + (c - 2)) - data_start_sector + 2 = c
  BY <1>2, <1>3 DEF EspSector, data_start_sector, num_fats, e
<1> QED BY <1>4, Zenon DEF readCluster

\* A cluster number is stored in two halves.
LEMMA Halves ==
    ASSUME GceInv, NEW c \in Nat, c <= ESP_SECTORS, NEW name, NEW attr, NEW size
    PROVE  Cluster(make_dir_entry(name, attr, c, size)) = c
<1> DEFINE q == c \div U16
<1>1. U16 \in Nat \ {0} /\ c < U16 * U16
  <2>1. ESP_SECTORS < U16 * U16 /\ ESP_SECTORS \in Nat /\ U16 \in Nat \ {0}
    BY GceAssumption, Zenon DEF GceInv, SizeInv
  <2>2. U16 * U16 \in Int
    BY <2>1
  <2> QED BY <2>1, <2>2
<1>2. q \in Nat /\ c % U16 \in Nat /\ c = U16 * q + (c % U16)
  BY <1>1, DivMod, Zenon
<1>3. q < U16
  <2>1. U16 * q <= c /\ U16 * q = q * U16
    BY <1>1, <1>2
  <2>2. q * U16 \in Int /\ U16 * U16 \in Int
    BY <1>1, <1>2
  <2> HIDE DEF q
  <2>3. q * U16 < U16 * U16
    BY <1>1, <2>1, <2>2
  <2> QED BY <1>1, <1>2, <2>3, MulStrict
<1> HIDE DEF q
<1>4. q % U16 = q
  BY <1>1, <1>2, <1>3
<1>5. (c % U16) + q * U16 = c
  BY <1>1, <1>2
<1>6. Cluster(make_dir_entry(name, attr, c, size)) = (c % U16) + (q % U16) * U16
  BY Zenon DEF Cluster, make_dir_entry, q
<1> QED BY <1>4, <1>5, <1>6, Zenon

---------------------------------------------------------------------------
(* Long names *)

\* The characters of a name, as they are stored.
Char(long, k) == IF k <= Len(long) THEN long[k] ELSE IF k = Len(long) + 1 THEN NUL ELSE PAD
Parts(long) == Ceil(Len(long), chars_per_entry)

LEMMA PartCount ==
    ASSUME NEW long, Len(long) \in Nat \ {0}
    PROVE  /\ Parts(long) \in Nat \ {0} /\ Len(long) <= Parts(long) * 13
<1>1. 13 \in Nat \ {0} /\ Len(long) \in Int /\ Len(long) > 0 * 13 /\ 0 \in Int
  OBVIOUS
<1>2. Parts(long) \in Int /\ Parts(long) > 0
  BY <1>1, CeilAbove, Zenon DEF Parts, chars_per_entry
<1>3. Len(long) <= Parts(long) * 13
  <2> DEFINE p == Parts(long)
  <2>1. p \in Int /\ ~(p > p)
    BY <1>2
  <2> HIDE DEF p
  <2>2. Ceil(Len(long), 13) > p <=> Len(long) > p * 13
    BY <1>1, <2>1, CeilAbove, Zenon
  <2>3. Ceil(Len(long), 13) = p
    BY Zenon DEF p, Parts, chars_per_entry
  <2> QED BY <1>1, <2>1, <2>2, <2>3 DEF p
<1> QED BY <1>2, <1>3

\* Entry d is the e-th of the parts of a name, of which the last one comes first.
IsPart(d, e, long, short) ==
    /\ d.ord = Parts(long) + 1 - e /\ d.last = (e = 1) /\ d.attr = LFN /\ d.cksum = short
    /\ \A k \in 1 .. 13 : d.chars[k] = Char(long, (Parts(long) - e) * 13 + k)

\* The parts of a name and the short entry.
LfnResult(es, long, short, entry) ==
    /\ Len(es) = Parts(long) + 1 /\ DOMAIN es = 1 .. Parts(long) + 1
    /\ \A e \in 1 .. Parts(long) : IsPart(es[e], e, long, short)
    /\ es[Parts(long) + 1] = entry
    /\ es = [e \in 1 .. Parts(long) + 1 |-> es[e]]

LEMMA LfnEntries ==
    ASSUME NEW long, Len(long) \in Nat \ {0}, NEW short, NEW attr, NEW cluster, NEW size
    PROVE  LfnResult(make_lfn_entries(long, short, attr, cluster, size), long, short,
                     make_dir_entry(short, attr, cluster, size))
<1> DEFINE es == make_lfn_entries(long, short, attr, cluster, size)
<1> DEFINE p == Parts(long)
           part(seq) == [ord |-> seq, last |-> seq = p, attr |-> LFN, cksum |-> short,
                         chars |-> [k \in 1 .. 13 |-> Char(long, (seq - 1) * 13 + k)]]
           lfn == [e \in 1 .. p |-> part(p + 1 - e)]
           entry == make_dir_entry(short, attr, cluster, size)
<1>1. p \in Nat \ {0}
  BY PartCount, Zenon
<1>2. es = lfn \o <<entry>>
  BY Zenon DEF make_lfn_entries, Char, Parts, chars_per_entry
<1> HIDE DEF p, entry, es
<1>3. \A e \in 1 .. p : lfn[e] = part(p + 1 - e)
  BY Zenon
<1>4. \A e \in 1 .. p :
         /\ lfn[e].ord = p + 1 - e /\ lfn[e].last = (e = 1) /\ lfn[e].attr = LFN
         /\ lfn[e].cksum = short
         /\ \A k \in 1 .. 13 : lfn[e].chars[k] = Char(long, (p - e) * 13 + k)
  <2> SUFFICES ASSUME NEW e \in 1 .. p
               PROVE  /\ lfn[e].ord = p + 1 - e /\ lfn[e].last = (e = 1) /\ lfn[e].attr = LFN
                      /\ lfn[e].cksum = short
                      /\ \A k \in 1 .. 13 : lfn[e].chars[k] = Char(long, (p - e) * 13 + k)
    BY Zenon
  <2> DEFINE q == p + 1 - e
  <2>1. (q = p) = (e = 1) /\ q - 1 = p - e
    BY <1>1
  <2> HIDE DEF lfn, q
  <2>2. lfn[e] = part(q)
    BY <1>3, Zenon DEF q
  <2>3. /\ lfn[e].ord = q /\ lfn[e].last = (q = p) /\ lfn[e].attr = LFN
        /\ lfn[e].cksum = short
        /\ lfn[e].chars = [k \in 1 .. 13 |-> Char(long, (q - 1) * 13 + k)]
    BY <2>2
  <2>4. lfn[e].chars = [k \in 1 .. 13 |-> Char(long, (p - e) * 13 + k)]
    BY <2>1, <2>3, Zenon
  <2>5. \A k \in 1 .. 13 : lfn[e].chars[k] = Char(long, (p - e) * 13 + k)
    BY <2>4, Zenon
  <2> QED BY <2>1, <2>3, <2>5, Zenon DEF q
<1> HIDE DEF part
<1>5. lfn \in Seq({part(p + 1 - e) : e \in 1 .. p}) /\ Len(lfn) = p
  <2> DEFINE T == {part(p + 1 - e) : e \in 1 .. p}
  <2>1. lfn \in [1 .. p -> T]
    <3> QED BY Zenon
  <2> HIDE DEF T, lfn
  <2>2. lfn \in Seq(T) /\ Len(lfn) = p
    BY <1>1, <2>1
  <2> QED BY <2>2, Zenon DEF T
<1> HIDE DEF lfn
<1>6. /\ Len(es) = p + 1 /\ DOMAIN es = 1 .. p + 1 /\ es[p + 1] = entry
      /\ \A e \in 1 .. p : es[e] = lfn[e]
  <2> DEFINE T == {part(p + 1 - e) : e \in 1 .. p} \cup {entry}
  <2>1. lfn \in Seq(T) /\ <<entry>> \in Seq(T) /\ Len(<<entry>>) = 1
    BY <1>5
  <2> HIDE DEF T
  <2> QED BY <1>1, <1>2, <1>5, <2>1
<1>7. \A e \in 1 .. p : IsPart(lfn[e], e, long, short)
  BY <1>4, Zenon DEF IsPart, p
<1>8. \A e \in 1 .. p : IsPart(es[e], e, long, short)
  BY <1>6, <1>7, Zenon
<1>9. es = [e \in 1 .. p + 1 |-> es[e]]
  <2> DEFINE T == {part(p + 1 - e) : e \in 1 .. p} \cup {entry}
  <2>1. lfn \in Seq(T) /\ <<entry>> \in Seq(T)
    BY <1>5
  <2> HIDE DEF T
  <2>2. es \in Seq(T)
    BY <1>2, <2>1
  <2> QED BY <1>6, <2>2
<1> QED BY <1>6, <1>8, <1>9, Zenon DEF p, entry, es, LfnResult

\* Position i of a name is in part q + 1, where it has position r + 1.
LEMMA Place ==
    ASSUME NEW p \in Nat, NEW i \in 1 .. p * 13
    PROVE  LET q == (i - 1) \div 13
               r == (i - 1) % 13
           IN  q + 1 \in 1 .. p /\ r + 1 \in 1 .. 13 /\ ((q + 1) - 1) * 13 + (r + 1) = i
<1> DEFINE q == (i - 1) \div 13
           r == (i - 1) % 13
<1>1. i \in Nat /\ i >= 1 /\ i <= p * 13 /\ i - 1 \in Nat
  OBVIOUS
<1>2. q \in Int /\ r \in 0 .. 12 /\ i - 1 = q * 13 + r
  BY <1>1
<1> HIDE DEF q, r
<1> QED BY <1>1, <1>2 DEF q, r

\* The parts of a name lie behind m other entries.
HasParts(ds, m, long, short) == \A e \in 1 .. Parts(long) : IsPart(ds[m + e], e, long, short)

\* A long name in front of a short entry is put together as it was.
LEMMA LongNameOf ==
    ASSUME NEW long \in Seq(Int), long # <<>>, \A i \in 1 .. Len(long) : long[i] # NUL,
           NEW m \in Nat, NEW ds, NEW short,
           \A j \in 1 .. m : ds[j].attr # LFN,
           HasParts(ds, m, long, short),
           ds[(m + Parts(long)) + 1].name = short
    PROVE  LongName(ds, (m + Parts(long)) + 1) = long
<1> DEFINE p == Parts(long)
           last == (m + p) + 1
           parts == {j \in 1 .. last - 1 : ds[j].attr = LFN /\ ds[j].cksum = ds[last].name}
           n == Cardinality(parts)
           part(i) == ds[CHOOSE j \in parts : ds[j].ord = i].chars
           all == [i \in 1 .. n * chars_per_entry |->
                      part(((i - 1) \div chars_per_entry) + 1)[((i - 1) % chars_per_entry) + 1]]
           ends == {i \in DOMAIN all : all[i] = NUL}
<1>1. Len(long) \in Nat \ {0} /\ p \in Nat \ {0} /\ Len(long) <= p * 13
  <2>1. Len(long) \in Nat \ {0}
    OBVIOUS
  <2> QED BY <2>1, PartCount, Zenon
<1> HIDE DEF p
<1>2. \A e \in 1 .. p :
          /\ ds[m + e].ord = p + 1 - e /\ ds[m + e].last = (e = 1)
          /\ ds[m + e].attr = LFN /\ ds[m + e].cksum = short
          /\ \A k \in 1 .. 13 : ds[m + e].chars[k] = Char(long, (p - e) * 13 + k)
  BY Zenon DEF p, HasParts, IsPart
<1>3. ds[last].name = short
  BY Zenon DEF p
<1>4. parts = m + 1 .. m + p
  <2>1. ASSUME NEW j \in 1 .. m + p PROVE (ds[j].attr = LFN /\ ds[j].cksum = short) <=> j > m
    <3>1. CASE j <= m
      BY <3>1
    <3>2. CASE j > m
      <4>1. j - m \in 1 .. p /\ m + (j - m) = j
        BY <1>1, <3>2
      <4> QED BY <1>2, <3>2, <4>1
    <3> QED BY <1>1, <3>1, <3>2
  <2>2. 1 .. last - 1 = 1 .. m + p
    BY <1>1
  <2>3. parts = {j \in 1 .. m + p : ds[j].attr = LFN /\ ds[j].cksum = short}
    BY <1>3, <2>2, Zenon
  <2> HIDE DEF parts
  <2> QED BY <1>1, <2>1, <2>3
<1> HIDE DEF parts
<1>5. n = p
  <2>1. m + 1 \in Int /\ m + p \in Int /\ ~(m + 1 > m + p) /\ (m + p) - (m + 1) + 1 = p
    BY <1>1
  <2>2. Cardinality(m + 1 .. m + p) = (m + p) - (m + 1) + 1
    BY <2>1, FS_Interval, Zenon
  <2> QED BY <1>4, <2>1, <2>2, Zenon
<1>6. ASSUME NEW i \in 1 .. p
      PROVE  (CHOOSE j \in parts : ds[j].ord = i) = m + (p + 1 - i)
  <2> DEFINE j0 == m + (p + 1 - i)
  <2>1. p + 1 - i \in 1 .. p /\ p + 1 - (p + 1 - i) = i
    BY <1>1
  <2>9. j0 \in m + 1 .. m + p
    BY <1>1, <2>1
  <2>2. j0 \in parts /\ ds[j0].ord = i
    BY <1>2, <1>4, <2>1, <2>9, Zenon
  <2>3. ASSUME NEW j \in parts, ds[j].ord = i PROVE j = j0
    <3>1. j - m \in 1 .. p /\ m + (j - m) = j /\ j \in Int
      BY <1>1, <1>4, <2>3
    <3>2. ds[j].ord = p + 1 - (j - m)
      BY <1>2, <3>1, Zenon
    <3> QED BY <1>1, <2>3, <3>1, <3>2
  <2> HIDE DEF j0
  <2>4. (CHOOSE j \in parts : ds[j].ord = i) \in parts /\ ds[CHOOSE j \in parts : ds[j].ord = i].ord = i
    BY <2>2, Zenon
  <2> QED BY <2>3, <2>4, Zenon DEF j0
<1>7. ASSUME NEW i \in 1 .. p, NEW k \in 1 .. 13 PROVE part(i)[k] = Char(long, (i - 1) * 13 + k)
  <2>1. p + 1 - i \in 1 .. p /\ p - (p + 1 - i) = i - 1
    BY <1>1
  <2>2. part(i) = ds[m + (p + 1 - i)].chars
    BY <1>6, Zenon
  <2> HIDE DEF part
  <2>3. ds[m + (p + 1 - i)].chars[k] = Char(long, (p - (p + 1 - i)) * 13 + k)
    BY <1>2, <2>1, Zenon
  <2> QED BY <2>1, <2>2, <2>3, Zenon
<1> HIDE DEF part
<1>8. DOMAIN all = 1 .. p * 13 /\ \A i \in 1 .. p * 13 : all[i] = Char(long, i)
  <2>1. DOMAIN all = 1 .. p * 13
    BY <1>5, Zenon DEF chars_per_entry
  <2>2. ASSUME NEW i \in 1 .. p * 13 PROVE all[i] = Char(long, i)
    <3> DEFINE q == (i - 1) \div 13
               r == (i - 1) % 13
    <3>1. q + 1 \in 1 .. p /\ r + 1 \in 1 .. 13 /\ ((q + 1) - 1) * 13 + (r + 1) = i
      BY <1>1, Place, Zenon
    <3>2. all[i] = part(q + 1)[r + 1]
      BY <1>5, Zenon DEF chars_per_entry
    <3> HIDE DEF q, r, all
    <3>3. part(q + 1)[r + 1] = Char(long, ((q + 1) - 1) * 13 + (r + 1))
      BY <1>7, <3>1, Zenon
    <3> QED BY <3>1, <3>2, <3>3, Zenon
  <2> QED BY <2>1, <2>2, Zenon
<1>9. all = [i \in 1 .. p * 13 |-> all[i]]
  BY <1>5, Zenon DEF chars_per_entry
<1> HIDE DEF all, n
<1>10. ends = IF Len(long) < p * 13 THEN {Len(long) + 1} ELSE {}
  <2>1. \A i \in 1 .. p * 13 : Char(long, i) = NUL <=> i = Len(long) + 1
    BY <1>1 DEF Char, NUL, PAD
  <2>2. p * 13 \in Nat
    BY <1>1
  <2>3. ends = {i \in 1 .. p * 13 : i = Len(long) + 1}
    BY <1>8, <2>1, Zenon
  <2> HIDE DEF ends
  <2> QED BY <1>1, <2>2, <2>3
<1>11. ~({ds[j].ord : j \in parts} # 1 .. n
         \/ (n > 0 /\ ~(\E j \in parts : j = last - n /\ ds[j].ord = n /\ ds[j].last)))
  <2>1. {ds[j].ord : j \in parts} = 1 .. p
    <3>1. ASSUME NEW j \in parts PROVE ds[j].ord \in 1 .. p
      <4>1. j - m \in 1 .. p /\ m + (j - m) = j
        BY <1>1, <1>4
      <4>2. ds[j].ord = p + 1 - (j - m)
        BY <1>2, <4>1, Zenon
      <4> QED BY <1>1, <4>1, <4>2
    <3>2. ASSUME NEW i \in 1 .. p PROVE \E j \in parts : ds[j].ord = i
      <4>1. p + 1 - i \in 1 .. p /\ p + 1 - (p + 1 - i) = i /\ m + (p + 1 - i) \in m + 1 .. m + p
        BY <1>1
      <4> QED BY <1>2, <1>4, <4>1
    <3> QED BY <3>1, <3>2, Zenon
  <2>2. 1 \in 1 .. p /\ m + 1 \in parts /\ last - p = m + 1 /\ p + 1 - 1 = p
    BY <1>1, <1>4
  <2>3. ds[m + 1].ord = p /\ ds[m + 1].last
    BY <1>2, <2>2, Zenon
  <2> QED BY <1>5, <2>1, <2>2, <2>3, Zenon
<1>12. LongName(ds, last) = IF ends = {} THEN all
                            ELSE SubSeq(all, 1, (CHOOSE i \in ends : \A j \in ends : i <= j) - 1)
  <2> HIDE DEF last
  <2> QED BY <1>11, Zenon DEF LongName, parts, n, part, all, ends
<1>13. long = [i \in 1 .. Len(long) |-> long[i]]
  OBVIOUS
<1>14. \A i \in 1 .. Len(long) : i \in 1 .. p * 13 /\ all[i] = long[i]
  <2>1. \A i \in 1 .. Len(long) : Char(long, i) = long[i]
    BY <1>1 DEF Char
  <2> QED BY <1>1, <1>8, <2>1
<1>15. CASE Len(long) = p * 13
  <2>1. ends = {}
    BY <1>1, <1>10, <1>15
  <2>2. all = long
    BY <1>9, <1>13, <1>14, <1>15, Zenon
  <2> QED BY <1>12, <2>1, <2>2, Zenon DEF p
<1>16. CASE Len(long) < p * 13
  <2>1. ends = {Len(long) + 1}
    BY <1>10, <1>16, Zenon
  <2>2. (CHOOSE i \in ends : \A j \in ends : i <= j) = Len(long) + 1
    BY <1>1, <2>1, LeastOf
  <2>3. LongName(ds, last) = SubSeq(all, 1, Len(long))
    <3>1. ends # {}
      BY <2>1, Zenon
    <3>2. (Len(long) + 1) - 1 = Len(long)
      OBVIOUS
    <3> HIDE DEF ends, last
    <3> QED BY <1>12, <2>2, <3>1, <3>2, Zenon
  <2>4. SubSeq(all, 1, Len(long)) = [i \in 1 .. Len(long) |-> all[i]]
    <3>1. all \in Seq(Int) /\ Len(all) = p * 13
      <4>1. \A i \in 1 .. p * 13 : Char(long, i) \in Int
        BY <1>1 DEF Char, NUL, PAD
      <4>2. p * 13 \in Nat
        BY <1>1
      <4>3. \A i \in 1 .. p * 13 : all[i] \in Int
        BY <1>8, <4>1, Zenon
      <4>4. all \in [1 .. p * 13 -> Int]
        BY <1>9, <4>3, Zenon
      <4> HIDE DEF all
      <4> QED BY <4>2, <4>4
    <3> QED BY <1>1, <1>16, <3>1
  <2>5. [i \in 1 .. Len(long) |-> all[i]] = [i \in 1 .. Len(long) |-> long[i]]
    BY <1>14, Zenon
  <2> QED BY <1>13, <2>3, <2>4, <2>5, Zenon DEF p
<1> QED BY <1>1, <1>15, <1>16

\* A name of n different characters.
LEMMA Numbered ==
    ASSUME NEW n \in Nat \ {0}, NEW name, name = [i \in 1 .. n |-> 100 + i]
    PROVE  /\ name \in Seq(Int) /\ Len(name) = n /\ name # <<>>
           /\ \A i \in 1 .. Len(name) : name[i] # NUL
BY DEF NUL

\* The entries written for a name give the name back.
LEMMA NameRead ==
    ASSUME NEW name \in Seq(Int), name # <<>>, \A i \in 1 .. Len(name) : name[i] # NUL, NEW es,
           LfnResult(es, name, "SHORT~1", make_dir_entry("SHORT~1", ARCHIVE, 9, 1))
    PROVE  LongName(es, Len(es)) = name
<1>1. Len(name) \in Nat \ {0}
  OBVIOUS
<1> DEFINE p == Parts(name)
<1>2. p \in Nat \ {0}
  BY <1>1, PartCount
<1>3. Len(es) = p + 1 /\ es[p + 1] = make_dir_entry("SHORT~1", ARCHIVE, 9, 1)
  BY Zenon DEF LfnResult
<1>4. es[p + 1].name = "SHORT~1"
  BY <1>3 DEF make_dir_entry
<1>5. 0 \in Nat /\ (0 + p) + 1 = p + 1 /\ \A e \in 1 .. p : es[0 + e] = es[e]
  BY <1>2
<1>6. \A j \in 1 .. 0 : es[j].attr # LFN
  OBVIOUS
<1>7. HasParts(es, 0, name, "SHORT~1")
  BY <1>5, Zenon DEF HasParts, LfnResult
<1>8. es[(0 + p) + 1].name = "SHORT~1"
  BY <1>4, <1>5, Zenon
<1>9. LongName(es, (0 + p) + 1) = name
  BY <1>5, <1>6, <1>7, <1>8, LongNameOf, Zenon
<1> QED BY <1>3, <1>5, <1>9, Zenon

\* The names that LongNames is about.
LEMMA NamesKept == LongNames
<1> SUFFICES ASSUME NEW n \in 1 .. 3 * chars_per_entry, NEW name, name = [i \in 1 .. n |-> 100 + i],
                    NEW es, es = make_lfn_entries(name, "SHORT~1", ARCHIVE, 9, 1)
             PROVE  LongName(es, Len(es)) = name
  BY Zenon DEF LongNames
<1>1. n \in Nat \ {0}
  BY DEF chars_per_entry
<1>2. name \in Seq(Int) /\ Len(name) = n /\ name # <<>> /\ \A i \in 1 .. Len(name) : name[i] # NUL
  BY <1>1, Numbered, Zenon
<1>3. LfnResult(es, name, "SHORT~1", make_dir_entry("SHORT~1", ARCHIVE, 9, 1))
  <2>1. Len(name) \in Nat \ {0}
    BY <1>1, <1>2, Zenon
  <2> QED BY <2>1, LfnEntries, Zenon
<1> QED BY <1>3, <1>2, NameRead, Zenon

---------------------------------------------------------------------------
(* Looking files up *)

\* Entries that a lookup compares.
Matches(e, name) == e.attr \notin {LFN, VOLUME} /\ e.name = name

FirstMatch(es, n, k, name) ==
    /\ DOMAIN es = 1 .. n /\ k \in 1 .. n /\ Matches(es[k], name)
    /\ \A j \in 1 .. k - 1 : ~Matches(es[j], name)

LEMMA LookupFirst ==
    ASSUME GceInv, FirstInv, Finished, NEW dir \in Nat, dir \in DOMAIN data, NEW name,
           NEW n \in Nat, NEW k \in Nat, FirstMatch(data[dir], n, k, name)
    PROVE  fat32Lookup(dir, name) = data[dir][k]
<1> DEFINE es == readCluster(dir)
           H == {j \in DOMAIN es : Matches(es[j], name)}
<1>1. es = data[dir]
  BY ReadCluster, Zenon
<1>2. fat32Lookup(dir, name) = IF H = {} THEN make_dir_entry("", 0, 0, 0)
                               ELSE es[CHOOSE i \in H : \A j \in H : i <= j]
  BY Zenon DEF fat32Lookup, FirstOf, Matches
<1> HIDE DEF es
<1>3. k \in H /\ H \in SUBSET Int /\ \A j \in H : k <= j
  BY <1>1 DEF FirstMatch
<1>4. (CHOOSE i \in H : \A j \in H : i <= j) = k
  BY <1>3, LeastOf, Zenon
<1> HIDE DEF H
<1> QED BY <1>1, <1>2, <1>3, <1>4, Zenon

\* Two entries in front of others.
LEMMA BehindTwo ==
    ASSUME NEW a, NEW b, NEW m \in Nat, NEW s, s = [i \in 1 .. m |-> s[i]], NEW t, t = <<a, b>> \o s
    PROVE  /\ DOMAIN t = 1 .. m + 2 /\ t[1] = a /\ t[2] = b
           /\ \A i \in 1 .. m : t[2 + i] = s[i]
<1> DEFINE S == {a, b} \cup {s[i] : i \in 1 .. m}
<1>1. <<a, b>> \in Seq(S) /\ Len(<<a, b>>) = 2
  OBVIOUS
<1>2. s \in Seq(S) /\ Len(s) = m
  <2>1. \A i \in 1 .. m : s[i] \in S
    BY Zenon
  <2> HIDE DEF S
  <2>2. s \in [1 .. m -> S]
    BY <2>1, Zenon
  <2> QED BY <2>2
<1> HIDE DEF S
<1>3. t \in Seq(S) /\ Len(t) = 2 + m
  BY <1>1, <1>2
<1>4. \A i \in 1 .. 2 + m : t[i] = IF i <= 2 THEN <<a, b>>[i] ELSE s[i - 2]
  BY <1>1, <1>2
<1>5. DOMAIN t = 1 .. m + 2
  BY <1>3
<1>6. t[1] = a /\ t[2] = b
  BY <1>4
<1>7. ASSUME NEW i \in 1 .. m PROVE t[2 + i] = s[i]
  <2>1. 2 + i \in 1 .. 2 + m /\ ~(2 + i <= 2) /\ (2 + i) - 2 = i
    OBVIOUS
  <2> QED BY <1>4, <2>1, Zenon
<1> QED BY <1>5, <1>6, <1>7, Zenon

\* Where files and directories of a finished disk begin.
LEMMA Begins ==
    ASSUME FatInv, Finished
    PROVE  /\ first.root = 2 /\ first.efi = 3 /\ first.bootdir = 4 /\ first.zigix = 5
           /\ {"boot", "kernel"} \subseteq DOMAIN first
           /\ first.boot = 6 /\ first.kernel = 6 + BootClusters
           /\ 5 <= ESP_SECTORS /\ first.boot <= ESP_SECTORS /\ first.kernel <= ESP_SECTORS
           /\ first.kernel \in Nat
<1>1. /\ first["root"] = 2 /\ first["efi"] = 3 /\ first["bootdir"] = 4 /\ first["zigix"] = 5
      /\ "boot" \in DOMAIN first /\ "kernel" \in DOMAIN first
      /\ first["boot"] = 6 /\ first["kernel"] = 6 + BootClusters
  BY Zenon DEF FatInv, FirstInv, Finished, Writing
<1>2. next_cluster = 6 + BootClusters + KernelClusters /\ next_cluster - 2 <= data_clusters
  BY DoneFits, Zenon DEF FatInv
<1>3. BootClusters \in Nat \ {0} /\ KernelClusters \in Nat \ {0}
  BY ClustersPositive, Zenon DEF FatInv
<1>4. data_clusters <= ESP_SECTORS - 2 /\ ESP_SECTORS \in Nat /\ data_clusters \in Int
  BY Sizes DEF FatInv, GceInv, SizeInv, data_clusters, Clusters, num_fats
<1> HIDE DEF data_clusters
<1> QED BY <1>1, <1>2, <1>3, <1>4

\* The directories on the way to the two files.
LEMMA RootLookups ==
    ASSUME FatInv, DataInv, Finished
    PROVE  /\ Cluster(fat32Lookup(Mount.root, "EFI")) = 3
           /\ Cluster(fat32Lookup(Mount.root, "ZIGIX")) = 5
<1>1. 2 \in DOMAIN data /\ data[2] = RootEntries /\ Mount.root = 2
  BY Mounted, Zenon DEF FatInv, DataInv, Finished, Writing
<1>2. /\ first.efi = 3 /\ first.zigix = 5 /\ 5 <= ESP_SECTORS /\ ESP_SECTORS \in Nat
  BY Begins, Sizes, Zenon DEF FatInv, GceInv, SizeInv
<1> DEFINE t == RootEntries
           label == make_dir_entry("ZIGIX ESP", VOLUME, 0, 0)
           efi == make_dir_entry("EFI", DIRECTORY, 3, 0)
           zigix == make_dir_entry("ZIGIX", DIRECTORY, 5, 0)
<1>3. t = <<label, efi, zigix>>
  BY <1>2, Zenon DEF RootEntries
<1>4. DOMAIN t = 1 .. 3 /\ t[1] = label /\ t[2] = efi /\ t[3] = zigix
  <2> HIDE DEF t, label, efi, zigix
  <2> QED BY <1>3
<1>5. /\ ~Matches(label, "EFI") /\ ~Matches(label, "ZIGIX") /\ ~Matches(efi, "ZIGIX")
      /\ Matches(efi, "EFI") /\ Matches(zigix, "ZIGIX")
  BY DEF Matches, make_dir_entry, LFN, VOLUME, DIRECTORY
<1> HIDE DEF t, label, efi, zigix
<1>6. fat32Lookup(2, "EFI") = efi
  <2>1. \A j \in 1 .. 2 - 1 : ~Matches(t[j], "EFI")
    BY <1>4, <1>5
  <2>2. 2 \in 1 .. 3 /\ Matches(t[2], "EFI") /\ 2 \in Nat /\ 3 \in Nat
    BY <1>4, <1>5
  <2>3. FirstMatch(data[2], 3, 2, "EFI")
    BY <1>1, <1>4, <2>1, <2>2, Zenon DEF t, FirstMatch
  <2>4. fat32Lookup(2, "EFI") = data[2][2]
    BY <1>1, <2>2, <2>3, LookupFirst, Zenon DEF FatInv
  <2> QED BY <1>1, <1>4, <2>4, Zenon DEF t
<1>7. fat32Lookup(2, "ZIGIX") = zigix
  <2>1. \A j \in 1 .. 3 - 1 : ~Matches(t[j], "ZIGIX")
    BY <1>4, <1>5
  <2>2. 3 \in 1 .. 3 /\ Matches(t[3], "ZIGIX") /\ 2 \in Nat /\ 3 \in Nat
    BY <1>4, <1>5
  <2>3. FirstMatch(data[2], 3, 3, "ZIGIX")
    BY <1>1, <1>4, <2>1, <2>2, Zenon DEF t, FirstMatch
  <2>4. fat32Lookup(2, "ZIGIX") = data[2][3]
    BY <1>1, <2>2, <2>3, LookupFirst, Zenon DEF FatInv
  <2> QED BY <1>1, <1>4, <2>4, Zenon DEF t
<1>8. Cluster(efi) = 3 /\ Cluster(zigix) = 5
  BY <1>2, Halves DEF efi, zigix, FatInv
<1> QED BY <1>1, <1>6, <1>7, <1>8, Zenon

\* Two dots and one entry.
LEMMA ThirdFound ==
    ASSUME FatInv, Finished, NEW dir \in Nat, dir \in DOMAIN data, NEW own, NEW parent, NEW entry,
           NEW name, name \notin {".", ".."}, Matches(entry, name),
           data[dir] = Dots(own, parent) \o <<entry>>
    PROVE  fat32Lookup(dir, name) = entry
<1> DEFINE a == make_dir_entry(".", DIRECTORY, own, 0)
           b == make_dir_entry("..", DIRECTORY, parent, 0)
           s == <<entry>>
           t == data[dir]
<1>1. ~Matches(a, name) /\ ~Matches(b, name)
  BY Zenon DEF Matches, make_dir_entry
<1>2. t = <<a, b>> \o s
  BY Zenon DEF Dots
<1> HIDE DEF a, b
<1>3. s = [i \in 1 .. 1 |-> s[i]] /\ 1 \in Nat /\ s[1] = entry
  OBVIOUS
<1> HIDE DEF s, t
<1>4. DOMAIN t = 1 .. 1 + 2 /\ t[1] = a /\ t[2] = b /\ \A i \in 1 .. 1 : t[2 + i] = s[i]
  BY <1>2, <1>3, BehindTwo
<1>5. DOMAIN t = 1 .. 3 /\ t[3] = entry
  BY <1>3, <1>4
<1>6. \A j \in 1 .. 3 - 1 : ~Matches(t[j], name)
  BY <1>1, <1>4
<1>7. 3 \in 1 .. 3 /\ 3 \in Nat /\ Matches(t[3], name)
  BY <1>5
<1>8. FirstMatch(data[dir], 3, 3, name)
  BY <1>5, <1>6, <1>7, Zenon DEF t, FirstMatch
<1>9. fat32Lookup(dir, name) = data[dir][3]
  BY <1>7, <1>8, LookupFirst, Zenon DEF FatInv
<1> QED BY <1>5, <1>9, Zenon DEF t

\* The boot loader, under EFI/BOOT.
LEMMA FoundBoot ==
    ASSUME FatInv, DataInv, Finished
    PROVE  Bootloader = make_dir_entry("BOOTAA64EFI", ARCHIVE, first.boot, input.boot)
<1>1. /\ {3, 4} \subseteq DOMAIN data /\ data[3] = EfiEntries /\ data[4] = BootEntries
  BY Zenon DEF DataInv, Finished, Writing
<1>2. /\ first.bootdir = 4 /\ 4 <= ESP_SECTORS /\ ESP_SECTORS \in Nat
  BY Begins, Sizes DEF FatInv, GceInv, SizeInv
<1> DEFINE bootdir == make_dir_entry("BOOT", DIRECTORY, first.bootdir, 0)
           boot == make_dir_entry("BOOTAA64EFI", ARCHIVE, first.boot, input.boot)
<1>3. /\ Matches(bootdir, "BOOT") /\ Matches(boot, "BOOTAA64EFI")
      /\ "BOOT" \notin {".", ".."} /\ "BOOTAA64EFI" \notin {".", ".."}
  BY DEF Matches, make_dir_entry, LFN, VOLUME, DIRECTORY, ARCHIVE
<1>4. /\ data[3] = Dots(first.efi, first.root) \o <<bootdir>>
      /\ data[4] = Dots(first.bootdir, first.efi) \o <<boot>>
  BY <1>1, Zenon DEF EfiEntries, BootEntries
<1>5. Cluster(bootdir) = 4
  BY <1>2, Halves DEF FatInv
<1> HIDE DEF bootdir, boot
<1>6. 3 \in Nat /\ 4 \in Nat /\ 3 \in DOMAIN data /\ 4 \in DOMAIN data
  BY <1>1, Zenon
<1>7. fat32Lookup(3, "BOOT") = bootdir
  <2>1. data[3] = Dots(first.efi, first.root) \o <<bootdir>>
    BY <1>4, Zenon
  <2>2. Matches(bootdir, "BOOT") /\ "BOOT" \notin {".", ".."}
    BY <1>3, Zenon
  <2> QED BY <1>6, <2>1, <2>2, ThirdFound
<1>8. fat32Lookup(4, "BOOTAA64EFI") = boot
  BY <1>3, <1>4, <1>6, ThirdFound
<1>9. Cluster(fat32Lookup(Mount.root, "EFI")) = 3
  BY RootLookups, Zenon
<1> QED BY <1>5, <1>7, <1>8, <1>9, Zenon DEF Bootloader, boot

\* The kernel, under its long name in the directory of its own.
LEMMA FoundKernel ==
    ASSUME FatInv, DataInv, Finished
    PROVE  LET e == make_dir_entry("ZIGIX-~1", ARCHIVE, first.kernel, input.kernel)
               es == readCluster(ZigixDir)
           IN  Kernel = e /\ 4 \in DOMAIN es /\ es[4] = e /\ LongName(es, 4) = KernelName
<1> DEFINE e == make_dir_entry("ZIGIX-~1", ARCHIVE, first.kernel, input.kernel)
           lfn == make_lfn_entries(KernelName, "ZIGIX-~1", ARCHIVE, first.kernel, input.kernel)
           a == make_dir_entry(".", DIRECTORY, first.zigix, 0)
           b == make_dir_entry("..", DIRECTORY, first.root, 0)
           t == data[5]
<1>1. 5 \in DOMAIN data /\ 5 \in Nat /\ t = ZigixEntries
  BY Zenon DEF DataInv, Finished, Writing
<1>2. t = <<a, b>> \o lfn
  BY <1>1, Zenon DEF ZigixEntries, Dots
<1>3. KernelName \in Seq(Int) /\ Len(KernelName) = 13 /\ KernelName # <<>>
      /\ \A i \in 1 .. Len(KernelName) : KernelName[i] # NUL
  <2>1. 13 \in Nat \ {0}
    OBVIOUS
  <2>2. KernelName = [i \in 1 .. 13 |-> 100 + i]
    BY Zenon DEF KernelName
  <2> QED BY <2>1, <2>2, Numbered, Zenon
<1>4. Parts(KernelName) = 1
  BY <1>3 DEF Parts, Ceil, chars_per_entry
<1>5. LfnResult(lfn, KernelName, "ZIGIX-~1", e)
  <2>1. Len(KernelName) \in Nat \ {0}
    BY <1>3
  <2> QED BY <2>1, LfnEntries, Zenon
<1>6. /\ Matches(e, "ZIGIX-~1") /\ e.name = "ZIGIX-~1"
      /\ ~Matches(a, "ZIGIX-~1") /\ ~Matches(b, "ZIGIX-~1") /\ a.attr # LFN /\ b.attr # LFN
  BY DEF Matches, make_dir_entry, LFN, VOLUME, DIRECTORY, ARCHIVE
<1> HIDE DEF e, lfn, a, b, t
<1>7. lfn = [i \in 1 .. 2 |-> lfn[i]] /\ lfn[2] = e /\ IsPart(lfn[1], 1, KernelName, "ZIGIX-~1")
  <2>1. 1 + 1 = 2 /\ 1 \in 1 .. 1
    OBVIOUS
  <2> QED BY <1>4, <1>5, <2>1, Zenon DEF LfnResult
<1>8. DOMAIN t = 1 .. 2 + 2 /\ t[1] = a /\ t[2] = b /\ \A i \in 1 .. 2 : t[2 + i] = lfn[i]
  <2>1. 2 \in Nat
    BY Zenon
  <2> HIDE DEF IsPart
  <2> QED BY <1>2, <1>7, <2>1, BehindTwo
<1>9. DOMAIN t = 1 .. 4 /\ t[3] = lfn[1] /\ t[4] = e
  <2> HIDE DEF IsPart
  <2> QED BY <1>7, <1>8
<1>10. ~Matches(t[3], "ZIGIX-~1")
  BY <1>7, <1>9, Zenon DEF IsPart, Matches
<1>11. FirstMatch(t, 4, 4, "ZIGIX-~1")
  <2>1. \A j \in 1 .. 4 - 1 : j = 1 \/ j = 2 \/ j = 3
    OBVIOUS
  <2>2. 4 \in 1 .. 4
    OBVIOUS
  <2> QED BY <1>6, <1>8, <1>9, <1>10, <2>1, <2>2, Zenon DEF FirstMatch
<1>12. fat32Lookup(5, "ZIGIX-~1") = e
  <2>1. 4 \in Nat
    BY Zenon
  <2>2. fat32Lookup(5, "ZIGIX-~1") = data[5][4]
    BY <1>1, <1>11, <2>1, LookupFirst, Zenon DEF t, FatInv
  <2> QED BY <1>9, <2>2, Zenon DEF t
<1>13. ZigixDir = 5 /\ readCluster(5) = t
  BY <1>1, RootLookups, ReadCluster, Zenon DEF ZigixDir, t, FatInv
<1>14. HasParts(t, 2, KernelName, "ZIGIX-~1")
  <2>1. \A i \in 1 .. 1 : i = 1 /\ t[2 + i] = lfn[1]
    BY <1>9
  <2> QED BY <1>4, <1>7, <2>1, Zenon DEF HasParts
<1>15. LongName(t, 4) = KernelName
  <2>1. \A j \in 1 .. 2 : t[j].attr # LFN
    BY <1>6, <1>8
  <2>2. (2 + Parts(KernelName)) + 1 = 4 /\ 2 \in Nat
    BY <1>4
  <2>3. t[(2 + Parts(KernelName)) + 1].name = "ZIGIX-~1"
    BY <1>6, <1>9, <2>2, Zenon
  <2>4. LongName(t, (2 + Parts(KernelName)) + 1) = KernelName
    BY <1>3, <1>14, <2>1, <2>2, <2>3, LongNameOf, Zenon
  <2> QED BY <2>2, <2>4, Zenon
<1>16. 4 \in DOMAIN t
  BY <1>9
<1> QED BY <1>9, <1>12, <1>13, <1>15, <1>16, Zenon DEF Kernel, e

\* Reading a file that begins where the table says gives all its parts.
LEMMA ReadFile ==
    ASSUME FatInv, DataInv, Finished, NEW f \in {"boot", "kernel"}, NEW e,
           e.size = input[f], Cluster(e) = first[f]
    PROVE  fat32Read(e) = [k \in 1 .. Ceil(input[f], cluster_size) |-> Chunk(f, k - 1)]
<1> DEFINE size == input[f]
           n == Ceil(size, cluster_size)
           c == first[f]
           len == ChainLen(f)
<1>1. size \in Nat /\ SECTOR_SIZE \in Nat \ {0}
  BY InputNat, Sizes, Zenon DEF FatInv, GceInv
<1>2. n \in Nat /\ \A k \in 1 .. n : (k - 1) * SECTOR_SIZE < size
  <2> HIDE DEF size
  <2>1. \A k \in Int : n \in Int /\ (n > k <=> size > k * SECTOR_SIZE)
    BY <1>1, CeilAbove DEF cluster_size
  <2>2. -1 \in Int /\ size > (-1) * SECTOR_SIZE
    BY <1>1
  <2> HIDE DEF n
  <2>3. n \in Nat
    BY <2>1, <2>2
  <2>4. ASSUME NEW k \in 1 .. n PROVE (k - 1) * SECTOR_SIZE < size
    <3>1. k - 1 \in Int /\ n > k - 1
      BY <2>3
    <3>2. (k - 1) * SECTOR_SIZE \in Int
      BY <1>1, <3>1
    <3>3. size > (k - 1) * SECTOR_SIZE
      BY <2>1, <3>1, Zenon
    <3> QED BY <1>1, <3>2, <3>3, Zenon
  <2> QED BY <2>3, <2>4
<1>3. len = Max2(1, n)
  BY Zenon DEF ChainLen, BootClusters, KernelClusters, num_clusters
<1>4. f \in DOMAIN first
  BY Begins, Zenon
<1>5. /\ c \in 2 .. next_cluster - 1 /\ len \in Nat \ {0} /\ c + len <= next_cluster
      /\ \A i \in 0 .. len - 2 : nextCluster(c + i) = c + i + 1
      /\ nextCluster(c + len - 1) = NoCluster
  BY <1>4, Chains, Zenon
<1>6. next_cluster \in Nat /\ c \in Nat \ {0}
  BY <1>5 DEF FatInv, GceInv, CountInv
<1>7. Walk(n, c) = [i \in 1 .. Min2(n, len) |-> c + i - 1]
  <2> HIDE DEF n, c, len
  <2> QED BY <1>2, <1>5, <1>6, WalkChain, Zenon
<1>8. Min2(n, len) = n /\ (n > 0 => len = n)
  <2> HIDE DEF n, len
  <2> QED BY <1>2, <1>3 DEF Min2, Max2
<1>9. Walk(n, c) = [i \in 1 .. n |-> c + i - 1]
  BY <1>7, <1>8, Zenon
<1>10. fat32Read(e) = [k \in 1 .. Len(Walk(n, c)) |-> readCluster(Walk(n, c)[k])]
  BY Zenon DEF fat32Read, Cluster
<1>11. Len(Walk(n, c)) = n /\ \A k \in 1 .. n : Walk(n, c)[k] = c + k - 1
  <2> HIDE DEF n, c
  <2> QED BY <1>2, <1>6, <1>9
<1>12. ASSUME NEW k \in 1 .. n PROVE readCluster(c + k - 1) = Chunk(f, k - 1)
  <2> DEFINE d == c + k - 1
  <2>1. BootClusters \in Nat /\ next_cluster = 6 + BootClusters + KernelClusters
        /\ next_cluster - 2 <= data_clusters
    BY DoneFits, ClustersPositive, Zenon DEF FatInv
  <2>2. /\ first["boot"] = 6 /\ first["kernel"] = 6 + BootClusters
    BY Begins, Zenon
  <2>3. n > 0 /\ len = n /\ (k - 1) * SECTOR_SIZE < size
    <3> HIDE DEF n, len, size
    <3> QED BY <1>2, <1>8
  <2>4. \A x \in 6 .. next_cluster - 1 :
           IF x < 6 + BootClusters THEN BootPart(x) ELSE KernelPart(x)
    BY <2>1, Zenon DEF DataInv, Finished, Writing
  <2>5. d \in 6 .. next_cluster - 1 /\ d \in Nat /\ k \in Nat /\ k - 1 \in Nat
    <3>1. c >= 6
      BY <2>1, <2>2
    <3> HIDE DEF n, c, len
    <3> QED BY <1>2, <1>5, <1>6, <2>3, <3>1
  <2>6. d \in DOMAIN data /\ data[d] = Chunk(f, k - 1)
    <3>1. CASE f = "boot"
      <4>1. c = 6 /\ len = BootClusters /\ size = input.boot
        BY <2>2, <3>1, Zenon DEF ChainLen
      <4>2. d - 6 = k - 1 /\ d < 6 + BootClusters
        <5> HIDE DEF n, c, len
        <5> QED BY <1>2, <2>1, <2>3, <2>5, <4>1
      <4> HIDE DEF d, n, c, len, size
      <4> QED BY <2>3, <2>4, <2>5, <3>1, <4>1, <4>2 DEF BootPart, cluster_size
    <3>2. CASE f = "kernel"
      <4>1. c = 6 + BootClusters /\ size = input.kernel
        BY <2>2, <3>2, Zenon
      <4>2. d - (6 + BootClusters) = k - 1 /\ ~(d < 6 + BootClusters)
        <5> HIDE DEF n, c
        <5> QED BY <1>2, <2>1, <2>5, <4>1
      <4> HIDE DEF d, n, c, len, size
      <4> QED BY <2>3, <2>4, <2>5, <3>2, <4>1, <4>2 DEF KernelPart, cluster_size
    <3> QED BY <3>1, <3>2, Zenon
  <2> HIDE DEF d
  <2>7. readCluster(d) = data[d]
    BY <2>5, <2>6, ReadCluster, Zenon DEF FatInv
  <2> QED BY <2>6, <2>7, Zenon DEF d
<1> HIDE DEF n, c, len, size
<1>13. fat32Read(e) = [k \in 1 .. n |-> Chunk(f, k - 1)]
  BY <1>10, <1>11, <1>12, Zenon
<1> QED BY <1>13, Zenon DEF n, size

LEMMA FilesRead == ASSUME FatInv, DataInv PROVE EspReadBack
<1> SUFFICES ASSUME Finished PROVE EspReadBack
  BY Zenon DEF EspReadBack
<1> DEFINE whole(f) == [k \in 1 .. Ceil(input[f], cluster_size) |-> Chunk(f, k - 1)]
           boot == make_dir_entry("BOOTAA64EFI", ARCHIVE, first.boot, input.boot)
           kernel == make_dir_entry("ZIGIX-~1", ARCHIVE, first.kernel, input.kernel)
<1>1. boot.size = input["boot"] /\ kernel.size = input["kernel"]
  BY Zenon DEF make_dir_entry
<1>2. Cluster(boot) = first["boot"] /\ Cluster(kernel) = first["kernel"]
  BY Begins, Halves DEF FatInv
<1>3. Bootloader = boot
  BY FoundBoot, Zenon
<1>4. Kernel = kernel /\ 4 \in DOMAIN readCluster(ZigixDir) /\ readCluster(ZigixDir)[4] = kernel
      /\ LongName(readCluster(ZigixDir), 4) = KernelName
  BY FoundKernel, Zenon
<1> HIDE DEF boot, kernel
<1>5. fat32Read(boot) = whole("boot") /\ fat32Read(kernel) = whole("kernel")
  BY <1>1, <1>2, ReadFile, Zenon
<1> HIDE DEF whole
<1>6. /\ \A e \in {Bootloader} : e.size = input.boot /\ fat32Read(e) = whole("boot")
      /\ \A e \in {Kernel}, es \in {readCluster(ZigixDir)} :
            /\ e.size = input.kernel /\ fat32Read(e) = whole("kernel")
            /\ \E k \in DOMAIN es : es[k] = e /\ LongName(es, k) = KernelName
  BY <1>1, <1>3, <1>4, <1>5, Zenon
<1> QED BY <1>6, Zenon DEF EspReadBack, whole

\* write_file_to_clusters, make_dir_entry, make_lfn_entries: whatever the sizes
\* of the files, the kernel's FAT driver finds both of them on a finished disk
\* and reads their bytes, and the parts of a long name give the name back.
THEOREM GceEspFiles == 0 \notin KernelSizes => (Spec => []EspFiles)
<1> SUFFICES ASSUME 0 \notin KernelSizes PROVE Spec => []EspFiles
  BY Zenon
<1>1. Init => GrownInv /\ TableInv /\ FirstInv /\ DataInv
  BY Zenon DEF Init, GrownInv, TableInv, FirstInv, DataInv, Writing
<1>2. /\ GceInv /\ GceInv' /\ GrownInv /\ TableInv /\ FirstInv /\ DataInv /\ [Next]_vars
      => (GrownInv /\ TableInv /\ FirstInv /\ DataInv)'
  BY GrownStep, TableStep, FirstStep, DataStep
<1>3. GceInv /\ GrownInv /\ TableInv /\ FirstInv /\ DataInv => EspFiles
  BY FilesRead, NamesKept, Zenon DEF FatInv, EspFiles
<1> QED BY <1>1, <1>2, <1>3, GceAlways, PTL DEF Spec
====
