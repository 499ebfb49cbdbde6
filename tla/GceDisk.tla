------------------------------ MODULE GceDisk ------------------------------
(***************************************************************************)
(* make_gce_disk.py: a disk with a GUID partition table (GPT), a FAT32     *)
(* system partition (ESP) that holds boot loader and kernel, and a root    *)
(* partition.  The script allocates clusters without a limit.  What stops  *)
(* it on files that are too large is that the bytearray of the ESP grows,  *)
(* and the file position asserted before the root partition is then wrong. *)
(*                                                                         *)
(* A file is its size in bytes, and a chunk of it is its number and        *)
(* length.  A checksum is what it is computed from.  ESP_SECTORS is a      *)
(* constant of the script and a variable here, so that one run covers      *)
(* several sizes.                                                          *)
(***************************************************************************)
EXTENDS Integers, Sequences, FiniteSets

CONSTANTS SECTOR_SIZE,        \* 512
          RESERVED,           \* reserved_sectors, 32
          FSINFO_USED,        \* clusters FSInfo takes for used, 10
          TOTAL_SECTORS,      \* of the disk
          GPT_NUM_ENTRIES,    \* 128
          GPT_ENTRY_SIZE,     \* 128
          U16,                \* 2^16
          EspSizes,           \* values of ESP_SECTORS
          BootSizes, KernelSizes, RootSizes  \* sizes of the input files

Ceil(a, b) == (a + b - 1) \div b
Min2(a, b) == IF a < b THEN a ELSE b
Max2(a, b) == IF a < b THEN b ELSE a

ASSUME GceAssumption ==
    /\ {SECTOR_SIZE, RESERVED, FSINFO_USED, TOTAL_SECTORS, GPT_NUM_ENTRIES,
        GPT_ENTRY_SIZE, U16} \subseteq Nat \ {0}
    /\ SECTOR_SIZE % 4 = 0 /\ GPT_ENTRY_SIZE <= SECTOR_SIZE /\ GPT_NUM_ENTRIES >= 2
    /\ \A e \in EspSizes :
          /\ RESERVED <= e /\ e < U16 * U16
          /\ e + 2 * Ceil(GPT_NUM_ENTRIES * GPT_ENTRY_SIZE, SECTOR_SIZE) + 3 < TOTAL_SECTORS
    /\ EspSizes \cup BootSizes \cup KernelSizes \cup RootSizes \subseteq Nat

VARIABLES pc, ESP_SECTORS, input, fat_size, bpb, fat, data, esp_len, next_cluster,
          chunk, first, gpt, disk
vars == <<pc, ESP_SECTORS, input, fat_size, bpb, fat, data, esp_len, next_cluster,
          chunk, first, gpt, disk>>

---------------------------------------------------------------------------
(* Layout *)

num_fats == 2
cluster_size == SECTOR_SIZE        \* one sector per cluster
END == -1                          \* 0x0FFFFFFF
MEDIA == -2                        \* 0x0FFFFFF8
GPT_HEADER_LBA == 1
GPT_ENTRIES_START_LBA == 2
GPT_ENTRIES_SECTORS == Ceil(GPT_NUM_ENTRIES * GPT_ENTRY_SIZE, SECTOR_SIZE)
ESP_START_LBA == GPT_ENTRIES_START_LBA + GPT_ENTRIES_SECTORS
ESP_END_LBA == ESP_START_LBA + ESP_SECTORS - 1
ROOT_START_LBA == ESP_END_LBA + 1
ROOT_END_LBA == TOTAL_SECTORS - GPT_ENTRIES_SECTORS - 2
root_size == (ROOT_END_LBA - ROOT_START_LBA + 1) * SECTOR_SIZE

\* The first guess at the size of a FAT, in sectors.
Guess(sectors) ==
    (((sectors - RESERVED) * 4) \div SECTOR_SIZE + num_fats * 4)
        \div (num_fats * SECTOR_SIZE + 4) + 1

\* The clusters left by FATs of k sectors.
Clusters(k) == ESP_SECTORS - (RESERVED + num_fats * k)

\* Mutant: the two reserved entries of a FAT are forgotten.
needed_sectors_bare(k) == Ceil(Clusters(k) * 4, SECTOR_SIZE)

\* The sectors their entries need.
needed_sectors(k) == Ceil((Clusters(k) + 2) * 4, SECTOR_SIZE)

data_start_sector == RESERVED + num_fats * fat_size
data_clusters == Clusters(fat_size)
cluster_offset(c) == data_start_sector * SECTOR_SIZE + (c - 2) * cluster_size

---------------------------------------------------------------------------
(* The FATs are one array of entries, the second copy behind the first.  A *)
(* cluster number beyond a copy reaches into what follows it.              *)

PerSector == SECTOR_SIZE \div 4
Slot(copy, c) == copy * fat_size * PerSector + c
Slots == num_fats * fat_size * PerSector

\* A value written to some places.
Put(f, places, v) == [x \in DOMAIN f \cup places |-> IF x \in places THEN v ELSE f[x]]

\* set_fat_entry writes both copies.
set_fat_entry(f, c, value) ==
    LET hits == {Slot(copy, c) : copy \in 0 .. num_fats - 1}
    IN  [fat |-> Put(f.fat, {s \in hits : s < Slots}, value),
         data |-> Put(f.data, {2 + (s - Slots) \div PerSector : s \in {s \in hits : s >= Slots}},
                      "fat entry")]

\* Part i of a file, cut at the end of the file.
Chunk(file, i) == [file |-> file, i |-> i,
                   len |-> Min2(cluster_size, input[file] - i * cluster_size)]

\* Mutant: the last, partial cluster is not counted.
num_clusters_floor(size) == Max2(1, size \div cluster_size)

\* An empty file has one cluster.
num_clusters(size) == Max2(1, Ceil(size, cluster_size))

\* Mutant: the last cluster is linked too.
Link_last(i, n, c) == IF i < n THEN c + 1 ELSE END

\* A cluster is linked to the next one, the last one ends the chain.
Link(i, n, c) == IF i < n - 1 THEN c + 1 ELSE END

\* Mutant: the write is cut at the end of the partition.
Assign_cut(start, len) == esp_len

\* A slice assignment behind the end of the bytearray appends to it.
Assign(start, len) == Max2(esp_len, Min2(start, esp_len) + len)

---------------------------------------------------------------------------
(* Directory entries *)

DIRECTORY == 16
VOLUME == 8
ARCHIVE == 32
LFN == 15
chars_per_entry == 13
NUL == 0
PAD == 255

\* "zigix-aarch64", one number for each of its thirteen characters.
KernelName == [i \in 1 .. 13 |-> 100 + i]

\* make_dir_entry: the cluster number is stored in two halves.
make_dir_entry(name, attr, cluster, size) ==
    [name |-> name, attr |-> attr, hi |-> (cluster \div U16) % U16, lo |-> cluster % U16,
     size |-> size]

\* make_lfn_entries: the long name in entries of 13 characters, last part first,
\* then the short entry.  A part that is not full ends in NUL and padding.
make_lfn_entries(long, short, attr, cluster, size) ==
    LET num_lfn == Ceil(Len(long), chars_per_entry)
        char(k) == IF k <= Len(long) THEN long[k] ELSE IF k = Len(long) + 1 THEN NUL ELSE PAD
        part(seq) == [ord |-> seq, last |-> seq = num_lfn, attr |-> LFN, cksum |-> short,
                      chars |-> [k \in 1 .. chars_per_entry |->
                                    char((seq - 1) * chars_per_entry + k)]]
    IN  [e \in 1 .. num_lfn |-> part(num_lfn + 1 - e)]
            \o <<make_dir_entry(short, attr, cluster, size)>>

RootEntries == <<make_dir_entry("ZIGIX ESP", VOLUME, 0, 0),
                 make_dir_entry("EFI", DIRECTORY, first.efi, 0),
                 make_dir_entry("ZIGIX", DIRECTORY, first.zigix, 0)>>
Dots(own, parent) == <<make_dir_entry(".", DIRECTORY, own, 0),
                       make_dir_entry("..", DIRECTORY, parent, 0)>>
EfiEntries == Dots(first.efi, first.root) \o <<make_dir_entry("BOOT", DIRECTORY, first.bootdir, 0)>>
BootEntries == Dots(first.bootdir, first.efi)
               \o <<make_dir_entry("BOOTAA64EFI", ARCHIVE, first.boot, input.boot)>>
ZigixEntries == Dots(first.zigix, first.root)
                \o make_lfn_entries(KernelName, "ZIGIX-~1", ARCHIVE, first.kernel, input.kernel)

---------------------------------------------------------------------------
(* Partition table *)

EFI_SYSTEM_GUID == <<193, 42, 115, 40, 248, 31, 17, 210, 186, 75, 0, 160, 201, 62, 201, 59>>
LINUX_FS_GUID == <<15, 198, 61, 175, 132, 131, 71, 114, 142, 121, 61, 105, 216, 71, 125, 228>>

\* Mutant: the bytes in the order in which the GUID is written.
guid_plain(b) == b

\* The first three components are stored with the least byte first.
guid_to_mixed_endian(b) ==
    [k \in 1 .. 16 |-> IF k <= 4 THEN b[5 - k] ELSE IF k <= 6 THEN b[11 - k]
                       ELSE IF k <= 8 THEN b[15 - k] ELSE b[k]]

Entries == <<[type |-> guid_to_mixed_endian(EFI_SYSTEM_GUID),
              start |-> ESP_START_LBA, end |-> ESP_END_LBA],
             [type |-> guid_to_mixed_endian(LINUX_FS_GUID),
              start |-> ROOT_START_LBA, end |-> ROOT_END_LBA]>>

\* A header whose checksum is computed over the rest of it, the checksum
\* field being what it is at that time.
Sealed(h) == [h EXCEPT !.crc = <<h>>]
Header == Sealed([my |-> GPT_HEADER_LBA, alternate |-> TOTAL_SECTORS - 1,
                  first |-> ESP_START_LBA, last |-> ROOT_END_LBA,
                  entries_lba |-> GPT_ENTRIES_START_LBA, num |-> GPT_NUM_ENTRIES,
                  size |-> GPT_ENTRY_SIZE, entries_crc |-> Entries, crc |-> <<>>])
backup_entries_lba == TOTAL_SECTORS - GPT_ENTRIES_SECTORS - 1

\* Mutant: the checksum of the primary header is not cleared first.
BackupUncleared(h) == Sealed([h EXCEPT !.my = TOTAL_SECTORS - 1, !.alternate = GPT_HEADER_LBA,
                                       !.entries_lba = backup_entries_lba])

\* The backup header is the primary one with its places exchanged.
Backup(h) == Sealed([h EXCEPT !.crc = <<>>, !.my = TOTAL_SECTORS - 1,
                              !.alternate = GPT_HEADER_LBA,
                              !.entries_lba = backup_entries_lba])

make_gpt == [primary |-> Header, entries |-> Entries, backup |-> Backup(Header)]

make_protective_mbr == [start |-> 1, sectors |-> TOTAL_SECTORS - 1]

---------------------------------------------------------------------------
(* The script *)

None == [none |-> TRUE]

Init ==
    /\ pc = "fat_size"
    /\ ESP_SECTORS \in EspSizes
    /\ input \in [boot : BootSizes, kernel : KernelSizes, root : RootSizes]
    /\ fat_size = Guess(ESP_SECTORS)
    /\ bpb = None /\ fat = <<>> /\ data = <<>>
    /\ esp_len = ESP_SECTORS * SECTOR_SIZE
    /\ next_cluster = 2 /\ chunk = 0
    /\ first = <<>> /\ gpt = None /\ disk = <<>>

\* The loop that raises the size of the FATs until they cover the clusters.
GrowFat ==
    /\ pc = "fat_size"
    /\ needed_sectors(fat_size) > fat_size
    /\ fat_size' = fat_size + 1
    /\ UNCHANGED <<pc, ESP_SECTORS, input, bpb, fat, data, esp_len, next_cluster, chunk,
                   first, gpt, disk>>

\* Boot sector and FSInfo.  The free count is an unsigned number, and packing
\* a negative one raises an exception.
WriteBpb ==
    /\ pc = "fat_size"
    /\ needed_sectors(fat_size) <= fat_size
    /\ IF data_clusters < FSINFO_USED THEN pc' = "failed" /\ UNCHANGED bpb
       ELSE /\ pc' = "dirs"
            /\ bpb' = [reserved |-> RESERVED, num_fats |-> num_fats, fat_size_32 |-> fat_size,
                       root_cluster |-> 2]
    /\ UNCHANGED <<ESP_SECTORS, input, fat_size, fat, data, esp_len, next_cluster, chunk,
                   first, gpt, disk>>

\* The entries of clusters 0 and 1, which do not exist.
ReservedEntries(f) == set_fat_entry(set_fat_entry(f, 0, MEDIA), 1, END)

\* The reserved entries and the four directories, one cluster each.
AllocDirs ==
    /\ pc = "dirs"
    /\ LET s0 == ReservedEntries([fat |-> fat, data |-> data])
           s1 == set_fat_entry(set_fat_entry(s0, 2, END), 3, END)
           s2 == set_fat_entry(set_fat_entry(s1, 4, END), 5, END)
       IN  fat' = s2.fat /\ data' = s2.data
    /\ first' = [root |-> 2, efi |-> 3, bootdir |-> 4, zigix |-> 5]
    /\ next_cluster' = 6
    /\ pc' = "boot"
    /\ UNCHANGED <<ESP_SECTORS, input, fat_size, bpb, esp_len, chunk, gpt, disk>>

\* One turn of the loop of write_file_to_clusters for a file.
WriteCluster(file, next) ==
    LET c == next_cluster
        n == num_clusters(input[file])
        off == cluster_offset(c)
        some == chunk * cluster_size < input[file]
        piece == Chunk(file, chunk)
        d == IF some /\ off <= esp_len THEN Put(data, {c}, piece) ELSE data
        s == set_fat_entry([fat |-> fat, data |-> d], c, Link(chunk, n, c))
    IN  /\ pc = file
        /\ fat' = s.fat /\ data' = s.data
        /\ esp_len' = IF some THEN Assign(off, piece.len) ELSE esp_len
        /\ first' = IF chunk = 0 THEN Put(first, {file}, c) ELSE first
        /\ next_cluster' = c + 1
        /\ IF chunk < n - 1 THEN chunk' = chunk + 1 /\ pc' = pc
                            ELSE chunk' = 0 /\ pc' = next
        /\ UNCHANGED <<ESP_SECTORS, input, fat_size, bpb, gpt, disk>>

\* The contents of the four directories, and the partition table.
WriteDirs ==
    /\ pc = "entries"
    /\ LET top == Put(Put(data, {first.root}, RootEntries), {first.efi}, EfiEntries)
       IN  data' = Put(Put(top, {first.bootdir}, BootEntries), {first.zigix}, ZigixEntries)
    /\ gpt' = make_gpt
    /\ pc' = "head"
    /\ UNCHANGED <<ESP_SECTORS, input, fat_size, bpb, fat, esp_len, next_cluster, chunk, first,
                   disk>>

\* What has been written to the output file, and f.tell().
Tell == IF disk = <<>> THEN 0 ELSE disk[Len(disk)].at + disk[Len(disk)].len
Segment(what, len, c) == [at |-> Tell, what |-> what, len |-> len, c |-> c]
Same == UNCHANGED <<ESP_SECTORS, input, fat_size, bpb, fat, data, esp_len, next_cluster,
                    chunk, first, gpt>>

\* MBR, primary header, entries and their padding.
WriteHead ==
    /\ pc = "head"
    /\ disk' = <<[at |-> 0, what |-> "mbr", len |-> SECTOR_SIZE, c |-> make_protective_mbr],
                 [at |-> SECTOR_SIZE, what |-> "header", len |-> SECTOR_SIZE, c |-> gpt.primary],
                 [at |-> 2 * SECTOR_SIZE, what |-> "entries",
                  len |-> GPT_ENTRIES_SECTORS * SECTOR_SIZE, c |-> gpt.entries]>>
    /\ pc' = "esp"
    /\ Same

\* Each part is preceded by an assertion on the position of the file.
WritePart(at, lba, seg, next) ==
    /\ pc = at
    /\ IF Tell = lba * SECTOR_SIZE THEN disk' = Append(disk, seg) /\ pc' = next
                                   ELSE disk' = disk /\ pc' = "failed"
    /\ Same

WriteEsp == WritePart("esp", ESP_START_LBA, Segment("esp", esp_len, "esp"), "root")

\* The root image is padded, cut with a warning, or absent.
WriteRoot ==
    WritePart("root", ROOT_START_LBA,
              Segment("root", root_size, Min2(input.root, root_size)), "backup")

\* The backup entries and, without another assertion, the backup header.
WriteBackup ==
    /\ pc = "backup"
    /\ IF Tell = backup_entries_lba * SECTOR_SIZE
       THEN LET e == Segment("entries", GPT_ENTRIES_SECTORS * SECTOR_SIZE, gpt.entries)
            IN  disk' = disk \o <<e, [at |-> e.at + e.len, what |-> "header",
                                      len |-> SECTOR_SIZE, c |-> gpt.backup]>>
                /\ pc' = "done"
       ELSE disk' = disk /\ pc' = "failed"
    /\ Same

Ended == pc \in {"done", "failed"} /\ UNCHANGED vars

Next ==
    \/ GrowFat \/ WriteBpb \/ AllocDirs
    \/ WriteCluster("boot", "kernel")
    \/ WriteCluster("kernel", "entries")
    \/ WriteDirs \/ WriteHead \/ WriteEsp \/ WriteRoot \/ WriteBackup
    \/ Ended

Spec == Init /\ [][Next]_vars
====
