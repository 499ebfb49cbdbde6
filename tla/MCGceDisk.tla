----------------------------- MODULE MCGceDisk -----------------------------
(* Sectors of 16 bytes, so that a FAT sector has four entries. *)
EXTENDS GceBoot
====
