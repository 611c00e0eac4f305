-------------------------------- MODULE Disk --------------------------------
(***************************************************************************)
(* The disk driver, kernel/kernel/disk.c, which the boot loader repeats in *)
(* bootloader/boot.c, and the loading of an ELF file through it.           *)
(*                                                                         *)
(* The disk and the memory are functions from addresses to bytes.  The     *)
(* drive transfers whole sectors; the port protocol (waitDisk, outByte,    *)
(* inLong) is left out.  disk.c and boot.c loop over sectors; what a whole *)
(* loop does to the bytes is written here in closed form.                  *)
(***************************************************************************)
EXTENDS Integers, SequencesExt

CONSTANT SectSize      \* SECTSIZE

ASSUME SectSizeAssumption == SectSize \in Nat \ {0}

\* The sector an offset lies in, and the offset where that sector starts.
Section(diskoff) == diskoff \div SectSize
SectionStart(diskoff) == Section(diskoff) * SectSize

\* readSect(dst, section), and writeSect(src, section).
readSect(mem, disk, dst, section) ==
  [a \in DOMAIN mem |-> IF a \in dst .. dst + SectSize - 1
                        THEN disk[section * SectSize + (a - dst)] ELSE mem[a]]
writeHalfSect(disk, mem, src, section) ==
  [b \in DOMAIN disk |-> IF Section(b) = section /\ 2 * (b - section * SectSize) < SectSize
                         THEN mem[src + (b - section * SectSize)] ELSE disk[b]]
writeSect(disk, mem, src, section) ==
  [b \in DOMAIN disk |-> IF Section(b) = section
                         THEN mem[src + (b - section * SectSize)] ELSE disk[b]]

(***************************************************************************)
(* The loop of readBytes starts at addr stepped back to a sector boundary  *)
(* of the disk and ends with the turn that reaches addr + cont.            *)
(***************************************************************************)
SteppedBack(addr, diskoff) == addr - (diskoff % SectSize)
TurnStart(a, start) == start + ((a - start) \div SectSize) * SectSize
Transferred(a, addr, diskoff, cont) ==
  LET start == SteppedBack(addr, diskoff)
  IN  a >= start /\ TurnStart(a, start) < addr + cont

readBytesAtAddr(mem, disk, addr, diskoff, cont) ==
  [a \in DOMAIN mem |-> IF Transferred(a, addr, diskoff, cont)
                        THEN disk[SectionStart(diskoff) + (a - addr)] ELSE mem[a]]
readBytes(mem, disk, addr, diskoff, cont) ==
  [a \in DOMAIN mem |-> IF Transferred(a, addr, diskoff, cont)
                        THEN disk[SectionStart(diskoff) + (a - SteppedBack(addr, diskoff))]
                        ELSE mem[a]]

\* The sectors writeBytes writes, first to last; it asserts that the first one
\* starts at diskoff.
canWriteBytes(diskoff) == diskoff % SectSize = 0
FirstSection(diskoff) == Section(diskoff)
LastSection(diskoff, cont) == Section(diskoff + cont - 1)

mem_set(mem, beg, end, bt) ==
  [a \in DOMAIN mem |-> IF beg <= a /\ a < end THEN bt ELSE mem[a]]

(***************************************************************************)
(* loadUMain and bootMain: each PT_LOAD segment of the ELF file at offset  *)
(* base of the disk is read, and the part of it without file contents set  *)
(* to 0, in the order of the program headers.                              *)
(***************************************************************************)
LoadSegment(mem, disk, base, ph) ==
  mem_set(readBytes(mem, disk, ph.paddr, base + ph.off, ph.filesz),
          ph.paddr + ph.filesz, ph.paddr + ph.memsz, 0)
Load(mem, disk, base, phs) ==
  LET loaded[n \in 0 .. Len(phs)] ==
        IF n = 0 THEN mem
        ELSE IF phs[n].type = "PT_LOAD" THEN LoadSegment(loaded[n - 1], disk, base, phs[n])
        ELSE loaded[n - 1]
  IN  loaded[Len(phs)]
=============================================================================
