------------------------------- MODULE Loader -------------------------------
(***************************************************************************)
(* Loader::ELF (utils/loader.cpp): from an ELF file to the image of memory *)
(* and the end of the code.  The segments are checked, then the executable *)
(* sections, and only then is anything copied; each round of the three     *)
(* loops is a step.  Addresses and sizes are 64-bit fields of the file,    *)
(* cut to 32-bit words, below AddrMod, when they are read.                 *)
(***************************************************************************)
EXTENDS Integers, Sequences

CONSTANTS
  MEM_SIZE,   \* bytes of simulated memory
  AddrMod,    \* 2^32
  Files       \* the files there are: see ElfFile

ASSUME LoaderAssumption ==
  /\ MEM_SIZE \in Nat \ {0}
  /\ AddrMod \in Nat /\ MEM_SIZE < AddrMod

\* A segment holds the bytes of `data` and then zeros; only the first AddrMod
\* bytes of its sizes matter.
Segment == [load: BOOLEAN, vaddr: Nat, data: Seq(Nat), memsz: Nat]
Section == [exec: BOOLEAN, addr: Nat, size: Nat]
ElfFile == [opens: BOOLEAN, segments: Seq(Segment), sections: Seq(Section), entry: Nat]

ASSUME FilesAssumption == Files \subseteq ElfFile

VARIABLES
  file,      \* the file, as the ELF library presents it
  phase,     \* "open", "segments", "sections", "copy", and in the end
             \* "loaded" or "failed"
  k,         \* rounds the current loop has made
  mem_size,  \* bytes from address 0 to the end of the last segment
  code_end,  \* Program::end_point
  memory     \* Program::instrs

loaderVars == <<file, phase, k, mem_size, code_end, memory>>

Larger(a, b) == IF a > b THEN a ELSE b

\* uint32_t x = ...
Cut(x) == x % AddrMod
vaddr(seg)    == Cut(seg.vaddr)
seg_size(seg) == Cut(seg.memsz)
text_addr(text) == Cut(text.addr)
text_size(text) == Cut(text.size)

\* Mutant of Fits: the sum is a 32-bit word.
FitsWrapping(addr, size) == Cut(addr + size) <= MEM_SIZE

\* Mutant of Fits: address and size are looked at one by one.
FitsEach(addr, size) == addr <= MEM_SIZE /\ size <= MEM_SIZE

\* The check of segments and sections, written so that nothing overflows.
Fits(addr, size) == addr <= MEM_SIZE /\ size <= MEM_SIZE - addr

NextRound(to) ==
  /\ k' = k + 1
  /\ UNCHANGED <<file, phase>> /\ to

-----------------------------------------------------------------------------
LoaderInit ==
  /\ file \in Files
  /\ phase = "open" /\ k = 0
  /\ mem_size = 0 /\ code_end = 0
  /\ memory = <<>>

Open ==
  /\ phase = "open"
  /\ phase' = IF file.opens THEN "segments" ELSE "failed"
  /\ UNCHANGED <<file, k, mem_size, code_end, memory>>

CheckSegment ==
  /\ phase = "segments" /\ k < Len(file.segments)
  /\ LET seg == file.segments[k + 1]
     IN  IF ~seg.load
           THEN NextRound(UNCHANGED mem_size)
         ELSE IF Fits(vaddr(seg), seg_size(seg))
           THEN NextRound(mem_size' = Larger(mem_size, Cut(vaddr(seg) + seg_size(seg))))
         ELSE phase' = "failed" /\ UNCHANGED <<file, k, mem_size>>
  /\ UNCHANGED <<code_end, memory>>

SegmentsChecked ==
  /\ phase = "segments" /\ k = Len(file.segments)
  /\ phase' = "sections" /\ k' = 0
  /\ UNCHANGED <<file, mem_size, code_end, memory>>

CheckSection ==
  /\ phase = "sections" /\ k < Len(file.sections)
  /\ LET text == file.sections[k + 1]
     IN  IF ~text.exec
           THEN NextRound(UNCHANGED code_end)
         ELSE IF Fits(text_addr(text), text_size(text))
           THEN NextRound(code_end' = Larger(code_end, Cut(text_addr(text) + text_size(text))))
         ELSE phase' = "failed" /\ UNCHANGED <<file, k, code_end>>
  /\ UNCHANGED <<mem_size, memory>>

\* A file without executable sections ends where its segments do.
SectionsChecked ==
  /\ phase = "sections" /\ k = Len(file.sections)
  /\ code_end' = IF code_end = 0 THEN mem_size ELSE code_end
  /\ memory' = [a \in 0..(mem_size - 1) |-> 0]
  /\ phase' = "copy" /\ k' = 0
  /\ UNCHANGED <<file, mem_size>>

Covers(seg, a) == seg.load /\ a \in vaddr(seg)..(vaddr(seg) + seg_size(seg) - 1)
ByteAt(seg, a) ==
  IF a - vaddr(seg) < Cut(Len(seg.data)) THEN seg.data[a - vaddr(seg) + 1] ELSE 0

\* Mutant of CopySegment: the bytes beyond the data are left as they are.
CopySegmentNoZeros ==
  /\ phase = "copy" /\ k < Len(file.segments)
  /\ LET seg == file.segments[k + 1]
     IN  NextRound(memory' = [a \in DOMAIN memory |->
                     IF Covers(seg, a) /\ a - vaddr(seg) < Cut(Len(seg.data))
                       THEN ByteAt(seg, a) ELSE memory[a]])
  /\ UNCHANGED <<mem_size, code_end>>

CopySegment ==
  /\ phase = "copy" /\ k < Len(file.segments)
  /\ LET seg == file.segments[k + 1]
     IN  NextRound(memory' = [a \in DOMAIN memory |->
                     IF Covers(seg, a) THEN ByteAt(seg, a) ELSE memory[a]])
  /\ UNCHANGED <<mem_size, code_end>>

Copied ==
  /\ phase = "copy" /\ k = Len(file.segments)
  /\ phase' = "loaded"
  /\ UNCHANGED <<file, k, mem_size, code_end, memory>>

LoaderNext ==
  \/ Open
  \/ CheckSegment \/ SegmentsChecked
  \/ CheckSection \/ SectionsChecked
  \/ CopySegment \/ Copied

LoaderSpec == LoaderInit /\ [][LoaderNext]_loaderVars

-----------------------------------------------------------------------------
\* Types; the end of the code and of the image lie in memory, so that the addresses
\* fetch reads, and the return address that ends the program, are addresses of memory.
LoaderTypeOK ==
  /\ file \in ElfFile
  /\ phase \in {"open", "segments", "sections", "copy", "loaded", "failed"}
  /\ k \in Nat
  /\ mem_size \in 0..MEM_SIZE
  /\ code_end \in 0..MEM_SIZE
  /\ phase \in {"copy", "loaded"} => memory \in [0..(mem_size - 1) -> Nat]

\* Copying writes memory[vaddr + i] without looking: every byte of every segment
\* that will be copied must exist, although sizes and addresses were cut to words
\* and checked in another loop.
CopiesInBounds ==
  phase = "copy" =>
    \A i \in DOMAIN file.segments :
      LET seg == file.segments[i]
      IN  seg.load => \A j \in 0..(seg_size(seg) - 1) : vaddr(seg) + j \in DOMAIN memory

\* What a loaded image must be: each byte is that of the last segment that covers
\* it, and zero where there is none.
LastCover(segments, a) ==
  LET covering == {i \in DOMAIN segments : Covers(segments[i], a)}
  IN  IF covering = {} THEN 0 ELSE CHOOSE i \in covering : \A j \in covering : j <= i

ImageIsOverlay ==
  phase = "loaded" =>
    \A a \in DOMAIN memory :
      memory[a] = LET i == LastCover(file.segments, a)
                  IN  IF i = 0 THEN 0 ELSE ByteAt(file.segments[i], a)
=============================================================================
