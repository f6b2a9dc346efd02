--------------------------- MODULE Loader_proofs ---------------------------
(***************************************************************************)
(* The three functions of the loader: for every size of memory and every   *)
(* ELF file, every disassembly, and every file and order of fields.        *)
(***************************************************************************)
EXTENDS Loader, Listing, ConfigFile, SequenceTheorems, TLAPS

\* A word is its value when it is small enough.
LEMMA CutFacts ==
  /\ \A x \in Nat : Cut(x) \in Nat /\ Cut(x) <= x
  /\ \A x \in 0..MEM_SIZE : Cut(x) = x
<1>1. AddrMod \in Nat \ {0} /\ MEM_SIZE \in Nat /\ MEM_SIZE < AddrMod
  BY LoaderAssumption
<1>2. ASSUME NEW x \in Nat PROVE Cut(x) \in Nat /\ Cut(x) <= x
  BY <1>1, SMT DEF Cut
<1>3. ASSUME NEW x \in 0..MEM_SIZE PROVE Cut(x) = x
  BY <1>1, SMT DEF Cut
<1> QED
  BY <1>2, <1>3

-----------------------------------------------------------------------------
(* The inductive invariant: the segments and sections seen so far fit, the *)
(* image is as large as the furthest of them, and holds what those copied  *)
(* so far leave behind.                                                    *)

Seen ==
  CASE phase = "open"     -> 0
    [] phase = "segments" -> k
    [] phase = "failed"   -> 0
    [] OTHER              -> Len(file.segments)

SeenInside ==
  \A i \in 1..Seen :
    file.segments[i].load =>
      /\ vaddr(file.segments[i]) \in Nat /\ seg_size(file.segments[i]) \in Nat
      /\ vaddr(file.segments[i]) + seg_size(file.segments[i]) <= mem_size

RoundsInside ==
  /\ phase = "open" => k = 0
  /\ phase \in {"segments", "copy"} => k \in 0..Len(file.segments)
  /\ phase = "sections" => k \in 0..Len(file.sections)
  /\ phase = "loaded" => k = Len(file.segments)

\* The segment copied last, of those copied, wins at a.
Overlaid(a) ==
  \/ memory[a] = 0 /\ \A i \in 1..k : ~Covers(file.segments[i], a)
  \/ \E i \in 1..k : /\ Covers(file.segments[i], a)
                     /\ memory[a] = ByteAt(file.segments[i], a)
                     /\ \A j \in 1..k : Covers(file.segments[j], a) => j <= i

CopiedSoFar == phase \in {"copy", "loaded"} => \A a \in DOMAIN memory : Overlaid(a)

LoaderInv ==
  /\ LoaderTypeOK
  /\ RoundsInside
  /\ SeenInside
  /\ CopiedSoFar

\* The parts of a file.
LEMMA FileFacts ==
  ASSUME file \in ElfFile
  PROVE  /\ Len(file.segments) \in Nat /\ DOMAIN file.segments = 1..Len(file.segments)
         /\ Len(file.sections) \in Nat /\ DOMAIN file.sections = 1..Len(file.sections)
         /\ \A i \in 1..Len(file.segments) :
              /\ file.segments[i] \in Segment
              /\ vaddr(file.segments[i]) \in Nat
              /\ seg_size(file.segments[i]) \in Nat
         /\ \A i \in 1..Len(file.sections) :
              /\ file.sections[i] \in Section
              /\ text_addr(file.sections[i]) \in Nat
              /\ text_size(file.sections[i]) \in Nat
<1>1. file.segments \in Seq(Segment) /\ file.sections \in Seq(Section)
  BY DEF ElfFile
<1>2. /\ Len(file.segments) \in Nat /\ DOMAIN file.segments = 1..Len(file.segments)
      /\ Len(file.sections) \in Nat /\ DOMAIN file.sections = 1..Len(file.sections)
  BY <1>1, LenProperties
<1>3. \A i \in 1..Len(file.segments) : file.segments[i] \in Segment
  BY <1>1, ElementOfSeq
<1>4. \A i \in 1..Len(file.sections) : file.sections[i] \in Section
  BY <1>1, ElementOfSeq
<1>5. ASSUME NEW i \in 1..Len(file.segments)
      PROVE  vaddr(file.segments[i]) \in Nat /\ seg_size(file.segments[i]) \in Nat
  <2>1. file.segments[i].vaddr \in Nat /\ file.segments[i].memsz \in Nat
    BY <1>3 DEF Segment
  <2> QED
    BY <2>1, CutFacts DEF vaddr, seg_size
<1>6. ASSUME NEW i \in 1..Len(file.sections)
      PROVE  text_addr(file.sections[i]) \in Nat /\ text_size(file.sections[i]) \in Nat
  <2>1. file.sections[i].addr \in Nat /\ file.sections[i].size \in Nat
    BY <1>4 DEF Section
  <2> QED
    BY <2>1, CutFacts DEF text_addr, text_size
<1> QED
  BY <1>2, <1>3, <1>4, <1>5, <1>6

\* What fits ends in memory, and its end is not cut.
LEMMA FitsFacts ==
  ASSUME NEW a \in Nat, NEW len \in Nat, Fits(a, len)
  PROVE  a + len \in 0..MEM_SIZE /\ Cut(a + len) = a + len
<1>1. MEM_SIZE \in Nat
  BY LoaderAssumption
<1>2. a + len \in 0..MEM_SIZE
  BY <1>1 DEF Fits
<1> QED
  BY <1>2, CutFacts

\* The bytes of a segment are bytes.
LEMMA ByteFacts ==
  ASSUME NEW seg \in Segment, NEW a \in Nat, vaddr(seg) \in Nat, Covers(seg, a)
  PROVE  ByteAt(seg, a) \in Nat
<1>1. seg.data \in Seq(Nat) /\ Len(seg.data) \in Nat
  BY LenProperties DEF Segment
<1>2. Cut(Len(seg.data)) <= Len(seg.data) /\ Cut(Len(seg.data)) \in Nat
  BY <1>1, CutFacts
<1>3. a >= vaddr(seg)
  BY DEF Covers
<1>4. CASE a - vaddr(seg) < Cut(Len(seg.data))
  <2>1. a - vaddr(seg) + 1 \in 1..Len(seg.data)
    BY <1>1, <1>2, <1>3, <1>4
  <2>2. seg.data[a - vaddr(seg) + 1] \in Nat
    BY <1>1, <2>1, ElementOfSeq
  <2> QED
    BY <1>4, <2>2 DEF ByteAt
<1>5. CASE ~(a - vaddr(seg) < Cut(Len(seg.data)))
  BY <1>5 DEF ByteAt
<1> QED
  BY <1>4, <1>5

-----------------------------------------------------------------------------
LEMMA LoaderInitInv == LoaderInit => LoaderInv
<1> SUFFICES ASSUME LoaderInit PROVE LoaderInv
  OBVIOUS
<1>1. file \in ElfFile /\ MEM_SIZE \in Nat
  BY FilesAssumption, LoaderAssumption DEF LoaderInit
<1>2. LoaderTypeOK
  BY <1>1 DEF LoaderInit, LoaderTypeOK
<1>3. RoundsInside /\ SeenInside /\ CopiedSoFar
  BY DEF LoaderInit, RoundsInside, SeenInside, Seen, CopiedSoFar
<1> QED
  BY <1>2, <1>3 DEF LoaderInv

LEMMA OpenInv == LoaderInv /\ Open => LoaderInv'
<1> SUFFICES ASSUME LoaderInv, Open PROVE LoaderInv'
  OBVIOUS
<1>1. LoaderTypeOK'
  BY DEF LoaderInv, LoaderTypeOK, Open
<1>2. RoundsInside'
  BY FileFacts DEF LoaderInv, LoaderTypeOK, RoundsInside, Open
<1>3. SeenInside' /\ CopiedSoFar'
  BY DEF LoaderInv, RoundsInside, SeenInside, Seen, CopiedSoFar, Open
<1> QED
  BY <1>1, <1>2, <1>3 DEF LoaderInv

\* The image grows to hold each segment, and never shrinks.
LEMMA CheckSegmentInv == LoaderInv /\ CheckSegment => LoaderInv'
<1> SUFFICES ASSUME LoaderInv, CheckSegment PROVE LoaderInv'
  OBVIOUS
<1> DEFINE seg == file.segments[k + 1]
<1>1. /\ phase = "segments" /\ k < Len(file.segments) /\ k \in Nat
      /\ file \in ElfFile /\ file' = file /\ code_end' = code_end /\ memory' = memory
      /\ mem_size \in 0..MEM_SIZE /\ code_end \in 0..MEM_SIZE /\ MEM_SIZE \in Nat
  BY LoaderAssumption DEF LoaderInv, LoaderTypeOK, CheckSegment, NextRound
<1>2. k + 1 \in 1..Len(file.segments) /\ vaddr(seg) \in Nat /\ seg_size(seg) \in Nat
  BY <1>1, FileFacts
<1>3. CASE /\ phase' = phase /\ k' = k + 1
           /\ mem_size' \in 0..MEM_SIZE /\ mem_size' >= mem_size
           /\ seg.load => vaddr(seg) + seg_size(seg) <= mem_size'
  <2>1. LoaderTypeOK' /\ RoundsInside' /\ CopiedSoFar'
    BY <1>1, <1>2, <1>3, FileFacts DEF LoaderTypeOK, RoundsInside, CopiedSoFar
  <2>2. ASSUME NEW i \in 1..(k + 1), file.segments[i].load
        PROVE  /\ vaddr(file.segments[i]) \in Nat /\ seg_size(file.segments[i]) \in Nat
               /\ vaddr(file.segments[i]) + seg_size(file.segments[i]) <= mem_size'
    <3>1. CASE i = k + 1
      BY <1>2, <1>3, <2>2, <3>1
    <3>2. CASE i # k + 1
      <4>1. i \in 1..k
        BY <1>1, <3>2
      <4>2. /\ vaddr(file.segments[i]) \in Nat /\ seg_size(file.segments[i]) \in Nat
            /\ vaddr(file.segments[i]) + seg_size(file.segments[i]) <= mem_size
        BY <1>1, <2>2, <4>1 DEF LoaderInv, SeenInside, Seen
      <4> QED
        BY <1>1, <1>3, <4>2
    <3> QED
      BY <3>1, <3>2
  <2>3. Seen' = k + 1 /\ (file.segments)' = file.segments
    BY <1>1, <1>3 DEF Seen
  <2>4. SeenInside'
    BY <1>1, <2>2, <2>3 DEF SeenInside, vaddr, seg_size, Cut
  <2> QED
    BY <2>1, <2>4 DEF LoaderInv
<1>4. CASE phase' = "failed" /\ UNCHANGED <<file, k, mem_size>>
  <2>1. LoaderTypeOK' /\ RoundsInside' /\ CopiedSoFar'
    BY <1>1, <1>4 DEF LoaderTypeOK, RoundsInside, CopiedSoFar
  <2>2. SeenInside'
    BY <1>4 DEF SeenInside, Seen
  <2> QED
    BY <2>1, <2>2 DEF LoaderInv
<1>5. CASE ~seg.load
  BY <1>1, <1>3, <1>5 DEF CheckSegment, NextRound
<1>6. CASE seg.load /\ Fits(vaddr(seg), seg_size(seg))
  <2>1. /\ vaddr(seg) + seg_size(seg) \in 0..MEM_SIZE
        /\ Cut(vaddr(seg) + seg_size(seg)) = vaddr(seg) + seg_size(seg)
    BY <1>2, <1>6, FitsFacts
  <2>2. /\ phase' = phase /\ k' = k + 1
        /\ mem_size' = Larger(mem_size, Cut(vaddr(seg) + seg_size(seg)))
    BY <1>6 DEF CheckSegment, NextRound
  <2> QED
    BY <1>1, <1>2, <1>3, <2>1, <2>2 DEF Larger
<1>7. CASE seg.load /\ ~Fits(vaddr(seg), seg_size(seg))
  BY <1>4, <1>7 DEF CheckSegment
<1> QED
  BY <1>5, <1>6, <1>7

LEMMA CheckSectionInv == LoaderInv /\ CheckSection => LoaderInv'
<1> SUFFICES ASSUME LoaderInv, CheckSection PROVE LoaderInv'
  OBVIOUS
<1> DEFINE text == file.sections[k + 1]
<1>1. /\ phase = "sections" /\ k < Len(file.sections) /\ k \in Nat
      /\ file \in ElfFile /\ file' = file /\ mem_size' = mem_size /\ memory' = memory
      /\ mem_size \in 0..MEM_SIZE /\ code_end \in 0..MEM_SIZE /\ MEM_SIZE \in Nat
  BY LoaderAssumption DEF LoaderInv, LoaderTypeOK, CheckSection, NextRound
<1>2. k + 1 \in 1..Len(file.sections) /\ text_addr(text) \in Nat /\ text_size(text) \in Nat
  BY <1>1, FileFacts
<1>3. CASE phase' = phase /\ k' = k + 1 /\ code_end' \in 0..MEM_SIZE
  <2>1. LoaderTypeOK' /\ RoundsInside' /\ CopiedSoFar'
    BY <1>1, <1>2, <1>3, FileFacts DEF LoaderTypeOK, RoundsInside, CopiedSoFar
  <2>2. Seen' = Seen
    BY <1>1, <1>3 DEF Seen
  <2>3. SeenInside'
    BY <1>1, <2>2 DEF LoaderInv, SeenInside, vaddr, seg_size, Cut
  <2> QED
    BY <2>1, <2>3 DEF LoaderInv
<1>4. CASE ~text.exec
  BY <1>1, <1>3, <1>4 DEF CheckSection, NextRound
<1>5. CASE text.exec /\ Fits(text_addr(text), text_size(text))
  <2>1. /\ text_addr(text) + text_size(text) \in 0..MEM_SIZE
        /\ Cut(text_addr(text) + text_size(text)) = text_addr(text) + text_size(text)
    BY <1>2, <1>5, FitsFacts
  <2>2. /\ phase' = phase /\ k' = k + 1
        /\ code_end' = Larger(code_end, Cut(text_addr(text) + text_size(text)))
    BY <1>5 DEF CheckSection, NextRound
  <2> QED
    BY <1>1, <1>2, <1>3, <2>1, <2>2 DEF Larger
<1>6. CASE text.exec /\ ~Fits(text_addr(text), text_size(text))
  <2>1. phase' = "failed" /\ k' = k /\ code_end' = code_end
    BY <1>6 DEF CheckSection
  <2>2. LoaderTypeOK' /\ RoundsInside' /\ CopiedSoFar'
    BY <1>1, <2>1 DEF LoaderInv, LoaderTypeOK, RoundsInside, CopiedSoFar
  <2>3. SeenInside'
    BY <2>1 DEF SeenInside, Seen
  <2> QED
    BY <2>2, <2>3 DEF LoaderInv
<1> QED
  BY <1>4, <1>5, <1>6

\* The loops end, and the next begins: what has been seen stays seen.
LEMMA SegmentsCheckedInv == LoaderInv /\ SegmentsChecked => LoaderInv'
<1> SUFFICES ASSUME LoaderInv, SegmentsChecked PROVE LoaderInv'
  OBVIOUS
<1>1. LoaderTypeOK'
  BY DEF LoaderInv, LoaderTypeOK, SegmentsChecked
<1>2. RoundsInside' /\ CopiedSoFar'
  BY FileFacts DEF LoaderInv, LoaderTypeOK, RoundsInside, CopiedSoFar, SegmentsChecked
<1>3. Seen' = Seen
  BY DEF Seen, SegmentsChecked
<1>4. SeenInside'
  BY <1>3 DEF LoaderInv, SeenInside, SegmentsChecked, vaddr, seg_size, Cut
<1> QED
  BY <1>1, <1>2, <1>4 DEF LoaderInv

LEMMA SectionsCheckedInv == LoaderInv /\ SectionsChecked => LoaderInv'
<1> SUFFICES ASSUME LoaderInv, SectionsChecked PROVE LoaderInv'
  OBVIOUS
<1>1. mem_size \in 0..MEM_SIZE /\ MEM_SIZE \in Nat /\ memory' = [a \in 0..(mem_size - 1) |-> 0]
  BY LoaderAssumption DEF LoaderInv, LoaderTypeOK, SectionsChecked
<1>2. LoaderTypeOK'
  BY <1>1 DEF LoaderInv, LoaderTypeOK, SectionsChecked
<1>3. RoundsInside'
  BY FileFacts DEF LoaderInv, LoaderTypeOK, RoundsInside, SectionsChecked
<1>4. CopiedSoFar'
  BY <1>1 DEF CopiedSoFar, Overlaid, SectionsChecked
<1>5. Seen' = Seen
  BY DEF Seen, SectionsChecked
<1>6. SeenInside'
  BY <1>5 DEF LoaderInv, SeenInside, SectionsChecked, vaddr, seg_size, Cut
<1> QED
  BY <1>2, <1>3, <1>4, <1>6 DEF LoaderInv

\* A segment lies over those copied before it.
LEMMA CopySegmentInv == LoaderInv /\ CopySegment => LoaderInv'
<1> SUFFICES ASSUME LoaderInv, CopySegment PROVE LoaderInv'
  OBVIOUS
<1> DEFINE seg == file.segments[k + 1]
<1>1. /\ phase = "copy" /\ phase' = "copy" /\ k < Len(file.segments) /\ k \in Nat
      /\ k' = k + 1 /\ file \in ElfFile /\ file' = file
      /\ mem_size' = mem_size /\ code_end' = code_end
      /\ mem_size \in 0..MEM_SIZE /\ memory \in [0..(mem_size - 1) -> Nat]
      /\ memory' = [a \in DOMAIN memory |->
                      IF Covers(seg, a) THEN ByteAt(seg, a) ELSE memory[a]]
  BY DEF LoaderInv, LoaderTypeOK, CopySegment, NextRound
<1>2. k + 1 \in 1..Len(file.segments) /\ seg \in Segment /\ vaddr(seg) \in Nat
      /\ Len(file.segments) \in Nat
  BY <1>1, FileFacts
<1>3. DOMAIN memory' = DOMAIN memory /\ DOMAIN memory = 0..(mem_size - 1) /\ mem_size \in Nat
  BY <1>1, LoaderAssumption
<1>4. memory' \in [0..(mem_size - 1) -> Nat]
  <2>1. ASSUME NEW a \in 0..(mem_size - 1)
        PROVE  (IF Covers(seg, a) THEN ByteAt(seg, a) ELSE memory[a]) \in Nat
    BY <1>1, <1>2, <1>3, ByteFacts
  <2> QED
    BY <1>1, <1>3, <2>1
<1>5. LoaderTypeOK'
  BY <1>1, <1>4 DEF LoaderInv, LoaderTypeOK
<1>6. RoundsInside'
  BY <1>1, <1>2 DEF LoaderInv, RoundsInside
<1>7. Seen' = Seen
  BY <1>1 DEF Seen
<1>8. SeenInside'
  BY <1>1, <1>7 DEF LoaderInv, SeenInside, vaddr, seg_size, Cut
<1>9. ASSUME NEW a \in DOMAIN memory'
      PROVE  \/ memory'[a] = 0 /\ \A i \in 1..(k + 1) : ~Covers(file.segments[i], a)
             \/ \E i \in 1..(k + 1) :
                  /\ Covers(file.segments[i], a)
                  /\ memory'[a] = ByteAt(file.segments[i], a)
                  /\ \A j \in 1..(k + 1) : Covers(file.segments[j], a) => j <= i
  <2>1. a \in DOMAIN memory /\ Overlaid(a)
    BY <1>1, <1>3 DEF LoaderInv, CopiedSoFar
  <2>2. \A i \in 1..(k + 1) : i \in 1..k \/ i = k + 1
    BY <1>1
  <2>3. k + 1 \in 1..(k + 1) /\ \A i \in 1..k : i \in 1..(k + 1)
    BY <1>1
  <2>4. CASE Covers(seg, a)
    <3>1. memory'[a] = ByteAt(seg, a)
      BY <1>1, <2>1, <2>4
    <3>2. \A j \in 1..(k + 1) : j <= k + 1
      BY <1>1
    <3> QED
      BY <2>3, <2>4, <3>1, <3>2
  <2>5. CASE ~Covers(seg, a)
    <3>1. memory'[a] = memory[a]
      BY <1>1, <2>1, <2>5
    <3>2. CASE memory[a] = 0 /\ \A i \in 1..k : ~Covers(file.segments[i], a)
      BY <2>2, <2>5, <3>1, <3>2
    <3>3. CASE \E i \in 1..k : /\ Covers(file.segments[i], a)
                               /\ memory[a] = ByteAt(file.segments[i], a)
                               /\ \A j \in 1..k : Covers(file.segments[j], a) => j <= i
      <4>1. PICK i \in 1..k : /\ Covers(file.segments[i], a)
                              /\ memory[a] = ByteAt(file.segments[i], a)
                              /\ \A j \in 1..k : Covers(file.segments[j], a) => j <= i
        BY <3>3
      <4> QED
        BY <2>2, <2>3, <2>5, <3>1, <4>1
    <3> QED
      BY <2>1, <3>2, <3>3 DEF Overlaid
  <2> QED
    BY <2>4, <2>5
<1>10. CopiedSoFar'
  BY <1>1, <1>9 DEF CopiedSoFar, Overlaid, Covers, ByteAt, vaddr, seg_size, Cut
<1> QED
  BY <1>5, <1>6, <1>8, <1>10 DEF LoaderInv

LEMMA CopiedInv == LoaderInv /\ Copied => LoaderInv'
<1> SUFFICES ASSUME LoaderInv, Copied PROVE LoaderInv'
  OBVIOUS
<1>1. LoaderTypeOK' /\ RoundsInside'
  BY DEF LoaderInv, LoaderTypeOK, RoundsInside, Copied
<1>2. Seen' = Seen
  BY DEF Seen, Copied
<1>3. SeenInside'
  BY <1>2 DEF LoaderInv, SeenInside, Copied, vaddr, seg_size, Cut
<1>4. CopiedSoFar'
  BY DEF LoaderInv, CopiedSoFar, Overlaid, Copied, Covers, ByteAt, vaddr, seg_size, Cut
<1> QED
  BY <1>1, <1>3, <1>4 DEF LoaderInv

LEMMA LoaderNextInv == LoaderInv /\ [LoaderNext]_loaderVars => LoaderInv'
<1>1. LoaderInv /\ UNCHANGED loaderVars => LoaderInv'
  BY DEF loaderVars, LoaderInv, LoaderTypeOK, RoundsInside, SeenInside, Seen, CopiedSoFar,
         Overlaid, Covers, ByteAt, vaddr, seg_size, Cut
<1> QED
  BY <1>1, OpenInv, CheckSegmentInv, SegmentsCheckedInv, CheckSectionInv,
     SectionsCheckedInv, CopySegmentInv, CopiedInv DEF LoaderNext

-----------------------------------------------------------------------------
\* Sizes and addresses that pass the checks stay consistent with the image through
\* all loops, for every file and every size of memory.
THEOREM LoaderInvariant == LoaderSpec => []LoaderInv
<1>1. LoaderInit => LoaderInv
  BY LoaderInitInv
<1>2. LoaderInv /\ [LoaderNext]_loaderVars => LoaderInv'
  BY LoaderNextInv
<1> QED
  BY <1>1, <1>2, PTL DEF LoaderSpec

\* Types; image and code end in memory.
THEOREM LoaderTypes == LoaderSpec => []LoaderTypeOK
<1>1. LoaderInv => LoaderTypeOK
  BY DEF LoaderInv
<1> QED
  BY <1>1, LoaderInvariant, PTL

\* No copy leaves the image, whatever the ELF file says.
THEOREM LoaderCopiesInBounds == LoaderSpec => []CopiesInBounds
<1>1. LoaderInv => CopiesInBounds
  <2> SUFFICES ASSUME LoaderInv, phase = "copy",
                      NEW i \in DOMAIN file.segments, file.segments[i].load,
                      NEW j \in 0..(seg_size(file.segments[i]) - 1)
               PROVE  vaddr(file.segments[i]) + j \in DOMAIN memory
    BY DEF CopiesInBounds
  <2>1. /\ file \in ElfFile /\ mem_size \in Nat /\ DOMAIN memory = 0..(mem_size - 1)
    BY LoaderAssumption DEF LoaderInv, LoaderTypeOK
  <2>2. i \in 1..Seen
    BY <2>1, FileFacts DEF Seen
  <2>3. /\ vaddr(file.segments[i]) \in Nat /\ seg_size(file.segments[i]) \in Nat
        /\ vaddr(file.segments[i]) + seg_size(file.segments[i]) <= mem_size
    BY <2>2 DEF LoaderInv, SeenInside
  <2> QED
    BY <2>1, <2>3
<1> QED
  BY <1>1, LoaderInvariant, PTL

\* A loaded image is the segments laid over each other in the order of the file.
THEOREM LoaderImage == LoaderSpec => []ImageIsOverlay
<1>1. LoaderInv => ImageIsOverlay
  <2> SUFFICES ASSUME LoaderInv, phase = "loaded", NEW a \in DOMAIN memory
               PROVE  memory[a] = LET i == LastCover(file.segments, a)
                                  IN  IF i = 0 THEN 0 ELSE ByteAt(file.segments[i], a)
    BY DEF ImageIsOverlay
  <2>1. Overlaid(a) /\ k = Len(file.segments) /\ Len(file.segments) \in Nat
        /\ DOMAIN file.segments = 1..k
    BY FileFacts DEF LoaderInv, CopiedSoFar, RoundsInside, LoaderTypeOK
  <2> DEFINE covering == {i \in DOMAIN file.segments : Covers(file.segments[i], a)}
  <2>2. CASE memory[a] = 0 /\ \A i \in 1..k : ~Covers(file.segments[i], a)
    <3>1. covering = {}
      BY <2>1, <2>2
    <3>2. LastCover(file.segments, a) = 0
      BY <3>1 DEF LastCover
    <3> QED
      BY <2>2, <3>2
  <2>3. CASE \E i \in 1..k : /\ Covers(file.segments[i], a)
                             /\ memory[a] = ByteAt(file.segments[i], a)
                             /\ \A j \in 1..k : Covers(file.segments[j], a) => j <= i
    <3>1. PICK i \in 1..k : /\ Covers(file.segments[i], a)
                            /\ memory[a] = ByteAt(file.segments[i], a)
                            /\ \A j \in 1..k : Covers(file.segments[j], a) => j <= i
      BY <2>3
    <3>2. i \in covering /\ \A j \in covering : j <= i
      BY <2>1, <3>1
    <3>3. covering \subseteq Int
      BY <2>1
    <3>4. i = CHOOSE m \in covering : \A j \in covering : j <= m
      BY <3>2, <3>3
    <3>5. LastCover(file.segments, a) = i
      BY <3>2, <3>4 DEF LastCover
    <3>6. i # 0
      BY <2>1
    <3> QED
      BY <3>1, <3>5, <3>6
  <2> QED
    BY <2>1, <2>2, <2>3 DEF Overlaid
<1> QED
  BY <1>1, LoaderInvariant, PTL

-----------------------------------------------------------------------------
(* Loader::ASM: of the lines read so far, each instruction is listed, and  *)
(* the last of those at one address is what is listed there.               *)

ListingInv ==
  /\ lines \in Dumps /\ n \in 0..Len(lines)
  /\ ListsCode

\* A line that is entered is an instruction or the title, and an instruction is entered.
LEMMA EntryKind ==
  ASSUME NEW q \in Dumps, NEW i \in 1..Len(q)
  PROVE  /\ q[i].kind = "code" => IsEntry(q[i])
         /\ IsEntry(q[i]) => q[i].kind \in {"code", "title"} /\ q[i].digits # <<>>
<1>1. q \in Seq(Line) /\ DOMAIN q = 1..Len(q) /\ Written(q[i])
  BY ListingAssumption, LenProperties
<1>2. q[i] \in Line
  BY <1>1, ElementOfSeq
<1>3. q[i].kind \in {"title", "section", "label", "code", "blank"}
  BY <1>2 DEF Line
<1>4. q[i].fields = <<>> => Len(q[i].fields) = 0
  OBVIOUS
<1> QED
  BY <1>1, <1>3, <1>4 DEF Written, IsEntry

\* Nothing is listed before the first line.
LEMMA ListingInitInv == ListingInit => ListingInv
<1> SUFFICES ASSUME ListingInit PROVE ListingInv
  OBVIOUS
<1>1. Len(lines) \in Nat
  BY ListingAssumption, LenProperties DEF ListingInit
<1> QED
  BY <1>1 DEF ListingInit, ListingInv, ListsCode

\* A line that is passed over is no instruction.
LEMMA PassOverInv == ListingInv /\ PassOver => ListingInv'
<1> SUFFICES ASSUME ListingInv, PassOver PROVE ListingInv'
  OBVIOUS
<1>1. /\ lines \in Dumps /\ n \in Nat /\ Len(lines) \in Nat /\ n + 1 \in 1..Len(lines)
      /\ n' = n + 1 /\ lines' = lines /\ disasm' = disasm
  BY ListingAssumption, LenProperties DEF ListingInv, PassOver
<1>2. lines[n + 1].kind # "code"
  BY <1>1, EntryKind DEF PassOver
<1>3. \A i \in 1..(n + 1) : lines[i].kind = "code" => i \in 1..n
  BY <1>1, <1>2
<1>4. \A a : CodeAt(a)' = CodeAt(a)
  BY <1>1, <1>3 DEF CodeAt
<1>5. \A i \in 1..n : i \in 1..(n + 1)
  BY <1>1
<1> QED
  BY <1>1, <1>3, <1>4, <1>5 DEF ListingInv, ListsCode

\* A line that is entered is the last at its address.
LEMMA EnterInv == ListingInv /\ Enter => ListingInv'
<1> SUFFICES ASSUME ListingInv, Enter PROVE ListingInv'
  OBVIOUS
<1> DEFINE line == lines[n + 1]
           a == HexValue(line.digits)
<1>1. /\ lines \in Dumps /\ n \in Nat /\ Len(lines) \in Nat /\ n + 1 \in 1..Len(lines)
      /\ n' = n + 1 /\ lines' = lines
      /\ disasm' = [x \in DOMAIN disasm \cup {a} |-> IF x = a THEN Instr(line) ELSE disasm[x]]
  BY ListingAssumption, LenProperties DEF ListingInv, Enter
<1>2. line.kind \in {"code", "title"} /\ line.digits # <<>>
  BY <1>1, EntryKind DEF Enter
<1>3. \A i \in 1..(n + 1) : i \in 1..n \/ i = n + 1
  BY <1>1
<1>4. \A i \in 1..n : i \in 1..(n + 1) /\ i <= n + 1
  BY <1>1
<1> HIDE DEF line
<1>5. \A i \in 1..(n + 1) : lines[i].kind = "code" => HexValue(lines[i].digits) \in DOMAIN disasm'
  <2>1. \A i \in 1..n : lines[i].kind = "code" => HexValue(lines[i].digits) \in DOMAIN disasm
    BY DEF ListingInv, ListsCode
  <2> QED
    BY <1>1, <1>3, <2>1 DEF line
<1>6. ASSUME NEW x \in DOMAIN disasm'
      PROVE  \/ \E i \in CodeAt(x)' :
                  disasm'[x] = Instr(lines[i]) /\ \A j \in CodeAt(x)' : j <= i
             \/ \E i \in 1..(n + 1) : /\ lines[i].kind = "title" /\ HexValue(lines[i].digits) = x
                                      /\ lines[i].digits # <<>>
  <2>0. n + 1 \in 1..(n + 1)
    BY <1>1
  <2>1. CASE x = a /\ line.kind = "title"
    BY <1>2, <2>0, <2>1 DEF line
  <2>2. CASE x = a /\ line.kind = "code"
    <3>1. n + 1 \in CodeAt(x)' /\ \A j \in CodeAt(x)' : j <= n + 1
      BY <1>1, <2>0, <2>2 DEF CodeAt, line
    <3>2. disasm'[x] = Instr(lines[n + 1])
      BY <1>1, <2>2 DEF line
    <3> QED
      BY <3>1, <3>2
  <2>3. CASE x # a
    <3>1. x \in DOMAIN disasm /\ disasm'[x] = disasm[x]
      BY <1>1, <2>3
    <3>2. CodeAt(x)' = CodeAt(x)
      BY <1>1, <1>3, <1>4, <2>3 DEF CodeAt, line
    <3> QED
      BY <1>4, <3>1, <3>2 DEF ListingInv, ListsCode
  <2> QED
    BY <1>2, <2>1, <2>2, <2>3
<1>7. ListsCode'
  BY <1>1, <1>5, <1>6 DEF ListsCode
<1> QED
  BY <1>1, <1>7 DEF ListingInv

\* What is listed for an address is the last instruction read there, and each one
\* read is listed, whatever else the disassembly holds.
THEOREM ListsEveryInstruction == ListingSpec => []ListsCode
<1>1. ListingInv /\ [ListingNext]_listingVars => ListingInv'
  <2> SUFFICES ASSUME ListingInv, [ListingNext]_listingVars PROVE ListingInv'
    OBVIOUS
  <2>1. CASE UNCHANGED listingVars
    BY <2>1 DEF listingVars, ListingInv, ListsCode, CodeAt
  <2> QED
    BY <2>1, PassOverInv, EnterInv DEF ListingNext
<1>2. ListingInv => ListsCode
  BY DEF ListingInv
<1> QED
  BY <1>1, <1>2, ListingInitInv, PTL DEF ListingSpec

-----------------------------------------------------------------------------
(* Loader::config: the fields read so far are the file's, the others still *)
(* the default's; and no warning means that all have been read.            *)

\* The fields that have been read.
Got == {Keys[i] : i \in 1..next}

\* They have the values of the file, if it has any for them.
ReadSoFar ==
  read = [f \in Fields |-> IF f \in Got /\ json.at[f] # Absent THEN json.at[f]
                           ELSE Default[f]]

\* What has been read was in a file that can be read, and reading ends early for a
\* reason only.
ReadWhileUsable ==
  /\ \A i \in 1..next : json.at[Keys[i]] # BadType
  /\ reading = "fields" \/ next > 0 => json.opens /\ json.parses
  /\ reading = "returned" =>
       IF warned = "none" THEN next = Len(Keys) /\ json.opens /\ json.parses
       ELSE \/ ~json.opens \/ ~json.parses
            \/ next < Len(Keys) /\ json.at[Keys[next + 1]] = BadType

ConfigInv ==
  /\ next \in 0..Len(Keys)
  /\ reading \in {"open", "fields", "returned"}
  /\ reading # "returned" => warned = "none" /\ cpu = "none"
  /\ reading = "open" => next = 0
  /\ ReadWhileUsable
  /\ ReadSoFar

\* The fields, by their place in the order of reading.
LEMMA KeyFacts ==
  /\ Len(Keys) \in Nat /\ DOMAIN Keys = 1..Len(Keys)
  /\ \A i \in 1..Len(Keys) : Keys[i] \in Fields
BY ConfigAssumption, LenProperties, ElementOfSeq DEF Fields

\* Every step of reading keeps the invariant.
LEMMA ConfigNextInv == ConfigInv /\ [ConfigNext]_configVars => ConfigInv'
<1> SUFFICES ASSUME ConfigInv, [ConfigNext]_configVars PROVE ConfigInv'
  OBVIOUS
<1> USE KeyFacts
<1>1. CASE OpenConfig
  <2>1. UNCHANGED <<json, next, read>>
    BY <1>1 DEF OpenConfig
  <2>2. ReadSoFar'
    BY <2>1 DEF ConfigInv, ReadSoFar, Got
  <2>3. ReadWhileUsable'
    BY <1>1, <2>1 DEF OpenConfig, ConfigInv, ReadWhileUsable
  <2> QED
    BY <1>1, <2>1, <2>2, <2>3 DEF OpenConfig, ConfigInv
<1>2. CASE NoConfig
  <2>1. UNCHANGED <<json, next, read>>
    BY <1>2 DEF NoConfig
  <2>2. ReadSoFar'
    BY <2>1 DEF ConfigInv, ReadSoFar, Got
  <2>3. ReadWhileUsable'
    BY <1>2, <2>1 DEF NoConfig, ConfigInv, ReadWhileUsable
  <2> QED
    BY <1>2, <2>1, <2>2, <2>3 DEF NoConfig, ConfigInv
<1>3. CASE ReadField
  <2>0. next \in Nat /\ next < Len(Keys) /\ next + 1 \in 1..Len(Keys) /\ next' = next + 1
    <3>1. next \in 0..Len(Keys) /\ next < Len(Keys) /\ next' = next + 1
      BY <1>3 DEF ReadField, ConfigInv
    <3> QED
      BY <3>1
  <2>1. /\ next \in Nat /\ next < Len(Keys) /\ next' = next + 1
        /\ Field = Keys[next + 1] /\ next + 1 \in 1..Len(Keys) /\ Field \in Fields
        /\ json' = json /\ read' = [read EXCEPT ![Field] = ReadOf(Field)]
    BY <1>3, <2>0 DEF ReadField, Field
  <2>2. Got' = Got \cup {Field}
    <3>1. \A i : i \in 1..(next + 1) <=> i \in 1..next \/ i = next + 1
      BY <2>1
    <3> QED
      BY <2>1, <3>1 DEF Got
  <2>3. ReadSoFar'
    <3>1. read = [f \in Fields |-> IF f \in Got /\ json.at[f] # Absent THEN json.at[f]
                                   ELSE Default[f]]
      BY DEF ConfigInv, ReadSoFar
    <3>2. ReadOf(Field) = IF json.at[Field] # Absent THEN json.at[Field] ELSE Default[Field]
      BY <2>1, <3>1 DEF ReadOf
    <3> QED
      BY <2>1, <2>2, <3>1, <3>2 DEF ReadSoFar
  <2>4. /\ reading = "fields" /\ UNCHANGED <<reading, warned, cpu>>
        /\ next' \in 0..Len(Keys) /\ json.at[Keys[next + 1]] # BadType
    BY <1>3, <2>0 DEF ReadField, Field
  <2>5. \A i \in 1..next' : i \in 1..next \/ i = next + 1
    BY <2>1
  <2>6. ReadWhileUsable'
    BY <2>1, <2>4, <2>5 DEF ConfigInv, ReadWhileUsable
  <2> QED
    BY <2>3, <2>4, <2>6 DEF ConfigInv
<1>4. CASE FieldThrows
  <2>1. UNCHANGED <<json, next, read>>
    BY <1>4 DEF FieldThrows
  <2>2. ReadSoFar'
    BY <2>1 DEF ConfigInv, ReadSoFar, Got
  <2>3. ReadWhileUsable'
    BY <1>4, <2>1 DEF FieldThrows, ConfigInv, ReadWhileUsable, Field
  <2> QED
    BY <1>4, <2>1, <2>2, <2>3 DEF FieldThrows, ConfigInv
<1>5. CASE AllRead
  <2>1. UNCHANGED <<json, next, read>>
    BY <1>5 DEF AllRead
  <2>2. ReadSoFar'
    BY <2>1 DEF ConfigInv, ReadSoFar, Got
  <2>3. ReadWhileUsable'
    BY <1>5, <2>1 DEF AllRead, ConfigInv, ReadWhileUsable
  <2> QED
    BY <1>5, <2>1, <2>2, <2>3 DEF AllRead, ConfigInv
<1>6. CASE Construct
  <2>1. UNCHANGED <<json, next, read>>
    BY <1>6 DEF Construct
  <2>2. ReadSoFar'
    BY <2>1 DEF ConfigInv, ReadSoFar, Got
  <2>3. ReadWhileUsable'
    <3>1. UNCHANGED <<json, next, reading, warned>>
      BY <1>6 DEF Construct
    <3>2. ReadWhileUsable
      BY DEF ConfigInv
    <3> QED
      BY <3>1, <3>2, Zenon DEF ReadWhileUsable
  <2> QED
    BY <1>6, <2>1, <2>2, <2>3 DEF Construct, ConfigInv
<1>7. CASE UNCHANGED configVars
  <2>1. UNCHANGED <<json, next, read, reading, warned, cpu>>
    BY <1>7 DEF configVars
  <2>2. ReadSoFar'
    BY <2>1 DEF ConfigInv, ReadSoFar, Got
  <2>3. ReadWhileUsable'
    <3>1. ReadWhileUsable
      BY DEF ConfigInv
    <3> QED
      BY <2>1, <3>1, Zenon DEF ReadWhileUsable
  <2> QED
    BY <2>1, <2>2, <2>3 DEF ConfigInv
<1> QED
  BY <1>1, <1>2, <1>3, <1>4, <1>5, <1>6, <1>7 DEF ConfigNext

\* A CPU that is built runs what the file says, up to the first field that cannot be
\* used, whichever fields it mentions and in whichever order they are read; there is a
\* warning if and only if something of the file is not used.
THEOREM ConfigIsOfFile == ConfigSpec => []ConfigOfFile
<1>1. ASSUME ConfigInit PROVE ConfigInv
  <2>1. next = 0 /\ 0 \in 0..Len(Keys) /\ Got = {}
    <3>1. next = 0 /\ Len(Keys) \in Nat
      BY <1>1, KeyFacts DEF ConfigInit
    <3> QED
      BY <3>1 DEF Got
  <2>2. ReadSoFar
    <3>1. read = Default /\ Default = [f \in Fields |-> Default[f]]
      BY <1>1, ConfigAssumption DEF ConfigInit
    <3> QED
      BY <2>1, <3>1 DEF ReadSoFar
  <2>3. \A i : i \notin 1..0
    OBVIOUS
  <2>4. ReadWhileUsable
    BY <1>1, <2>1, <2>3 DEF ConfigInit, ReadWhileUsable
  <2> QED
    BY <1>1, <2>1, <2>2, <2>4 DEF ConfigInit, ConfigInv
<1>2. ConfigInv => ConfigOfFile
  <2> SUFFICES ASSUME ConfigInv, cpu = "built"
               PROVE  /\ warned = "none" <=> Usable(Len(Keys))
                      /\ \A f \in Fields :
                           read[f] = IF json.at[f] # Absent
                                        /\ \E i \in DOMAIN Keys : Keys[i] = f /\ Usable(i)
                                     THEN json.at[f] ELSE Default[f]
    BY DEF ConfigOfFile
  <2>1. /\ reading = "returned" /\ ReadWhileUsable /\ ReadSoFar
        /\ next \in 0..Len(Keys) /\ next \in Nat /\ Len(Keys) \in Nat
        /\ DOMAIN Keys = 1..Len(Keys)
    BY KeyFacts DEF ConfigInv
  <2>2. warned # "none" => \A i \in 0..Len(Keys) : i > next => ~Usable(i)
    <3> SUFFICES ASSUME warned # "none", NEW i \in 0..Len(Keys), i > next, Usable(i)
                 PROVE  FALSE
      OBVIOUS
    <3>1. next + 1 \in 1..i
      BY <2>1
    <3>2. json.at[Keys[next + 1]] # BadType /\ json.opens /\ json.parses
      BY <3>1 DEF Usable
    <3> QED
      BY <2>1, <3>2 DEF ReadWhileUsable
  <2>3. \A i \in 1..next : Usable(i)
    <3> SUFFICES ASSUME NEW i \in 1..next PROVE Usable(i)
      OBVIOUS
    <3>1. next > 0 /\ \A j \in 1..i : j \in 1..next
      BY <2>1
    <3>2. /\ \A j \in 1..next : json.at[Keys[j]] # BadType
          /\ next > 0 => json.opens /\ json.parses
      BY <2>1, Zenon DEF ReadWhileUsable
    <3> QED
      BY <3>1, <3>2, Zenon DEF Usable
  <2>4. warned = "none" => next = Len(Keys) /\ Usable(Len(Keys))
    BY <2>1 DEF ReadWhileUsable, Usable
  <2>5. warned # "none" => ~Usable(Len(Keys))
    <3> SUFFICES ASSUME warned # "none" PROVE ~Usable(Len(Keys))
      OBVIOUS
    <3>1. CASE next < Len(Keys)
      BY <2>1, <2>2, <3>1
    <3>2. CASE ~(next < Len(Keys))
      BY <2>1, <3>2, Zenon DEF ReadWhileUsable, Usable
    <3> QED
      BY <3>1, <3>2
  <2>6. \A i \in DOMAIN Keys : Usable(i) <=> i \in 1..next
    <3> SUFFICES ASSUME NEW i \in 1..Len(Keys) PROVE Usable(i) <=> i \in 1..next
      BY <2>1
    <3>1. i \in 0..Len(Keys) /\ (i \in 1..next \/ i > next)
      BY <2>1
    <3>2. i > next => ~Usable(i)
      <4>1. warned # "none" => (i > next => ~Usable(i))
        BY <2>2, <3>1, Zenon
      <4>2. warned = "none" => ~(i > next)
        BY <2>1, <2>4
      <4> QED
        BY <4>1, <4>2
    <3>3. i > next => i \notin 1..next
      BY <2>1
    <3> QED
      BY <2>3, <3>1, <3>2, <3>3, Zenon
  <2>7. \A f \in Fields : f \in Got <=> \E i \in DOMAIN Keys : Keys[i] = f /\ Usable(i)
    <3>1. 1..next \subseteq DOMAIN Keys
      BY <2>1
    <3> QED
      BY <2>6, <3>1 DEF Got
  <2>8. ASSUME NEW f \in Fields
        PROVE  read[f] = IF json.at[f] # Absent
                            /\ \E i \in DOMAIN Keys : Keys[i] = f /\ Usable(i)
                         THEN json.at[f] ELSE Default[f]
    <3>1. read[f] = IF f \in Got /\ json.at[f] # Absent THEN json.at[f] ELSE Default[f]
      BY <2>1 DEF ReadSoFar
    <3>2. f \in Got <=> \E i \in DOMAIN Keys : Keys[i] = f /\ Usable(i)
      BY <2>7
    <3> QED
      BY <3>1, <3>2, Zenon
  <2> QED
    BY <2>4, <2>5, <2>8, Zenon
<1> QED
  BY <1>1, <1>2, ConfigNextInv, PTL DEF ConfigSpec
=============================================================================
