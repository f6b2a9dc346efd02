------------------------------ MODULE Listing ------------------------------
(***************************************************************************)
(* Loader::ASM (utils/loader.cpp): from the lines of a disassembly to the  *)
(* text the TUI shows for each address, a line a step.  A line is what it  *)
(* has before its first colon and the blank-separated fields behind it.    *)
(***************************************************************************)
EXTENDS Integers, Sequences, SequencesExt

CONSTANTS
  WordMod,    \* 2^32
  Text,       \* what may stand in a field
  Dumps       \* the disassemblies there are, of Lines

\* `digits` are the hexadecimal digits the prefix starts with, when its leading
\* blanks are gone.  `kind` is what objdump means by the line.
Line == [kind: {"title", "section", "label", "code", "blank"},
         colon: BOOLEAN, digits: Seq(0..15), fields: Seq(Text)]

\* A line of objdump: an instruction has an address, its bytes and a name; there is
\* nothing behind the colon of a section or a label.
Written(line) ==
  /\ line.kind = "code" => line.colon /\ line.digits # <<>> /\ Len(line.fields) >= 2
  /\ line.kind \in {"section", "label", "blank"} => ~line.colon \/ line.fields = <<>>

ASSUME ListingAssumption ==
  /\ WordMod \in Nat \ {0} /\ Dumps \subseteq Seq(Line)
  /\ \A q \in Dumps : \A i \in DOMAIN q : Written(q[i])

VARIABLES
  lines,    \* the file
  n,        \* lines read
  disasm    \* address -> text

listingVars == <<lines, n, disasm>>

\* static_cast<uint32_t>(stoul(addr_str, nullptr, 16)), which stops at the first
\* character that is not a digit.
HexValue(digits) == FoldLeft(LAMBDA value, d : (16 * value + d) % WordMod, 0, digits)

\* Mutant of IsEntry: a line without digits is not passed over.
IsEntryWithoutDigits(line) == line.colon /\ Len(line.fields) >= 2

\* The line passes every `continue` of the loop: it has a colon, a digit before it
\* and at least two fields behind it.
IsEntry(line) == line.colon /\ line.digits # <<>> /\ Len(line.fields) >= 2

\* The first field holds the bytes of the instruction.
Instr(line) == Tail(line.fields)

-----------------------------------------------------------------------------
ListingInit == lines \in Dumps /\ n = 0 /\ disasm = <<>>

PassOver ==
  /\ n < Len(lines) /\ ~IsEntry(lines[n + 1])
  /\ n' = n + 1
  /\ UNCHANGED <<lines, disasm>>

Enter ==
  /\ n < Len(lines) /\ IsEntry(lines[n + 1])
  /\ LET a == HexValue(lines[n + 1].digits)
     IN  disasm' = [x \in DOMAIN disasm \cup {a} |->
                      IF x = a THEN Instr(lines[n + 1]) ELSE disasm[x]]
  /\ n' = n + 1
  /\ UNCHANGED lines

ListingNext == PassOver \/ Enter

ListingSpec == ListingInit /\ [][ListingNext]_listingVars

-----------------------------------------------------------------------------
\* What the TUI finds the pc in: each instruction read so far, by its address; and
\* nothing else, except for a title that begins like a number ("build/dot.elf:
\* file format elf32-littleriscv" is listed at address 0xb).
CodeAt(a) ==
  {i \in 1..n : lines[i].kind = "code" /\ HexValue(lines[i].digits) = a}

ListsCode ==
  /\ \A i \in 1..n : lines[i].kind = "code" => HexValue(lines[i].digits) \in DOMAIN disasm
  /\ \A a \in DOMAIN disasm :
       \/ \E i \in CodeAt(a) :
            disasm[a] = Instr(lines[i]) /\ \A j \in CodeAt(a) : j <= i
       \/ \E i \in 1..n : /\ lines[i].kind = "title" /\ HexValue(lines[i].digits) = a
                          /\ lines[i].digits # <<>>
=============================================================================
