------------------------------ MODULE MCLoader ------------------------------
(***************************************************************************)
(* Calls of the three functions of the loader (utils/loader.cpp), which    *)
(* main makes one after the other and which share nothing.                 *)
(***************************************************************************)
EXTENDS Loader, Listing, ConfigFile, FiniteSets

\* ELF: files of two segments or of two sections, of addresses and sizes around
\* the end of memory and beyond the end of the address space.
Sized(sizes) ==
  {[load |-> TRUE, vaddr |-> v, data |-> d, memsz |-> size] :
     v \in {0, 2, 4, 15, 18}, d \in {<<>>, <<1>>, <<2, 3, 4, 5, 6>>}, size \in sizes}

Segments ==
  Sized({0, 1, 3, 4, 17}) \cup {[load |-> FALSE, vaddr |-> 9, data |-> <<7>>, memsz |-> 9]}

Sections ==
  {[exec |-> TRUE, addr |-> a, size |-> z] : a \in {0, 3, 15}, z \in {0, 1, 2, 15}}
  \cup {[exec |-> FALSE, addr |-> 9, size |-> 9]}

Opened(segments, sections) ==
  [opens |-> TRUE, segments |-> segments, sections |-> sections, entry |-> 0]

Unopened == [Opened(<<>>, <<>>) EXCEPT !.opens = FALSE]

SmallFiles ==
  {Opened(<<p, q>>, <<>>) : p \in Segments, q \in Segments}
  \cup {Opened(<<p>>, <<t, u>>) : p \in Sized({1, 15}), t \in Sections, u \in Sections}
  \cup {Unopened}

-----------------------------------------------------------------------------
\* ASM: disassemblies as objdump writes them, a title, then sections, labels and
\* instructions in any order, with addresses of one and two digits that are
\* sometimes equal.
Words == {"format", "elf32", "add", "x1", "00000013"}

Titles ==
  {[kind |-> "title", colon |-> TRUE, digits |-> d, fields |-> <<"format", "elf32">>] :
     d \in {<<>>, <<11>>}}

Body ==
  {[kind |-> "section", colon |-> TRUE, digits |-> <<13>>, fields |-> <<>>],
   [kind |-> "blank", colon |-> FALSE, digits |-> <<>>, fields |-> <<>>]}
  \cup {[kind |-> "label", colon |-> TRUE, digits |-> a, fields |-> <<>>] :
          a \in {<<4>>, <<1, 0>>}}
  \cup {[kind |-> "code", colon |-> TRUE, digits |-> a, fields |-> <<"00000013">> \o t] :
          a \in {<<0>>, <<4>>, <<11>>, <<1, 0>>}, t \in {<<"add">>, <<"add", "x1">>}}

SmallDumps == {<<t, a, b, c>> : t \in Titles, a \in Body, b \in Body, c \in Body}

-----------------------------------------------------------------------------
\* config: files that give values to up to three fields, of which any may be of the
\* wrong type.
ConfigKeys ==
  <<"name", "pipe_width", "rs_size", "lsq_size", "alu_count", "mul_count", "ctrl_count",
    "fpu_count", "vec_count", "lsu_count", "vector_bits", "branch_pred">>

Defaults ==
  [f \in Fields |-> CASE f = "name" -> "Baseline"
                      [] f = "branch_pred" -> "two_bit"
                      [] f = "vector_bits" -> "128"
                      [] f \in {"rs_size", "lsq_size"} -> "8"
                      [] OTHER -> "2"]

Accepted ==
  [f \in Fields |-> CASE f = "branch_pred" -> {"static_taken", "static_not_taken",
                                               "btfnt", "one_bit", "two_bit"}
                      [] f = "vector_bits" -> {"128", "256", "512"}
                      [] f = "name" -> {"Baseline", "other"}
                      [] OTHER -> {"0", "2", "4", "8"}]

\* One accepted value that is not the default, and one that is refused where any is.
Given(f) ==
  CASE f = "branch_pred" -> {"btfnt", "perceptron"}
    [] f = "vector_bits" -> {"256", "64"}
    [] f = "name" -> {"other"}
    [] OTHER -> {"4"}

Mentions(set) ==
  {at \in [set -> (UNION {Given(f) : f \in set}) \cup {BadType}] :
     \A f \in set : at[f] \in Given(f) \cup {BadType}}

SmallContents ==
  {[opens |-> o, parses |-> p, at |-> [f \in Fields |-> Absent]] :
     o \in BOOLEAN, p \in BOOLEAN}
  \cup {[opens |-> TRUE, parses |-> TRUE,
         at |-> [f \in Fields |-> IF f \in DOMAIN given THEN given[f] ELSE Absent]] :
          given \in UNION {Mentions(set) :
                             set \in {s \in SUBSET Fields : Cardinality(s) \in 1..3}}}

-----------------------------------------------------------------------------
VARIABLE called  \* the function that is called

\* The state of the functions that are not.
NoElf ==
  /\ file = Unopened /\ phase = "open" /\ k = 0
  /\ mem_size = 0 /\ code_end = 0 /\ memory = <<>>
NoListing == lines = <<>> /\ n = 0 /\ disasm = <<>>
NoConfigFile ==
  /\ json = <<>> /\ reading = "" /\ next = 0 /\ read = <<>>
  /\ warned = "none" /\ cpu = "none"

MCInit ==
  \/ called = "ELF"    /\ LoaderInit  /\ NoListing /\ NoConfigFile
  \/ called = "ASM"    /\ ListingInit /\ NoElf /\ NoConfigFile
  \/ called = "config" /\ ConfigInit  /\ NoElf /\ NoListing

MCNext ==
  /\ UNCHANGED called
  /\ \/ called = "ELF"    /\ LoaderNext  /\ UNCHANGED <<listingVars, configVars>>
     \/ called = "ASM"    /\ ListingNext /\ UNCHANGED <<loaderVars, configVars>>
     \/ called = "config" /\ ConfigNext  /\ UNCHANGED <<loaderVars, listingVars>>

MCSpec == MCInit /\ [][MCNext]_<<called, loaderVars, listingVars, configVars>>
=============================================================================
