----------------------------- MODULE MemAccess -----------------------------
(***************************************************************************)
(* What one load reads and one store writes when nothing else is in        *)
(* flight.  An access is a record with its op, address Va, vector length   *)
(* vl, element width sew and, for a store, the value V                     *)
(* (access_size, format_load, load, store and vload_forward of cpu/lsq.hpp)*)
(***************************************************************************)
EXTENDS Isa, Memory

\* Bytes of one element, and of the whole access.
element_size(e) ==
  CASE e.op \in VLoad \cup VStore            -> e.sew \div 8
    [] e.op \in {"LB", "LBU", "SB"}          -> 1
    [] e.op \in {"LH", "LHU", "SH"}          -> 2
    [] e.op \in {"LW", "SW", "FLW", "FSW"}   -> 4
access_size(e) ==
  IF e.op \in VLoad \cup VStore THEN e.vl * element_size(e) ELSE element_size(e)

elements(e) == IF e.op \in VLoad \cup VStore THEN e.vl ELSE 1
element_address(e, l) == (e.Va + l * element_size(e)) % WordMod

format_load(op, raw) ==
  CASE op = "LB"                    -> sign_extend(raw, 1)
    [] op = "LH"                    -> sign_extend(raw, 2)
    [] op \in {"LW", "FLW"}         -> raw
    [] op \in {"LBU", "LHU"}        -> raw

\* What the load reads from memory m when nothing is in flight; a vector load
\* reads byte by byte.
Loaded(e, m) ==
  IF e.op \in VLoad
    THEN LET n == element_size(e)
         IN  [l \in Lane |->
                IF l < e.vl
                  THEN Join([k \in 0..(n-1) |-> load(m, (e.Va + l * n + k) % WordMod, 1)], n)
                  ELSE 0]
    ELSE scalar(format_load(e.op, load(m, e.Va, access_size(e))))

\* LoadStoreQueue::store: what memory is after store e has committed.  Elements lie
\* side by side; one that is out of range throws, so that neither it nor those
\* behind it are written (and bytes that do not exist are lost).
Stored(e, m) ==
  LET n == element_size(e)
  IN  [a \in DOMAIN m |->
         LET k == (a - e.Va) % WordMod
         IN  IF /\ k < access_size(e)
                /\ \A l \in 0..(k \div n) : Checked(element_address(e, l), n)
               THEN ByteOf(e.V[k \div n], k % n) ELSE m[a]]

\* Every byte of the access exists.
InRange(e) == access_size(e) = 0 \/ InMemory(e.Va, access_size(e))

\* A store commits without an exception; and some element of an access goes past
\* the check although it does not exist (a vector load is made of bytes).
Passes(e) == \A l \in 0..(elements(e) - 1) : Checked(element_address(e, l), element_size(e))
IsWild(e) ==
  /\ e.op \notin VLoad
  /\ \E l \in 0..(elements(e) - 1) : Wild(element_address(e, l), element_size(e))
=============================================================================
