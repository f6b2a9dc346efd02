------------------------------ MODULE ExecPath ------------------------------
(***************************************************************************)
(* An execution path (cpu/exec_path.hpp): reservation stations in front of *)
(* a few identical units (cpu/exec.hpp) and the results not yet collected. *)
(*                                                                         *)
(* A path is a record.  Its stations are a function from the busy slots to *)
(* the RSEntry each holds; its units, a set with one member per busy unit: *)
(* the entry it works on and its cycles_remaining.  Which of the identical *)
(* units holds an entry makes no difference.  A completed result is a      *)
(* record of the op and tag of its instruction and its `result`.           *)
(***************************************************************************)
EXTENDS Isa, FiniteSetsExt, Functions

EmptyPath == [stations |-> <<>>, units |-> {}, completed |-> {}]

\* find_slot: the first station that is not busy.
FreeSlots(path, rs_size) == (1..rs_size) \ DOMAIN path.stations
can_allocate(path, rs_size) == FreeSlots(path, rs_size) # {}

Dispatched(path, rs_size, entry) ==
  LET slot == Min(FreeSlots(path, rs_size))
  IN  [path EXCEPT !.stations =
         [s \in DOMAIN path.stations \cup {slot} |->
            IF s = slot THEN entry ELSE path.stations[s]]]

\* can_issue; the address generation units (agu) need only the base register
\* and the vl, not the data to be stored.
can_issue(e, agu) ==
  /\ e.Qj = NoTag /\ e.Qv = NoTag
  /\ agu \/ (e.Qk = NoTag /\ e.Ql = NoTag)

\* issue: in the order of the slots, ready entries go to the idle units.
Starting(path, unit_count, agu) ==
  LET ready == {s \in DOMAIN path.stations : can_issue(path.stations[s], agu)}
      idle  == unit_count - Cardinality(path.units)
  IN  {s \in ready : Cardinality({r \in ready : r < s}) < idle}

latency(e, agu) == IF agu THEN 1 ELSE cycles(e.op)

Issued(path, unit_count, agu) ==
  LET starting == Starting(path, unit_count, agu)
  IN  [path EXCEPT
         !.stations = Restrict(path.stations, DOMAIN path.stations \ starting),
         !.units = @ \cup {[rs |-> path.stations[s],
                            left |-> latency(path.stations[s], agu)] : s \in starting}]

\* execute: every busy unit steps; those that finish give their result.
Finishing(path) == {u.rs : u \in {v \in path.units : v.left = 1}}
Executed(path, results) ==
  [path EXCEPT
     !.units = {[u EXCEPT !.left = @ - 1] : u \in {v \in path.units : v.left # 1}},
     !.completed = @ \cup results]

\* take_finished, one result at a time.
Taken(path, x) == [path EXCEPT !.completed = @ \ {x}]

\* Mutant of Wake: the second operand is overlooked.
WakeNotVk(e, x) ==
  LET tag(Q)      == IF Q = x.tag THEN NoTag ELSE Q
      value(V, Q) == IF Q = x.tag THEN x.result.value ELSE V
  IN  [e EXCEPT !.Vj = value(@, e.Qj), !.Vl = value(@, e.Ql),
                !.Qj = tag(@), !.Ql = tag(@), !.Qv = tag(@)]

\* wake: the result of instruction x reaches the operands that wait for it.
Wake(e, x) ==
  LET tag(Q)      == IF Q = x.tag THEN NoTag ELSE Q
      value(V, Q) == IF Q = x.tag THEN x.result.value ELSE V
  IN  [e EXCEPT !.Vj = value(@, e.Qj), !.Vk = value(@, e.Qk), !.Vl = value(@, e.Ql),
                !.Qj = tag(@), !.Qk = tag(@), !.Ql = tag(@), !.Qv = tag(@),
                !.vl = IF e.Qv = x.tag THEN x.result.vl ELSE @,
                !.sew = IF e.Qv = x.tag THEN x.result.sew ELSE @]
Woken(path, x) ==
  [path EXCEPT !.stations = [s \in DOMAIN @ |-> Wake(@[s], x)]]

\* Mutant of Flushed: the units are not flushed.
FlushedNotUnits(path, tag) ==
  LET Older(s) == path.stations[s].tag <= tag
  IN  [path EXCEPT !.stations =
         Restrict(path.stations, {s \in DOMAIN path.stations : Older(s)})]

\* flush: whatever is younger than tag leaves the stations, units and results.
Flushed(path, tag) ==
  LET Older(s) == path.stations[s].tag <= tag
  IN  [stations  |-> Restrict(path.stations, {s \in DOMAIN path.stations : Older(s)}),
       units     |-> {u \in path.units : u.rs.tag <= tag},
       completed |-> {x \in path.completed : x.tag <= tag}]

\* The tags of the instructions a path holds.
Waiting(path)  == {path.stations[s].tag : s \in DOMAIN path.stations}
Running(path)  == {u.rs.tag : u \in path.units}
Finished(path) == {x.tag : x \in path.completed}
=============================================================================
