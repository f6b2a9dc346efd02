---------------------------- MODULE MCSimulator ----------------------------
(***************************************************************************)
(* Programs of a few steps that halt, throw or never end, with a stack     *)
(* pointer that moves to the end of memory and off its words.              *)
(***************************************************************************)
EXTENDS Simulator

Quiet(pc, sp) ==
  [pc |-> pc, sp |-> sp, jumped |-> FALSE, stalled |-> FALSE, regs |-> {}, mems |-> {}]

Frames ==
  <<Quiet(4, 1),
    [Quiet(8, 5) EXCEPT !.stalled = TRUE, !.mems = {5}],
    [Quiet(0, 12) EXCEPT !.jumped = TRUE, !.regs = {1}]>>

Halting == [frames |-> Frames, end |-> "halts"]
Failing == [frames |-> <<Frames[1], Frames[3]>>, end |-> "throws"]
Endless == [frames |-> Frames, end |-> "loops"]

Run(c, headless) ==
  [course |-> c, listing |-> <<0, 4>>, loads |-> TRUE, built |-> TRUE,
   headless |-> headless, writable |-> TRUE]

MixedRuns ==
  {Run(Halting, FALSE), Run(Halting, TRUE), Run(Endless, FALSE), Run(Endless, TRUE),
   Run(Failing, FALSE), Run(Failing, TRUE),
   [Run(Halting, TRUE) EXCEPT !.writable = FALSE],
   [Run(Halting, FALSE) EXCEPT !.listing = <<>>],
   [Run(Halting, TRUE) EXCEPT !.loads = FALSE], [Run(Halting, TRUE) EXCEPT !.built = FALSE]}

FilesOfResults == {<<>>, <<"header", "row">>}
=============================================================================
