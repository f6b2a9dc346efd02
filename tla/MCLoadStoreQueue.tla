-------------------------- MODULE MCLoadStoreQueue --------------------------
(***************************************************************************)
(* Small instances of LoadStoreQueue: bits for bytes and a memory of one   *)
(* word, with accesses of different sizes at overlapping addresses.        *)
(***************************************************************************)
EXTENDS LoadStoreQueue

VARIABLE mix  \* the accesses of this behaviour, and the data of its stores

\* Loads and stores of one and two bytes, where 3 sets both of two bytes and 2 only
\* the second; and vectors of one or two lanes of one or two bytes, with byte stores,
\* where the lanes, and the bytes of each, differ.
Mixes ==
  { [ops |-> {"SB", "SH", "LH", "LBU"}, data |-> {scalar(2), scalar(3)}],
    [ops |-> {"VSE16_V", "VSE8_V", "VLE8_V", "SB"},
     data |-> {[l \in Lane |-> IF l = 0 THEN 1 ELSE 2]}] }
AllAccesses == UNION {m.ops : m \in Mixes}
AllData == UNION {m.data : m \in Mixes}

MixInit == mix \in Mixes /\ LsqInit

MixNext ==
  /\ LsqNext
  /\ \A i \in DOMAIN lsq' :
       /\ lsq'[i].op \in mix.ops
       /\ lsq'[i].op \in Store => lsq'[i].V \in mix.data
       /\ lsq'[i].op \notin VLoad \cup VStore => lsq'[i].vl = 0
  /\ UNCHANGED mix

MixSpec == MixInit /\ [][MixNext]_<<lsqVars, mix>> /\ WF_lsqVars(Progress)
=============================================================================
