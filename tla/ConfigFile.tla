----------------------------- MODULE ConfigFile -----------------------------
(***************************************************************************)
(* Loader::config (utils/loader.cpp) and what CPU::CPU checks of what it   *)
(* returns.  The fields are read one after the other into the default      *)
(* configuration, and reading any of them may throw: a step reads one.     *)
(***************************************************************************)
EXTENDS Integers, Sequences

CONSTANTS
  Keys,       \* the fields, in the order they are read
  Default,    \* Config(): a value for each field
  Accepts,    \* field -> the values CPU::CPU takes
  Absent,     \* not in the file
  BadType,    \* in the file, but of another JSON type
  Contents    \* the files there are: [opens, parses, at: field -> value]

Fields == {Keys[i] : i \in DOMAIN Keys}
Values == (UNION {Accepts[f] : f \in Fields}) \cup {Default[f] : f \in Fields}

ASSUME ConfigAssumption ==
  /\ Keys \in Seq(Fields)
  /\ Default \in [Fields -> Values]
  /\ \A f \in Fields : Default[f] \in Accepts[f]
  /\ Absent \notin Values /\ BadType \notin Values

VARIABLES
  json,       \* the file
  reading,    \* "open", "fields", and in the end "returned"
  next,       \* fields read so far
  read,       \* the Config being filled
  warned,     \* "none", or the message: "unopened", "unparsed"
  cpu         \* "none", or what CPU::CPU did with it: "built", "thrown"

configVars == <<json, reading, next, read, warned, cpu>>

-----------------------------------------------------------------------------
ConfigInit ==
  /\ json \in Contents
  /\ reading = "open" /\ next = 0
  /\ read = Default
  /\ warned = "none" /\ cpu = "none"

OpenConfig ==
  /\ reading = "open" /\ json.opens
  /\ \/ json.parses /\ reading' = "fields" /\ UNCHANGED warned
     \/ ~json.parses /\ reading' = "returned" /\ warned' = "unparsed"
  /\ UNCHANGED <<json, next, read, cpu>>

NoConfig ==
  /\ reading = "open" /\ ~json.opens
  /\ reading' = "returned" /\ warned' = "unopened"
  /\ UNCHANGED <<json, next, read, cpu>>

\* json.value(key, config.key)
Field == Keys[next + 1]
ReadOf(field) == IF json.at[field] = Absent THEN read[field] ELSE json.at[field]

\* Mutant of ReadField: a field that is absent is taken from the field before.
ReadFieldOfAnother ==
  /\ reading = "fields" /\ next < Len(Keys)
  /\ json.at[Field] # BadType
  /\ read' = [read EXCEPT ![Field] =
                IF json.at[Field] = Absent /\ next > 0 THEN read[Keys[next]] ELSE ReadOf(Field)]
  /\ next' = next + 1
  /\ UNCHANGED <<json, reading, warned, cpu>>

ReadField ==
  /\ reading = "fields" /\ next < Len(Keys)
  /\ json.at[Field] # BadType
  /\ read' = [read EXCEPT ![Field] = ReadOf(Field)]
  /\ next' = next + 1
  /\ UNCHANGED <<json, reading, warned, cpu>>

FieldThrows ==
  /\ reading = "fields" /\ next < Len(Keys)
  /\ json.at[Field] = BadType
  /\ reading' = "returned" /\ warned' = "unparsed"
  /\ UNCHANGED <<json, next, read, cpu>>

AllRead ==
  /\ reading = "fields" /\ next = Len(Keys)
  /\ reading' = "returned"
  /\ UNCHANGED <<json, next, read, warned, cpu>>

\* CPU::CPU throws invalid_argument for some fields; nothing catches it.
Construct ==
  /\ reading = "returned" /\ cpu = "none"
  /\ cpu' = IF \A f \in Fields : read[f] \in Accepts[f] THEN "built" ELSE "thrown"
  /\ UNCHANGED <<json, reading, next, read, warned>>

ConfigNext ==
  \/ OpenConfig \/ NoConfig
  \/ ReadField \/ FieldThrows \/ AllRead
  \/ Construct

ConfigSpec == ConfigInit /\ [][ConfigNext]_configVars

-----------------------------------------------------------------------------
\* The i-th field is read only from a file that opens and parses and in which all
\* fields up to it have the right type.
Usable(i) ==
  /\ json.opens /\ json.parses
  /\ \A j \in 1..i : json.at[Keys[j]] # BadType

\* A CPU that is built runs the configuration of the file, with the default for each
\* field it does not mention, and a file that is not used whole gets a warning.  Of
\* such a file the fields before the first bad one are kept, although the warning
\* (loader.cpp:110) says that the default configuration is used; the others are the
\* default's.
ConfigOfFile ==
  cpu = "built" =>
    /\ warned = "none" <=> Usable(Len(Keys))
    /\ \A f \in Fields :
         read[f] = IF json.at[f] # Absent /\ \E i \in DOMAIN Keys : Keys[i] = f /\ Usable(i)
                   THEN json.at[f] ELSE Default[f]
=============================================================================
