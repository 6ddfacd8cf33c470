----------------------------- MODULE MCRoundTrip -----------------------------
(***************************************************************************)
(* Short logs for TLC, of formats that need no padding, have some at the  *)
(* end of their struct, or are refused: the compiler pads them between     *)
(* fields, a separator is part of a name, a type is not basic, the         *)
(* timestamp is missing, or the text is too long to be written.            *)
(***************************************************************************)
EXTENDS RoundTrip

Field(type, name, array) == [type |-> type, name |-> name, array |-> array]

Timestamp == Field("uint64_t", <<116, 105, 109, 101, 115, 116, 97, 109, 112>>, -1)

Format(name, fields) == [name |-> name, fields |-> fields]

Point    == Format(<<112>>, <<Timestamp>>)
Pose     == Format(<<113, 45>>, <<Timestamp, Field("uint16_t", <<98>>, -1), Field("int8_t", <<99>>, 3)>>)
Gap      == Format(<<103>>, <<Timestamp, Field("bool", <<98>>, -1), Field("int16_t", <<99>>, -1)>>)
Long     == Format(<<104>>, <<Timestamp, Field("char", [i \in 1 .. 50 |-> 98], -1)>>)
Again    == Format(<<112>>, <<Timestamp, Field("float", <<98>>, -1)>>)
Colons   == Format(<<112, Colon, 112>>, <<Timestamp>>)
Nested   == Format(<<110>>, <<Timestamp, Field("pose_t", <<98>>, -1)>>)
Timeless == Format(<<116>>, <<Field("double", <<98>>, -1)>>)

MCFormatsGiven == {Point, Pose, Gap, Long, Again, Colons, Nested, Timeless}
MCKeys         == {<<97>>}
MCValues       == {[type |-> "int32_t", bytes |-> <<1, 0, 0, 0>>],
                   [type |-> "std::string", bytes |-> <<104, 105>>]}
MCTexts        == {[level |-> 52, stamp |-> [i \in 1 .. 8 |-> 1], text |-> <<104, 105>>]}
=============================================================================
