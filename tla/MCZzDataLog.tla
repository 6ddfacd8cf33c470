---------------------------- MODULE MCZzDataLog ----------------------------
(***************************************************************************)
(* Loggers for TLC: two types of different sizes, one whose data is too    *)
(* long for a message, two whose format is, one of them by its name, one   *)
(* whose format is refused and one without a name; files that are full     *)
(* after two records.                                                      *)
(***************************************************************************)
EXTENDS ZzDataLog

CONSTANTS A, B, wide, long, endless, bad, anonymous

(* A has a byte of padding at its end. *)
MCSizeOf      == [t \in Structs |-> IF t \in {A, wide} THEN 4 ELSE 3]
MCMessageSize == [t \in Structs |-> IF t = wide THEN 4 ELSE 3]

(* An info message with this key is too long. *)
MCLongInfos   == {"l"} \X Values

Test1Ulg == <<Text("test"), Number(1), Extension>>
TestUlg  == <<Text("test"), Extension>>
FiveUlg  == <<Number(5), Extension>>
DotUlg   == <<Text(""), Extension>>

Versioned  == {Test1Ulg, DotUlg}
AnyNames   == {Test1Ulg, TestUlg, FiveUlg, DotUlg}

(* The calls of examples/logger_test.cpp, in its first mode and in all.     *)
Managed == {"Init", "Write", "writeTextMessage", "writeParameterChange", "CreateInstance", "fsync"}
Manual  == {"writeInfo", "writeParameter", "writeMessageFormat", "headerComplete",
            "writeAddLoggedMessage", "writeData"}
AnyCall == Managed \union Manual
=============================================================================
