---------------------------- MODULE MCZzThreads ----------------------------
(***************************************************************************)
(* Threads for TLC: two that write a type each, and main, whose data is    *)
(* too long for a message.                                                 *)
(***************************************************************************)
EXTENDS ZzThreads

CONSTANTS A, B, wide, t1, t2, main

MCSizeOf      == [s \in Structs |-> IF s \in {A, wide} THEN 4 ELSE 3]
MCMessageSize == [s \in Structs |-> IF s = wide THEN 4 ELSE 3]
MCAllStructs  == <<A, B, wide>>
MCNames       == {<<Text("test"), Number(1), Extension>>}

(* logger_test.cpp: main calls fsync while the others write. *)
MCTypeOf  == [t \in Threads |-> CASE t = t2 -> B [] t = main -> wide [] OTHER -> A]
MCProgram == [t \in Threads |-> IF t = main THEN {"fsync", "CreateInstance", "Write"} ELSE {"Write"}]
MCCalls   == [t \in Threads |-> IF t = main THEN 2 ELSE 3]
=============================================================================
