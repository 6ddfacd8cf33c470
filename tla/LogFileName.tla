---------------------------- MODULE LogFileName ----------------------------
(***************************************************************************)
(* The file names of zz_data_log, which carry the version of a rotated log *)
(* between the last two dots: "test.1.ulg". A name is the sequence of its  *)
(* dot-separated parts; a directory in front of it is copied unchanged and *)
(* left out. A part is a text that std::stoi refuses, or a number.         *)
(***************************************************************************)
EXTENDS Integers, Sequences

CONSTANT Texts      \* what may stand between two dots that is not a number

ASSUME TextsAssumption == {"", "ulg"} \subseteq Texts

NotANumber == -1
Text(t)    == [text |-> t, number |-> NotANumber]
Number(n)  == [text |-> "", number |-> n]

Parts      == [text : Texts, number : Int]

Extension == Text("ulg")

(* isValidFilename: there is a dot, and ".ulg" is what follows the last. *)
IsValidFilename(name) == Len(name) >= 2 /\ name[Len(name)] = Extension

(* std::stoi takes the part for a number. *)
IsNumber(part) == part.number # NotANumber

(* The part the version is read from: between the last two dots, and for a  *)
(* name with one dot only (rfind gives npos) all that is in front of it.    *)
VersionPart(name) == name[Len(name) - 1]

(* rfind('.', lastDotPos - 1) finds lastDotPos again only when that is 0:   *)
(* the name is ".ulg".                                                      *)
NoStem(name) == Len(name) = 2 /\ name[1] = Text("")

(* std::stoi throws std::invalid_argument on the version part.              *)
HasNoVersion(name) == ~ NoStem(name) /\ ~ IsNumber(VersionPart(name))

NewFilenameBare(name) ==      \* mutant: no ".ulg" appended
    <<Text(""), Number(VersionPart(name).number + 1)>>

(* generateNewFilename, generateNewPathOrFilename, for a name with a dot    *)
(* whose version part is a number. With one dot the stem is the whole name. *)
NewFilename(name) ==
    IF NoStem(name) THEN <<Text(""), Number(1), Extension>>
    ELSE LET stem == IF Len(name) = 2 THEN name ELSE SubSeq(name, 1, Len(name) - 2)
         IN  stem \o <<Number(VersionPart(name).number + 1), Extension>>
=============================================================================
