------------------------------ MODULE MCReader ------------------------------
(***************************************************************************)
(* Small logs for TLC: real prologues and short sections, built from one   *)
(* example of each kind of message and of each kind of corruption. The     *)
(* chunks may be cut anywhere. BufferSizeInit is scaled down so that the   *)
(* partial buffer overflows, fills and grows.                              *)
(***************************************************************************)
EXTENDS Reader, Serialization

Fill(n, byte)      == [i \in 1 .. n |-> byte]

LogHeader      == Magic \o <<1>> \o Fill(8, 9)
WrongMagic     == Fill(16, 85)
Flags(compat, incompat, offset, extra) ==
    Header(40 + Len(extra), FLAG_BITS) \o Fill(8, compat) \o <<incompat>> \o Fill(7, 0)
      \o <<offset>> \o Fill(23, 0) \o extra
PlainFlags     == Flags(0, 0, 0, <<>>)

(* messages a writer produces *)
info       == Header(5, INFO) \o <<3, 97, 32, 98, 7>>
infoMulti  == Header(6, INFO_MULTIPLE) \o <<1, 3, 97, 32, 98, 7>>
param      == Header(5, PARAMETER) \o <<3, 97, 32, 98, 7>>
default    == Header(6, PARAMETER_DEFAULT) \o <<1, 3, 97, 32, 98, 7>>
format     == Header(6, FORMAT) \o <<109, Colon, 97, Space, 98, Semicolon>>
add        == Header(4, ADD_LOGGED_MSG) \o <<0, 0, 0, 109>>
data       == Header(3, DATA) \o <<0, 0, 1>>
dropout    == Header(2, DROPOUT) \o <<1, 0>>
sync       == Header(8, SYNC) \o SyncMagicBytes
logging    == Header(10, LOGGING) \o <<6>> \o Fill(8, 1) \o <<104>>
tagged     == Header(17, LOGGING_TAGGED) \o <<6, 0, 0>> \o Fill(8, 1) \o data
unknown    == Header(2, 90) \o <<1, 1>>
remove     == Header(2, REMOVE_LOGGED_MSG) \o <<0, 0>>

(* bytes that are none *)
zeros      == Fill(4, 0)
noType     == Header(1, 0) \o <<5>>
keyless    == Header(4, INFO) \o <<3, 97, 98, 99>>
badSync    == Header(8, SYNC) \o Fill(8, 3)
shortAdd   == Header(1, ADD_LOGGED_MSG) \o <<0>>
junk       == <<200, 200, 200, 200, 200, 200>>
array      == Header(9, FORMAT) \o <<109, Colon, 97, OpenBracket, 52, CloseBracket, Space, 98, Semicolon>>
badArray   == Header(8, FORMAT) \o <<109, Colon, 97, OpenBracket, CloseBracket, Space, 98, Semicolon>>

-----------------------------------------------------------------------------
AfterFlags == LogHeader \o PlainFlags

GoodBodies ==
    {format \o info \o param \o default \o add \o data,
     infoMulti \o logging \o data \o format,
     array \o remove \o tagged \o sync \o dropout}

CorruptBodies ==
    {format \o keyless \o add \o data,
     zeros \o add \o data \o data,
     add \o zeros \o junk \o data \o zeros \o sync,
     keyless \o badSync \o shortAdd \o data,
     add \o badSync \o tagged \o data,
     add \o noType \o zeros \o logging,
     data \o junk \o data}

(* No flag bits: the sections begin right behind the 16 bytes. *)
FlaglessBodies == {infoMulti \o array \o info \o tagged \o data, info \o zeros \o logging \o tagged \o data}

MCStreams ==
    {AfterFlags \o body : body \in GoodBodies \union CorruptBodies}
      \union {LogHeader \o body : body \in FlaglessBodies}

(* Prologues that are refused, or longer than the reader knows. *)
MCPrologues ==
    {WrongMagic \o PlainFlags \o data,
     LogHeader \o Flags(1, 2, 0, <<>>) \o add \o zeros \o data,
     LogHeader \o Flags(0, 1, 7, <<>>) \o add \o data,
     LogHeader \o Flags(0, 0, 0, <<1, 2, 3>>) \o add \o data,
     LogHeader \o info,
     LogHeader \o info \o zeros \o Fill(40, 0)}

MCForeignStreams == {AfterFlags \o badArray \o format \o data}

MCAnyStreams == MCStreams \union MCPrologues \union MCForeignStreams

MCReturnStreams ==
    {AfterFlags \o zeros \o junk \o add \o data \o noType \o data,
     AfterFlags \o keyless \o zeros \o dropout \o remove,
     WrongMagic \o zeros \o data}

MCRecoveryStreams == {AfterFlags \o add \o zeros \o data \o data \o data}

MCChunks    == 1 .. 130

=============================================================================
