---------------------------- MODULE MCLogReading ----------------------------
(***************************************************************************)
(* The logs of MCReader, and some of which a copy differs in its bytes, or *)
(* which the container refuses, or which end with an empty message, or     *)
(* whose header goes on behind a foreign exception, for each of the        *)
(* handlers.                                                               *)
(***************************************************************************)
EXTENDS LogReading, MCReader

firstPart  == Header(6, INFO_MULTIPLE) \o <<0, 3, 97, 32, 98, 8>>
otherPart  == Header(6, INFO_MULTIPLE) \o <<3, 3, 97, 32, 99, 9>>
oddArray   == Header(11, FORMAT) \o <<110, Colon, 97, OpenBracket, 48, 52, 120, CloseBracket, Space, 98, Semicolon>>
noArray    == Header(10, FORMAT) \o <<111, Colon, 97, OpenBracket, 45, 49, CloseBracket, Space, 98, Semicolon>>
longSync   == Header(9, SYNC) \o SyncMagicBytes \o <<1>>
longDrop   == Header(3, DROPOUT) \o <<2, 0, 1>>
warning    == Header(10, LOGGING) \o <<52>> \o Fill(8, 2) \o <<105>>

KeptBodies ==
    {format \o info \o info \o param \o default \o add \o data \o param \o info \o data \o dropout,
     firstPart \o infoMulti \o firstPart \o infoMulti \o warning \o infoMulti \o default,
     format \o oddArray \o noArray \o add \o longSync \o longDrop \o tagged \o data}

RefusedBodies ==
    {format \o format \o add \o add \o data,
     infoMulti \o otherPart \o firstPart \o infoMulti \o logging \o data,
     format \o param \o shortAdd \o dropout \o default \o data}

EmptyEnd == {format \o add \o data \o Fill(3, 0)}

ForeignInHeader == {badArray \o format \o add \o data}

MCLogs ==
    {AfterFlags \o body : body \in GoodBodies \union KeptBodies \union RefusedBodies
                                    \union EmptyEnd \union ForeignInHeader}
      \union MCStreams \union MCForeignStreams

MCNewHandlers == {NewWriter, Unfilled("Header"), Unfilled("FullLog")}
=============================================================================
