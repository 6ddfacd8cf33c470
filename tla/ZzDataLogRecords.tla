-------------------------- MODULE ZzDataLogRecords --------------------------
(***************************************************************************)
(* Theorems about the data that ZzDataLog writes across rotations: the ids *)
(* stay, every piece of data is under an id of its own type, none is lost  *)
(* or doubled, and no file outgrows the limit by more than one record.     *)
(***************************************************************************)
EXTENDS ZzDataLogProofs

(***************************************************************************)
(* What the logger caches for later files. A rotation gives the types the  *)
(* ids they had if the cached list is the one the current file was         *)
(* initialized with; of every other list it must be known that it cannot   *)
(* be initialized with at all (it still holds the struct that an earlier   *)
(* Init stopped for), so that no rotation with it succeeds. For this the   *)
(* formats of a file must be in the list: an Init refused because of one   *)
(* of them leaves a list with that type twice. A struct without a name is  *)
(* not cached when Init stops for it, and headerComplete and               *)
(* writeMessageFormat complete a file that no list initialized; nor does a *)
(* list that can be initialized with help if the key-value info cached     *)
(* with it is too long. Without these it holds.                            *)
(***************************************************************************)
InfosFit == \A key \in Keys, value \in Values : <<key, value>> \notin LongInfos

OnlyInit ==
    Nameless = {} /\ InfosFit /\ "writeMessageFormat" \notin Api /\ "headerComplete" \notin Api

CachedList == initParams.structs
KeyIsCached == initParams.key # "" /\ initParams.value # ""

CacheInv ==
    /\ formats \subseteq RangeOf(CachedList)
    /\ headerComplete => KeyIsCached
    /\ writer = "header" => CachedList = <<>> \/ Stops(NewFile, CachedList) # {}
    /\ headerComplete => Stops(NewFile, CachedList) # {} \/ idMap = IdsOf(CachedList, 0)

LEMMA RangeConcat ==
    ASSUME NEW S, NEW s \in Seq(S), NEW u \in Seq(S)
    PROVE  RangeOf(s \o u) = RangeOf(s) \union RangeOf(u)
  <1>1. Len(s) \in Nat /\ Len(u) \in Nat /\ DOMAIN s = 1 .. Len(s) /\ DOMAIN u = 1 .. Len(u)
    BY LenProperties
  <1>2. /\ s \o u \in Seq(S) /\ Len(s \o u) = Len(s) + Len(u)
        /\ \A i \in 1 .. Len(s) + Len(u) : (s \o u)[i] = IF i <= Len(s) THEN s[i] ELSE u[i - Len(s)]
    BY ConcatProperties
  <1>3. DOMAIN (s \o u) = 1 .. Len(s) + Len(u)
    BY <1>2, LenProperties
  <1>4. ASSUME NEW i \in 1 .. Len(s) PROVE i \in 1 .. Len(s) + Len(u) /\ (s \o u)[i] = s[i]
    BY <1>1, <1>2
  <1>5. ASSUME NEW i \in 1 .. Len(u)
        PROVE  i + Len(s) \in 1 .. Len(s) + Len(u) /\ (s \o u)[i + Len(s)] = u[i]
    <2>1. i + Len(s) \in 1 .. Len(s) + Len(u) /\ ~ (i + Len(s) <= Len(s)) /\ i + Len(s) - Len(s) = i
      BY <1>1
    <2> QED BY <1>2, <2>1
  <1>6. ASSUME NEW i \in 1 .. Len(s) + Len(u) PROVE (s \o u)[i] \in RangeOf(s) \union RangeOf(u)
    <2>1. CASE i \in 1 .. Len(s)
      BY <1>1, <1>4, <2>1 DEF RangeOf
    <2>2. CASE ~ (i \in 1 .. Len(s))
      <3>1. i - Len(s) \in 1 .. Len(u) /\ (s \o u)[i] = u[i - Len(s)]
        BY <1>1, <1>2, <2>2
      <3> QED BY <1>1, <3>1 DEF RangeOf
    <2> QED BY <2>1, <2>2
  <1>7. RangeOf(s \o u) \subseteq RangeOf(s) \union RangeOf(u)
    BY <1>3, <1>6 DEF RangeOf
  <1>8. RangeOf(s) \subseteq RangeOf(s \o u) /\ RangeOf(u) \subseteq RangeOf(s \o u)
    BY <1>1, <1>3, <1>4, <1>5 DEF RangeOf
  <1> QED BY <1>7, <1>8

LEMMA PrefixRange ==
    ASSUME NEW S, NEW s \in Seq(S), NEW n \in 1 .. Len(s)
    PROVE  RangeOf(SubSeq(s, 1, n - 1)) \subseteq RangeOf(s)
  <1>1. Len(s) \in Nat /\ n - 1 \in Nat /\ n - 1 <= Len(s) /\ DOMAIN s = 1 .. Len(s)
    BY LenProperties
  <1>2. /\ SubSeq(s, 1, n - 1) \in Seq(S) /\ Len(SubSeq(s, 1, n - 1)) = n - 1
        /\ \A i \in 1 .. n - 1 : SubSeq(s, 1, n - 1)[i] = s[i]
    <2>1. 1 \in Int /\ n - 1 \in Int /\ 1 <= n - 1 + 1 /\ n - 1 - 1 + 1 = n - 1
      BY <1>1
    <2>2. \A i \in 1 .. n - 1 : s[i] \in S /\ 1 + i - 1 = i
      BY <1>1, ElementOfSeq
    <2> QED BY <1>1, <2>1, <2>2, SubSeqProperties
  <1>3. \A i \in 1 .. n - 1 : i \in 1 .. Len(s)
    BY <1>1
  <1> QED BY <1>1, <1>2, <1>3, LenProperties DEF RangeOf

(* What stops an Init stops it with any list behind or before it too. *)
LEMMA StopsBefore ==
    ASSUME NEW s \in Seq(Structs), NEW u \in Seq(Structs), Stops(NewFile, s) # {}
    PROVE  Stops(NewFile, s \o u) # {}
  <1>1. Len(s) \in Nat /\ Len(u) \in Nat
    BY LenProperties
  <1>2. /\ s \o u \in Seq(Structs) /\ Len(s \o u) = Len(s) + Len(u)
        /\ \A i \in 1 .. Len(s) + Len(u) : (s \o u)[i] = IF i <= Len(s) THEN s[i] ELSE u[i - Len(s)]
    BY ConcatProperties
  <1>3. PICK i \in 1 .. Len(s) :
          s[i] \in Refused \union Nameless \union LongFormats \union NewFile.formats \union {s[j] : j \in 1 .. i - 1}
    BY DEF Stops
  <1>4. \A j \in 1 .. Len(s) : j \in 1 .. Len(s \o u) /\ (s \o u)[j] = s[j]
    BY <1>1, <1>2
  <1>5. \A j \in 1 .. i - 1 : j \in 1 .. Len(s)
    BY <1>1, <1>3
  <1>6. {s[j] : j \in 1 .. i - 1} \subseteq {(s \o u)[j] : j \in 1 .. i - 1}
    BY <1>4, <1>5
  <1>7. i \in Stops(NewFile, s \o u)
    BY <1>3, <1>4, <1>6 DEF Stops
  <1> QED BY <1>7

LEMMA StopsBehind ==
    ASSUME NEW s \in Seq(Structs), NEW u \in Seq(Structs), NEW k \in 1 .. Len(u),
           u[k] \in Refused \union Nameless \union LongFormats \union RangeOf(s) \union {u[j] : j \in 1 .. k - 1}
    PROVE  Stops(NewFile, s \o u) # {}
  <1>1. Len(s) \in Nat /\ Len(u) \in Nat /\ DOMAIN s = 1 .. Len(s)
    BY LenProperties
  <1>2. /\ s \o u \in Seq(Structs) /\ Len(s \o u) = Len(s) + Len(u)
        /\ \A i \in 1 .. Len(s) + Len(u) : (s \o u)[i] = IF i <= Len(s) THEN s[i] ELSE u[i - Len(s)]
    BY ConcatProperties
  <1> DEFINE n == Len(s) + k
             w == s \o u
  <1> HIDE DEF w
  <1>3. n \in 1 .. Len(s) + Len(u) /\ ~ (n <= Len(s)) /\ n - Len(s) = k
    BY <1>1
  <1>4. n \in 1 .. Len(w) /\ w[n] = u[k]
    BY <1>2, <1>3 DEF w
  <1>5. ASSUME NEW j \in 1 .. Len(s) PROVE j \in 1 .. n - 1 /\ w[j] = s[j]
    <2>1. j \in 1 .. n - 1 /\ j \in 1 .. Len(s) + Len(u) /\ j <= Len(s)
      BY <1>1
    <2> QED BY <1>2, <2>1 DEF w
  <1>6. ASSUME NEW j \in 1 .. k - 1 PROVE j + Len(s) \in 1 .. n - 1 /\ w[j + Len(s)] = u[j]
    <2>1. /\ j + Len(s) \in 1 .. n - 1 /\ j + Len(s) \in 1 .. Len(s) + Len(u)
          /\ ~ (j + Len(s) <= Len(s)) /\ j + Len(s) - Len(s) = j
      BY <1>1
    <2> QED BY <1>2, <2>1 DEF w
  <1>7. RangeOf(s) \subseteq {w[j] : j \in 1 .. n - 1}
    BY <1>1, <1>5 DEF RangeOf
  <1>8. {u[j] : j \in 1 .. k - 1} \subseteq {w[j] : j \in 1 .. n - 1}
    BY <1>6
  <1> HIDE DEF n
  <1>9. n \in Stops(NewFile, w)
    BY <1>4, <1>7, <1>8 DEF Stops
  <1> QED BY <1>9 DEF w

LEMMA InitCacheInv == Init => CacheInv
  <1> SUFFICES ASSUME Init PROVE CacheInv
    OBVIOUS
  <1>1. PICK c, name : initParams = [fileName |-> IF c = "CreateInstance" THEN name ELSE <<>>,
                                     key |-> "", value |-> "", structs |-> <<>>]
    BY Zenon DEF Init
  <1>2. initParams.structs = <<>>
    BY <1>1, Zenon
  <1>3. formats = {} /\ headerComplete = FALSE
    BY Zenon DEF Init
  <1> QED BY <1>2, <1>3 DEF CacheInv, CachedList

(* The list that an Init leaves. *)
LEMMA InitLoggerCache ==
    ASSUME OnlyInit, IInv, TypeInv, FilesInv, CacheInv, NEW key, NEW value,
           NEW structs \in Seq(Structs), InitLogger(key, value, structs)
    PROVE  CacheInv'
  <1> DEFINE d    == Initialized(Fields, key, value, structs)
             stop == StopOf(Fields, structs)
             old  == initParams.structs
             given == key # "" /\ value # ""
  <1>1. /\ writer' = d.writer /\ headerComplete' = d.headerComplete /\ formats' = d.formats
        /\ idMap' = d.idMap
        /\ initParams' = IF key = "" \/ value = "" THEN initParams
                         ELSE [initParams EXCEPT !.key = key, !.value = value,
                                                 !.structs = @ \o Cached(key, value, structs)]
    BY DEF InitLogger, Become
  <1>2. \/ /\ Untouching(Fields, d)
           /\ ~ given \/ headerComplete \/ writer = "null" \/ <<key, value>> \in LongInfos
        \/ /\ Stops(Fields, structs) # {}
           /\ Stopping(Fields, d, SubSeq(structs, 1, stop - 1), structs[stop])
           /\ given /\ <<key, value>> \notin LongInfos
        \/ /\ Subscribing(Fields, d, structs)
           /\ given /\ <<key, value>> \notin LongInfos /\ Stops(Fields, structs) = {}
    BY FieldsAre, InitializedIs DEF given
  <1> HIDE DEF given
  <1>3. old \in Seq(Structs)
    BY DEF TypeInv, ParamsTyped
  <1>4. old \o <<>> = old
    BY <1>3, ConcatEmptySeq
  <1>5. given => KeyIsCached' /\ initParams'.structs = old \o Cached(key, value, structs)
    <2>1. initParams \in [fileName : Seq(Parts), key : Keys \union {""}, value : Values \union {""},
                          structs : Seq(Structs)]
      BY DEF TypeInv, ParamsTyped
    <2> QED BY <1>1, <2>1 DEF KeyIsCached, given
  <1> HIDE DEF d
  <1>6. CASE /\ Untouching(Fields, d)
             /\ ~ given \/ headerComplete \/ writer = "null" \/ <<key, value>> \in LongInfos
    <2>1. UNCHANGED <<writer, headerComplete, formats, idMap>>
      BY <1>1, <1>6, FieldsAre DEF Untouching
    <2>2. CASE ~ given
      <3>1. initParams' = initParams
        BY <1>1, <2>2 DEF given
      <3> QED BY <2>1, <3>1 DEF CacheInv, CachedList, KeyIsCached
    <2>3. CASE given
      <3>1. Cached(key, value, structs) = <<>>
        BY <1>6, <2>3 DEF Cached
      <3>2. initParams'.structs = old
        BY <1>4, <1>5, <2>3, <3>1
      <3> QED BY <1>5, <2>1, <2>3, <3>2 DEF CacheInv, CachedList
    <2> QED BY <2>2, <2>3
  <1>7. CASE /\ Stops(Fields, structs) # {}
             /\ Stopping(Fields, d, SubSeq(structs, 1, stop - 1), structs[stop])
             /\ given /\ <<key, value>> \notin LongInfos
    <2> DEFINE u == SubSeq(structs, 1, stop)
    <2>1. stop \in Stops(Fields, structs) /\ stop \in 1 .. Len(structs)
      BY <1>7, FirstStop
    <2>2. ~ headerComplete /\ writer # "null"
      BY <1>7, FieldsAre DEF Stopping
    <2>3. Cached(key, value, structs) = u
      <3>1. structs[stop] \notin Nameless
        BY DEF OnlyInit
      <3>2. Cached(key, value, structs) = IF structs[stop] \in Nameless THEN SubSeq(structs, 1, stop - 1)
                                                            ELSE SubSeq(structs, 1, stop)
        BY <1>7, <2>2 DEF Cached, StopOf
      <3> QED BY <3>1, <3>2
    <2> HIDE DEF stop
    <2>4. stop \in Nat /\ stop <= Len(structs) /\ 1 <= stop /\ Len(structs) \in Nat
      BY <2>1, LenProperties
    <2>5. \A i \in 1 .. stop : structs[i] \in Structs
      BY <2>4, ElementOfSeq
    <2>6. u \in Seq(Structs) /\ Len(u) = stop /\ \A i \in 1 .. stop : u[i] = structs[i]
      <3>1. 1 \in Int /\ stop \in Int /\ 1 <= stop + 1
        BY <2>4
      <3>2. \A i \in 1 .. stop : structs[i] \in Structs /\ 1 + i - 1 = i
        BY <2>4, <2>5
      <3> QED BY <2>4, <3>1, <3>2, SubSeqProperties
    <2> HIDE DEF u
    <2>7. structs[stop] \in Refused \union Nameless \union LongFormats \union formats
                              \union {structs[j] : j \in 1 .. stop - 1}
      BY <2>1, FieldsAre DEF Stops
    <2>8. {structs[j] : j \in 1 .. stop - 1} = {u[j] : j \in 1 .. stop - 1}
      BY <2>4, <2>6
    <2>9. Stops(NewFile, old \o u) # {}
      <3>1. formats \subseteq RangeOf(old)
        BY DEF CacheInv, CachedList
      <3>2. stop \in 1 .. Len(u) /\ u[stop] = structs[stop]
        BY <2>4, <2>6
      <3>3. u[stop] \in Refused \union Nameless \union LongFormats \union RangeOf(old) \union {u[j] : j \in 1 .. stop - 1}
        BY <2>7, <2>8, <3>1, <3>2
      <3> QED BY <1>3, <2>6, <3>2, <3>3, StopsBehind
    <2>10. RangeOf(SubSeq(structs, 1, stop - 1)) \subseteq RangeOf(u)
      <3>1. /\ SubSeq(structs, 1, stop - 1) \in Seq(Structs)
            /\ Len(SubSeq(structs, 1, stop - 1)) = stop - 1
            /\ \A i \in 1 .. stop - 1 : SubSeq(structs, 1, stop - 1)[i] = structs[i]
        <4>1. 1 \in Int /\ stop - 1 \in Int /\ 1 <= stop - 1 + 1 /\ stop - 1 - 1 + 1 = stop - 1
          BY <2>4
        <4>2. \A i \in 1 .. stop - 1 : structs[i] \in Structs /\ 1 + i - 1 = i
          BY <2>4, <2>5
        <4> QED BY <2>4, <4>1, <4>2, SubSeqProperties
      <3>2. \A i \in 1 .. stop - 1 : i \in 1 .. stop
        BY <2>4
      <3> QED BY <2>6, <3>1, <3>2, LenProperties DEF RangeOf
    <2>11. RangeOf(old \o u) = RangeOf(old) \union RangeOf(u)
      BY <1>3, <2>6, RangeConcat
    <2>12. formats' \subseteq (formats \union RangeOf(SubSeq(structs, 1, stop - 1)))
                                 \union {structs[stop]}
           /\ writer' = writer /\ headerComplete' = headerComplete
      BY <1>1, <1>7, FieldsAre DEF Stopping, stop
    <2>13. initParams'.structs = old \o u
      BY <1>5, <1>7, <2>3
    <2>14. structs[stop] \in RangeOf(u)
      <3>1. stop \in 1 .. Len(u) /\ u[stop] = structs[stop] /\ DOMAIN u = 1 .. Len(u)
        BY <2>4, <2>6, LenProperties
      <3> QED BY <3>1 DEF RangeOf
    <2> QED BY <2>2, <2>9, <2>10, <2>11, <2>12, <2>13, <2>14 DEF CacheInv, CachedList
  <1>8. CASE /\ Subscribing(Fields, d, structs)
             /\ given /\ <<key, value>> \notin LongInfos /\ Stops(Fields, structs) = {}
    <2>1. ~ headerComplete /\ writer # "null"
      BY <1>8, FieldsAre DEF Subscribing
    <2>2. writer = "header"
      BY <2>1 DEF IInv, LayersAgree, WritersExist, Stores
    <2>3. Cached(key, value, structs) = structs
      BY <1>8, <2>1 DEF Cached
    <2>4. initParams'.structs = old \o structs
      BY <1>5, <1>8, <2>3
    <2>5. idMap' = IdsOf(structs, 0)
      <3>1. Fields.subscriptions = <<>> /\ Fields.idMap = <<>>
        BY <2>1, FieldsAre DEF FilesInv, Consistent, IInv, NoIdsYet
      <3> QED BY <1>1, <1>8, <3>1, SubscribingFresh
    <2>6. writer' = "data" /\ formats' = formats \union RangeOf(structs)
      BY <1>1, <1>8, FieldsAre DEF Subscribing
    <2>7. RangeOf(old \o structs) = RangeOf(old) \union RangeOf(structs)
      BY <1>3, RangeConcat
    <2>8. Stops(NewFile, old \o structs) # {} \/ idMap' = IdsOf(old \o structs, 0)
      <3>1. CASE old = <<>>
        <4>1. old \o structs = structs
          BY <3>1, ConcatEmptySeq
        <4> QED BY <2>5, <4>1
      <3>2. CASE Stops(NewFile, old) # {}
        BY <1>3, <3>2, StopsBefore
      <3> QED BY <2>2, <3>1, <3>2 DEF CacheInv, CachedList
    <2> QED BY <1>5, <1>8, <2>4, <2>6, <2>7, <2>8 DEF CacheInv, CachedList
  <1> QED BY <1>2, <1>6, <1>7, <1>8

LEMMA RenamesKeepsCached ==
    ASSUME TypeInv, UNCHANGED initParams \/ Renames
    PROVE  CachedList' = CachedList /\ (KeyIsCached => KeyIsCached')
  <1>1. CASE UNCHANGED initParams
    BY <1>1 DEF CachedList, KeyIsCached
  <1>2. CASE Renames
    <2>1. initParams \in [fileName : Seq(Parts), key : Keys \union {""}, value : Values \union {""},
                          structs : Seq(Structs)]
      BY DEF TypeInv, ParamsTyped
    <2>2. initParams' = [initParams EXCEPT !.fileName = NewFilename(initParams.fileName)]
      BY <1>2 DEF Renames, Renamed
    <2>3. /\ initParams'.structs = initParams.structs
          /\ initParams'.key = initParams.key /\ initParams'.value = initParams.value
      BY <2>1, <2>2
    <2> QED BY <2>3 DEF CachedList, KeyIsCached
  <1> QED BY <1>1, <1>2

(* What a rotation comes to if it does not come to a new file. *)
LEMMA NextFileStops ==
    ASSUME InfosFit, TypeInv, KeyIsCached, NextFile.result # Ok
    PROVE  \E n \in Stops(NewFile, CachedList) :
             Stopping(NewFile, NextFile, SubSeq(CachedList, 1, n - 1), CachedList[n])
  <1>1. initParams.structs \in Seq(Structs)
    BY DEF TypeInv, ParamsTyped
  <1>2. \/ /\ Untouching(NewFile, NextFile)
           /\ \/ ~ KeyIsCached \/ NewFile.headerComplete \/ NewFile.writer = "null"
              \/ <<initParams.key, initParams.value>> \in LongInfos
        \/ \E n \in Stops(NewFile, initParams.structs) :
             Stopping(NewFile, NextFile, SubSeq(initParams.structs, 1, n - 1), initParams.structs[n])
        \/ Subscribing(NewFile, NextFile, initParams.structs)
    BY <1>1, NewFileIs, InitializedIs DEF NextFile, KeyIsCached
  <1>3. <<initParams.key, initParams.value>> \notin LongInfos
    <2>1. initParams.key \in Keys /\ initParams.value \in Values
      BY DEF KeyIsCached, TypeInv, ParamsTyped
    <2> QED BY <2>1 DEF InfosFit
  <1> QED BY <1>2, <1>3, NewFileIs DEF Subscribing, CachedList

LEMMA NextCacheInv ==
    ASSUME OnlyInit, IInv, TypeInv, FilesInv, CacheInv, Next PROVE CacheInv'
  <1>1. ASSUME UNCHANGED <<writer, headerComplete, formats, idMap, initParams>> PROVE CacheInv'
    BY <1>1 DEF CacheInv, CachedList, KeyIsCached
  <1>2. CASE \/ Idles
             \/ \E kind \in Kinds : AppendsPlain(kind)
             \/ \E t \in Structs : AppendsAdd(t)
             \/ \E t \in Structs : Counts(t)
             \/ \E id \in Nat, t \in Structs : AppendsData(id, t)
    BY <1>1, <1>2 DEF Idles, AppendsPlain, AppendsAdd, Counts, AppendsData, Elsewhere
  <1>3. CASE CompletesHeader \/ \E t \in Structs : AppendsFormat(t)
    BY <1>3 DEF CompletesHeader, AppendsFormat, OnlyInit
  <1>4. ASSUME NEW key \in Keys, NEW value \in Values, NEW structs \in Seq(Structs),
               InitLogger(key, value, structs)
        PROVE  CacheInv'
    BY <1>4, InitLoggerCache
  <1>5. ASSUME NEW t \in Structs, GivesUp(t) PROVE CacheInv'
    <2>1. PICK x \in {Usage, InvalidArgument, Parsing} : Become(Ends(Cleared, x))
      BY <1>5 DEF GivesUp
    <2>2. writer' = "null" /\ headerComplete' = FALSE /\ formats' = {}
      BY <2>1, ClearedIs DEF Become
    <2> QED BY <2>2 DEF CacheInv
  <1>6. ASSUME NEW id \in Nat, NEW t \in Structs, Rotates(id, t) PROVE CacheInv'
    <2>1. KeyIsCached
      BY <1>6 DEF Rotates, Served, CacheInv
    <2>2. CachedList' = CachedList /\ KeyIsCached'
      BY <1>6, <2>1, RenamesKeepsCached DEF Rotates
    <2>3. CASE NextFile.result = Ok
      <3>2. /\ writer' = NextFile.writer /\ formats' = NextFile.formats /\ idMap' = NextFile.idMap
        BY <1>6, RotatesTo DEF TypeInv
      <3>3. Subscribing(NewFile, NextFile, CachedList)
        BY <2>3, NextFileOk DEF TypeInv, CachedList
      <3>4. NextFile.idMap = IdsOf(CachedList, 0)
        <4>1. CachedList \in Seq(Structs)
          BY DEF TypeInv, ParamsTyped, CachedList
        <4> QED BY <3>3, <4>1, NewFileIs, SubscribingFresh
      <3>5. writer' = "data" /\ formats' = RangeOf(CachedList)
        BY <3>2, <3>3, NewFileIs DEF Subscribing
      <3> QED BY <2>2, <3>2, <3>4, <3>5 DEF CacheInv
    <2>4. CASE NextFile.result # Ok
      <3>1. PICK n \in Stops(NewFile, CachedList) :
              Stopping(NewFile, NextFile, SubSeq(CachedList, 1, n - 1), CachedList[n])
        BY <2>1, <2>4, NextFileStops DEF OnlyInit
      <3>2. writer' = "header" /\ headerComplete' = FALSE
            /\ formats' \subseteq RangeOf(SubSeq(CachedList, 1, n - 1)) \union {CachedList[n]}
        BY <1>6, <3>1, NewFileIs, RotatesTo DEF TypeInv, Stopping
      <3>3. CachedList \in Seq(Structs)
        BY DEF TypeInv, ParamsTyped, CachedList
      <3>4. n \in 1 .. Len(CachedList)
        BY DEF Stops
      <3>5. RangeOf(SubSeq(CachedList, 1, n - 1)) \subseteq RangeOf(CachedList)
        BY <3>3, <3>4, PrefixRange
      <3>6. CachedList[n] \in RangeOf(CachedList)
        BY <3>3, <3>4, LenProperties DEF RangeOf
      <3> QED BY <2>2, <3>1, <3>2, <3>5, <3>6 DEF CacheInv
    <2> QED BY <2>3, <2>4
  <1>7. Shape
    BY NextShape
  <1> QED BY <1>2, <1>3, <1>4, <1>5, <1>6, <1>7 DEF Shape

LEMMA CacheKept == ASSUME OnlyInit PROVE Spec => []CacheInv
  <1>1. IInv /\ TypeInv /\ FilesInv /\ CacheInv /\ [Next]_vars => CacheInv'
    <2> SUFFICES ASSUME IInv, TypeInv, FilesInv, CacheInv, [Next]_vars PROVE CacheInv'
      OBVIOUS
    <2>1. CASE UNCHANGED vars
      BY <2>1 DEF vars, CacheInv, CachedList, KeyIsCached
    <2> QED BY <2>1, NextCacheInv
  <1> QED BY <1>1, InitCacheInv, FilesKept, TypesKept, Invariant, PTL DEF Spec

LEMMA RotationKeeps ==
    ASSUME TypeInv, CacheInv, headerComplete, NextFile.result = Ok PROVE NextFile.idMap = idMap
  <1>1. CachedList \in Seq(Structs)
    BY DEF TypeInv, ParamsTyped, CachedList
  <1>2. Subscribing(NewFile, NextFile, CachedList) /\ Stops(NewFile, CachedList) = {}
    BY NextFileOk DEF TypeInv, CachedList
  <1>3. NextFile.idMap = IdsOf(CachedList, 0)
    BY <1>1, <1>2, NewFileIs, SubscribingFresh
  <1> QED BY <1>2, <1>3 DEF CacheInv

(* A rotation that comes to a new file gives every type the id it had in    *)
(* the old one, so that the record that set it off, and every id the        *)
(* application has kept, is as good in the new file: as long as files are   *)
(* set up by Init alone.                                                    *)
THEOREM IdsSurviveRotation == ASSUME OnlyInit PROVE Spec => RotationKeepsIds
  <1>1. IInv /\ TypeInv /\ CacheInv /\ [Next]_vars =>
          [closedLogs' # closedLogs /\ result' = Ok => idMap' = idMap]_vars
    <2> SUFFICES ASSUME IInv, TypeInv, CacheInv, Next, closedLogs' # closedLogs, result' = Ok
                 PROVE  idMap' = idMap
      OBVIOUS
    <2>1. \/ \E t \in Structs : GivesUp(t)
          \/ \E id \in Nat, t \in Structs : Rotates(id, t)
      <3>1. Shape
        BY NextShape
      <3> QED BY <3>1 DEF Shape, Idles, AppendsPlain, AppendsFormat, CompletesHeader, AppendsAdd,
                          Counts, AppendsData, InitLogger, Elsewhere
    <2>2. ASSUME NEW t \in Structs, GivesUp(t) PROVE FALSE
      <3>1. PICK x \in {Usage, InvalidArgument, Parsing} : Become(Ends(Cleared, x))
        BY <2>2 DEF GivesUp
      <3>2. result' = x
        BY <3>1, ClearedIs DEF Become
      <3> QED BY <3>1, <3>2 DEF Ok, Usage, InvalidArgument, Parsing
    <2>3. ASSUME NEW id \in Nat, NEW t \in Structs, Rotates(id, t) PROVE idMap' = idMap
      <3>1. NextFile.result = Ok /\ idMap' = NextFile.idMap
        BY <2>3, RotatesTo DEF TypeInv
      <3> QED BY <2>3, <3>1, RotationKeeps DEF Rotates, Served
    <2> QED BY <2>1, <2>2, <2>3
  <1>2. Spec => [][Next]_vars
    BY DEF Spec
  <1> QED BY <1>1, <1>2, CacheKept, TypesKept, Invariant, PTL DEF RotationKeepsIds

-----------------------------------------------------------------------------
(***************************************************************************)
(* Under which id the data is. In a file that Init alone set up, every id  *)
(* that Write looks up has been subscribed by one record, and for its      *)
(* type; this is what a record of data finds when it comes, and nothing    *)
(* behind it subscribes the id again.                                      *)
(***************************************************************************)
Subscribes(f, id, t) ==
    \E j \in 1 .. Len(f) :
      /\ f[j].kind = "add" /\ f[j].id = id /\ f[j].type = t
      /\ \A i \in 1 .. Len(f) : f[i].kind = "add" /\ f[i].id = id => i = j

AttributesIn(c) ==
    /\ \A t \in DOMAIN c.idMap : Subscribes(c.log, c.idMap[t], t)
    /\ Attributed(c.log)

AttributedInv == AttributesIn(Fields) /\ \A f \in RangeOf(closedLogs) : Attributed(f)

ManagedCalls == OnlyInit /\ "writeData" \notin Api /\ "writeAddLoggedMessage" \notin Api

LEMMA HeaderAttributed == ASSUME NEW f, InHeader(f) PROVE Attributed(f)
  BY DEF InHeader, Attributed

LEMMA AttributedAppend ==
    ASSUME NEW f \in Seq(Records), NEW r \in Records, Attributed(f), r.kind # "add",
           r.kind = "data" => Subscribes(f, r.id, r.type)
    PROVE  /\ Attributed(Append(f, r))
           /\ \A id, t : Subscribes(f, id, t) => Subscribes(Append(f, r), id, t)
  <1> DEFINE n == Len(f)
             g == Append(f, r)
  <1>1. /\ Len(g) = n + 1 /\ n \in Nat /\ g[n + 1] = r
        /\ \A i \in 1 .. n : g[i] = f[i]
    BY AppendTyped
  <1> HIDE DEF n, g
  <1>2. ASSUME NEW id, NEW t, Subscribes(f, id, t)
        PROVE  \E j \in 1 .. n :
                 /\ g[j].kind = "add" /\ g[j].id = id /\ g[j].type = t
                 /\ \A i \in 1 .. n + 1 : g[i].kind = "add" /\ g[i].id = id => i = j
    <2>1. PICK j \in 1 .. n :
            /\ f[j].kind = "add" /\ f[j].id = id /\ f[j].type = t
            /\ \A i \in 1 .. n : f[i].kind = "add" /\ f[i].id = id => i = j
      BY <1>2 DEF Subscribes, n
    <2>2. ASSUME NEW i \in 1 .. n + 1, g[i].kind = "add", g[i].id = id PROVE i = j
      <3>1. i # n + 1
        BY <1>1, <2>2
      <3>2. i \in 1 .. n
        BY <1>1, <3>1
      <3> QED BY <1>1, <2>1, <2>2, <3>2
    <2> QED BY <1>1, <2>1, <2>2
  <1>3. ASSUME NEW k \in 1 .. n + 1, g[k].kind = "data"
        PROVE  \E j \in 1 .. k - 1 :
                 /\ g[j].kind = "add" /\ g[j].id = g[k].id /\ g[j].type = g[k].type
                 /\ \A i \in 1 .. k : g[i].kind = "add" /\ g[i].id = g[k].id => i = j
    <2>1. CASE k = n + 1
      <3>1. k - 1 = n /\ g[k] = r
        BY <1>1, <2>1
      <3>2. Subscribes(f, r.id, r.type)
        BY <1>3, <3>1
      <3> QED BY <1>2, <2>1, <3>1, <3>2
    <2>2. CASE k # n + 1
      <3>1. k \in 1 .. n
        BY <1>1, <2>2
      <3>2. g[k] = f[k]
        BY <1>1, <3>1
      <3>3. PICK j \in 1 .. k - 1 :
              /\ f[j].kind = "add" /\ f[j].id = f[k].id /\ f[j].type = f[k].type
              /\ \A i \in 1 .. k : f[i].kind = "add" /\ f[i].id = f[k].id => i = j
        BY <1>3, <3>1, <3>2 DEF Attributed, n
      <3>4. j \in 1 .. n /\ \A i \in 1 .. k : i \in 1 .. n
        BY <1>1, <3>1
      <3> QED BY <1>1, <3>2, <3>3, <3>4
    <2> QED BY <2>1, <2>2
  <1>4. Attributed(g)
    BY <1>1, <1>3 DEF Attributed
  <1>5. ASSUME NEW id, NEW t, Subscribes(f, id, t) PROVE Subscribes(g, id, t)
    <2>1. PICK j \in 1 .. n :
            /\ g[j].kind = "add" /\ g[j].id = id /\ g[j].type = t
            /\ \A i \in 1 .. n + 1 : g[i].kind = "add" /\ g[i].id = id => i = j
      BY <1>2, <1>5
    <2>2. j \in 1 .. Len(g) /\ 1 .. Len(g) = 1 .. n + 1
      BY <1>1
    <2> QED BY <2>1, <2>2 DEF Subscribes
  <1> QED BY <1>4, <1>5 DEF g

LEMMA AddsSubscribe ==
    ASSUME NEW h \in Seq(Records), InHeader(h), NEW s \in Seq(Structs), Len(s) <= IdCount
    PROVE  LET f == h \o AddsOf(s, 0)
           IN  Attributed(f) /\ \A t \in RangeOf(s) : Subscribes(f, IdsOf(s, 0)[t], t)
  <1> DEFINE as == AddsOf(s, 0)
             f  == h \o as
             n  == Len(h)
  <1>1. Len(s) \in Nat /\ n \in Nat
    BY LenProperties
  <1>2. as \in Seq(Records) /\ Len(as) = Len(s)
        /\ \A i \in 1 .. Len(s) : as[i] = Record("add", s[i], (0 + i - 1) % IdCount, 0)
    BY AddsTyped
  <1> HIDE DEF as
  <1>3. ASSUME NEW i \in 1 .. Len(s) PROVE as[i].kind = "add" /\ as[i].id = i - 1 /\ as[i].type = s[i]
    <2>1. 0 + i - 1 \in Nat /\ 0 + i - 1 < IdCount /\ 0 + i - 1 = i - 1
      BY <1>1, IdsAssumption
    <2>2. \A m \in Nat : m < IdCount => m % IdCount = m
      BY IdsAssumption
    <2>3. (0 + i - 1) % IdCount = i - 1
      BY <2>1, <2>2
    <2>4. as[i] = Record("add", s[i], i - 1, 0)
      BY <1>2, <2>3
    <2> QED BY <2>4, RecordFields
  <1>4. /\ Len(f) = n + Len(s)
        /\ \A i \in 1 .. n + Len(s) : f[i] = IF i <= n THEN h[i] ELSE as[i - n]
    <2>1. /\ Len(f) = Len(h) + Len(as)
          /\ \A i \in 1 .. Len(h) + Len(as) : f[i] = IF i <= Len(h) THEN h[i] ELSE as[i - Len(h)]
      BY <1>2, ConcatProperties
    <2> QED BY <1>2, <2>1
  <1> HIDE DEF f, n
  <1>5. ASSUME NEW i \in 1 .. n + Len(s)
        PROVE  \/ f[i].kind \notin {"add", "data", "text"}
               \/ f[i].kind = "add" /\ f[i].id = i - n - 1
    <2>1. CASE i <= n
      <3>1. f[i] = h[i]
        BY <1>4, <2>1
      <3>2. i \in 1 .. n
        BY <1>1, <2>1
      <3> QED BY <3>1, <3>2 DEF InHeader, n
    <2>2. CASE ~ (i <= n)
      <3>1. f[i] = as[i - n]
        BY <1>4, <2>2
      <3>2. i - n \in 1 .. Len(s)
        BY <1>1, <2>2
      <3> QED BY <1>3, <3>1, <3>2
    <2> QED BY <2>1, <2>2
  <1>6. Attributed(f)
    BY <1>4, <1>5 DEF Attributed
  <1>7. ASSUME NEW t \in RangeOf(s) PROVE Subscribes(f, IdsOf(s, 0)[t], t)
    <2> DEFINE id == IdsOf(s, 0)[t]
    <2>1. id \in Nat /\ id < Len(s) /\ s[id + 1] = t
      BY IdIsPlace
    <2> HIDE DEF id
    <2> DEFINE j == n + id + 1
    <2>2. j \in 1 .. n + Len(s) /\ ~ (j <= n) /\ j - n = id + 1 /\ id + 1 \in 1 .. Len(s)
          /\ id + 1 - 1 = id
      BY <1>1, <2>1
    <2>3. f[j].kind = "add" /\ f[j].id = id /\ f[j].type = t
      <3>1. f[j] = IF j <= n THEN h[j] ELSE as[j - n]
        BY <1>4, <2>2
      <3>2. f[j] = as[id + 1]
        BY <2>2, <3>1
      <3> HIDE DEF j
      <3> DEFINE p == id + 1
      <3>3. p \in 1 .. Len(s) /\ p - 1 = id /\ s[p] = t /\ f[j] = as[p]
        BY <2>1, <2>2, <3>2
      <3> HIDE DEF p
      <3>4. as[p].kind = "add" /\ as[p].id = p - 1 /\ as[p].type = s[p]
        BY <1>3, <3>3
      <3> QED BY <3>3, <3>4
    <2>4. ASSUME NEW i \in 1 .. n + Len(s), f[i].kind = "add", f[i].id = id PROVE i = j
      <3>1. i - n - 1 = id
        BY <1>5, <2>4
      <3> QED BY <1>1, <2>1, <3>1
    <2> HIDE DEF j
    <2> QED BY <1>4, <2>2, <2>3, <2>4 DEF Subscribes, id
  <1> QED BY <1>6, <1>7 DEF f, as

LEMMA InitializedAttributes ==
    ASSUME FewTypes, NEW c, DOMAIN c = FieldNames, Typed(c), Sound(c), Consistent(c), AttributesIn(c),
           NEW key, NEW value, NEW structs \in Seq(Structs)
    PROVE  AttributesIn(Initialized(c, key, value, structs))
  <1> DEFINE d == Initialized(c, key, value, structs)
  <1>1. \/ Untouching(c, d)
        \/ \E n \in Stops(c, structs) : Stopping(c, d, SubSeq(structs, 1, n - 1), structs[n])
        \/ Subscribing(c, d, structs) /\ Stops(c, structs) = {}
    BY InitializedIs
  <1> HIDE DEF d
  <1>2. ASSUME Untouching(c, d) PROVE AttributesIn(d)
    BY <1>2 DEF Untouching, AttributesIn
  <1>3. ASSUME ~ c.headerComplete, c.writer # "null"
        PROVE  /\ c.log \in Seq(Records) /\ Readable(c.log) /\ c.log # <<>> /\ InHeader(c.log)
               /\ c.subscriptions = <<>> /\ c.idMap = <<>>
    BY <1>3 DEF Typed, Sound, Consistent
  <1>4. ASSUME NEW n \in Stops(c, structs), Stopping(c, d, SubSeq(structs, 1, n - 1), structs[n])
        PROVE  AttributesIn(d)
    <2> DEFINE s == SubSeq(structs, 1, n - 1)
    <2>1. s \in Seq(Structs)
      <3>1. n \in 1 .. Len(structs)
        BY DEF Stops
      <3> QED BY <3>1, PrefixTyped
    <2> HIDE DEF s
    <2>2. ~ c.headerComplete /\ c.writer # "null" /\ d.idMap = c.idMap
          /\ d.log = (c.log \o <<Plain("info")>>) \o FormatsOf(s)
      BY <1>4 DEF Stopping, s
    <2>3. InHeader(d.log)
      BY <1>3, <2>1, <2>2, HeaderLog
    <2>4. DOMAIN <<>> = {}
      OBVIOUS
    <2> QED BY <1>3, <2>2, <2>3, <2>4, HeaderAttributed DEF AttributesIn
  <1>5. ASSUME Subscribing(c, d, structs), Stops(c, structs) = {} PROVE AttributesIn(d)
    <2> DEFINE h == (c.log \o <<Plain("info")>>) \o FormatsOf(structs)
    <2>1. ~ c.headerComplete /\ c.writer # "null" /\ d.log = h \o AddsOf(structs, Len(c.subscriptions))
      BY <1>5 DEF Subscribing
    <2>2. Len(c.subscriptions) = 0
      <3>1. Len(<<>>) = 0
        OBVIOUS
      <3> QED BY <1>3, <2>1, <3>1
    <2>3. d.log = h \o AddsOf(structs, 0) /\ d.idMap = IdsOf(structs, 0)
      BY <1>3, <1>5, <2>1, <2>2, SubscribingFresh
    <2>4. InHeader(h) /\ h \in Seq(Records)
      BY <1>3, <2>1, HeaderLog, HeaderLogTyped
    <2> HIDE DEF h
    <2>5. Len(structs) <= IdCount
      BY <1>5, AcceptedListIsShort
    <2>6. /\ Attributed(d.log)
          /\ \A t \in RangeOf(structs) : Subscribes(d.log, IdsOf(structs, 0)[t], t)
      BY <2>3, <2>4, <2>5, AddsSubscribe
    <2>7. DOMAIN IdsOf(structs, 0) = RangeOf(structs)
      BY DEF IdsOf
    <2> QED BY <2>3, <2>6, <2>7 DEF AttributesIn
  <1>6. AttributesIn(d)
    BY <1>1, <1>2, <1>4, <1>5
  <1> QED BY <1>6 DEF d

LEMMA EmptyAttributes ==
    ASSUME NEW c, c.idMap = <<>>, InHeader(c.log) PROVE AttributesIn(c)
  <1>1. DOMAIN <<>> = {}
    OBVIOUS
  <1> QED BY <1>1, HeaderAttributed DEF AttributesIn

LEMMA BecomeAttributes == ASSUME NEW c, AttributesIn(c), Become(c) PROVE AttributesIn(Fields)'
  BY DEF AttributesIn, Become, Fields

LEMMA InitAttributes == Init => AttributedInv
  <1> SUFFICES ASSUME Init PROVE AttributedInv
    OBVIOUS
  <1>1. idMap = <<>> /\ headerComplete = FALSE /\ closedLogs = <<>>
    BY DEF Init
  <1>2. InHeader(log)
    BY <1>1, InitFilesInv, FieldsAre DEF FilesInv, Consistent
  <1>3. RangeOf(<<>>) = {}
    BY DEF RangeOf
  <1> QED BY <1>1, <1>2, <1>3, FieldsAre, EmptyAttributes DEF AttributedInv

LEMMA NextAttributes ==
    ASSUME ManagedCalls, FewTypes, IInv, TypeInv, FilesInv, CacheInv, AttributedInv, Next
    PROVE  AttributedInv'
  <1>1. /\ log \in Seq(Records) /\ closedLogs \in Seq(Seq(Records)) /\ Attributed(log)
        /\ \A t \in DOMAIN idMap : Subscribes(log, idMap[t], t)
    BY FieldsAre DEF TypeInv, Typed, AttributedInv, AttributesIn
  <1>2. ASSUME NEW r \in Records, r.kind # "add", r.kind = "data" => Subscribes(log, r.id, r.type),
               log' = Append(log, r), idMap' = idMap, closedLogs' = closedLogs
        PROVE  AttributedInv'
    <2>1. /\ Attributed(Append(log, r))
          /\ \A id, t : Subscribes(log, id, t) => Subscribes(Append(log, r), id, t)
      BY <1>1, <1>2, AttributedAppend
    <2>2. AttributesIn(Fields)'
      BY <1>1, <1>2, <2>1 DEF AttributesIn, Fields
    <2> QED BY <1>2, <2>2 DEF AttributedInv
  <1>3. CASE Idles \/ \E t \in Structs : Counts(t)
    BY <1>3 DEF Idles, Elsewhere, Counts, AttributedInv, AttributesIn, Fields
  <1>4. ASSUME NEW kind \in Kinds, AppendsPlain(kind) PROVE AttributedInv'
    <2>1. Plain(kind) \in Records /\ Plain(kind).kind = kind /\ kind \notin {"add", "data"}
      BY <1>4, PlainTyped, RecordFields DEF Plain, AppendsPlain
    <2> QED BY <1>2, <1>4, <2>1 DEF AppendsPlain, Elsewhere
  <1>5. CASE \/ CompletesHeader
             \/ \E t \in Structs : AppendsFormat(t)
             \/ \E t \in Structs : AppendsAdd(t)
    BY <1>5 DEF CompletesHeader, AppendsFormat, AppendsAdd, ManagedCalls, OnlyInit
  <1>6. ASSUME NEW key \in Keys, NEW value \in Values, NEW structs \in Seq(Structs),
               InitLogger(key, value, structs)
        PROVE  AttributedInv'
    <2> DEFINE d == Initialized(Fields, key, value, structs)
    <2>1. AttributesIn(d)
      BY FieldsAre, FieldsSound, InitializedAttributes DEF TypeInv, FilesInv, AttributedInv
    <2>2. Become(d) /\ closedLogs' = closedLogs
      BY <1>6 DEF InitLogger
    <2> HIDE DEF d
    <2>3. AttributesIn(Fields)'
      BY <2>1, <2>2, BecomeAttributes
    <2> QED BY <2>2, <2>3 DEF AttributedInv
  <1>7. ASSUME NEW id \in Nat, NEW t \in Structs
        PROVE  /\ DataRecord(id, t) \in Records /\ DataRecord(id, t).kind = "data"
               /\ DataRecord(id, t).id = id /\ DataRecord(id, t).type = t
    <2>1. serial \in Nat
      BY CallsAssumption DEF TypeInv
    <2> QED BY <2>1, DataTyped, RecordFields DEF DataRecord
  <1>8. ASSUME NEW id, NEW t, Served(id, t) PROVE t \in DOMAIN idMap /\ id = idMap[t]
    BY <1>8 DEF Served, ManagedCalls
  <1>9. ASSUME NEW id \in Nat, NEW t \in Structs, AppendsData(id, t) PROVE AttributedInv'
    <2>1. Subscribes(log, id, t)
      BY <1>1, <1>8, <1>9 DEF AppendsData
    <2>2. log' = Append(log, DataRecord(id, t)) /\ idMap' = idMap /\ closedLogs' = closedLogs
      BY <1>9 DEF AppendsData
    <2> QED BY <1>2, <1>7, <2>1, <2>2
  <1>10. closedLogs' = Append(closedLogs, log) => \A f \in RangeOf(closedLogs') : Attributed(f)
    BY <1>1, RangeAppend DEF AttributedInv
  <1>11. ASSUME NEW t \in Structs, GivesUp(t) PROVE AttributedInv'
    <2>1. PICK x \in {Usage, InvalidArgument, Parsing} : Become(Ends(Cleared, x))
      BY <1>11 DEF GivesUp
    <2>2. AttributesIn(Ends(Cleared, x))
      BY ClearedIs, EmptyAttributes, EmptyReadable
    <2>3. AttributesIn(Fields)'
      BY <2>1, <2>2, BecomeAttributes
    <2> QED BY <1>10, <1>11, <2>3 DEF AttributedInv, GivesUp
  <1>12. ASSUME NEW id \in Nat, NEW t \in Structs, Rotates(id, t) PROVE AttributedInv'
    <2>1. AttributesIn(NextFile)
      <3>1. initParams.structs \in Seq(Structs)
        BY DEF TypeInv, ParamsTyped
      <3>2. Sound(NewFile) /\ InHeader(NewFile.log)
        BY NewFileIs, NewFileConsistent DEF Sound, Stores, Consistent
      <3>3. AttributesIn(NewFile)
        BY <3>2, NewFileIs, EmptyAttributes
      <3> QED BY <3>1, <3>2, <3>3, NewFileIs, NewFileTyped, NewFileConsistent, InitializedAttributes
              DEF NextFile
    <2>2. NextFile.result = Ok => AttributesIn(Wrote(NextFile, id, t))
      <3> SUFFICES ASSUME NextFile.result = Ok PROVE AttributesIn(Wrote(NextFile, id, t))
        OBVIOUS
      <3>1. NextFile.idMap = idMap
        BY <1>12, RotationKeeps DEF Rotates, Served
      <3>2. Subscribes(NextFile.log, id, t) /\ Attributed(NextFile.log)
        BY <1>8, <1>12, <2>1, <3>1 DEF Rotates, AttributesIn
      <3>3. NextFile.log \in Seq(Records) /\ DOMAIN NextFile = FieldNames
        BY NextFileTyped DEF TypeInv, Typed
      <3>4. /\ Attributed(Append(NextFile.log, DataRecord(id, t)))
            /\ \A i, x : Subscribes(NextFile.log, i, x)
                           => Subscribes(Append(NextFile.log, DataRecord(id, t)), i, x)
        BY <1>7, <3>2, <3>3, AttributedAppend
      <3>5. /\ Wrote(NextFile, id, t).log = Append(NextFile.log, DataRecord(id, t))
            /\ Wrote(NextFile, id, t).idMap = NextFile.idMap
        BY <3>3 DEF Wrote, FieldNames
      <3> QED BY <2>1, <3>4, <3>5 DEF AttributesIn
    <2>3. \A r : AttributesIn(Ends(NextFile, r))
      BY <2>1 DEF AttributesIn, Ends
    <2>4. AttributesIn(Fields)'
      BY <1>12, <2>2, <2>3, BecomeAttributes DEF Rotates
    <2> QED BY <1>10, <1>12, <2>4 DEF AttributedInv, Rotates
  <1>13. Shape
    BY NextShape
  <1> QED BY <1>3, <1>4, <1>5, <1>6, <1>9, <1>11, <1>12, <1>13 DEF Shape

(* Every record of data is, in its own file and before it, under an id that *)
(* was subscribed once and for its type: also the one that set off a        *)
(* rotation, which goes to the new file under the id of the old one.        *)
THEOREM DataStaysAttributed ==
    ASSUME ManagedCalls, FewTypes PROVE Spec => []DataIsAttributed
  <1>1. OnlyInit
    BY DEF ManagedCalls
  <1>2. IInv /\ TypeInv /\ FilesInv /\ CacheInv /\ AttributedInv /\ [Next]_vars => AttributedInv'
    <2> SUFFICES ASSUME IInv, TypeInv, FilesInv, CacheInv, AttributedInv, [Next]_vars
                 PROVE  AttributedInv'
      OBVIOUS
    <2>1. CASE UNCHANGED vars
      BY <2>1 DEF vars, AttributedInv, AttributesIn, Fields
    <2> QED BY <2>1, NextAttributes
  <1>3. TypeInv /\ AttributedInv => DataIsAttributed
    <2> SUFFICES ASSUME TypeInv, AttributedInv PROVE DataIsAttributed
      OBVIOUS
    <2>1. RangeOf(Append(closedLogs, log)) = RangeOf(closedLogs) \union {log}
      BY RangeAppend, FieldsAre DEF TypeInv, Typed
    <2>2. Attributed(log)
      BY FieldsAre DEF AttributedInv, AttributesIn
    <2> QED BY <2>1, <2>2 DEF AttributedInv, DataIsAttributed
  <1>4. Spec => []CacheInv
    BY <1>1, CacheKept
  <1> QED BY <1>2, <1>3, <1>4, InitAttributes, FilesKept, TypesKept, Invariant, PTL DEF Spec

-----------------------------------------------------------------------------
(* SerialsUpTo, AllUpTo and BytesUpTo, and what one more record adds.       *)
SerialsStep(f) ==
    [n \in 1 .. Len(f) |-> [x \in Seq(Nat) |-> IF IsData(f[n]) THEN Append(x, f[n].number) ELSE x]]

LEMMA SerialsUpToIs ==
    ASSUME NEW f \in Seq(Records)
    PROVE  Iterates(SerialsUpTo(f), Len(f), Seq(Nat), <<>>, SerialsStep(f))
  <1> DEFINE m == Len(f)
             G(g) == [n \in 0 .. m |-> IF n = 0 THEN <<>>
                                       ELSE IF IsData(f[n]) THEN Append(g[n - 1], f[n].number)
                                       ELSE g[n - 1]]
             u == CHOOSE g : g = G(g)
  <1>1. SerialsUpTo(f) = u
    BY DEF SerialsUpTo
  <1>2. m \in Nat /\ \A n \in 1 .. m : f[n] \in Records
    BY LenProperties, ElementOfSeq
  <1>3. \A n \in 1 .. m : f[n].number \in Nat
    BY <1>2 DEF Records
  <1> HIDE DEF m
  <1>4. ASSUME NEW n \in 1 .. m, NEW x \in Seq(Nat)
        PROVE  /\ SerialsStep(f)[n][x] = IF IsData(f[n]) THEN Append(x, f[n].number) ELSE x
               /\ SerialsStep(f)[n][x] \in Seq(Nat)
    <2>1. SerialsStep(f)[n][x] = IF IsData(f[n]) THEN Append(x, f[n].number) ELSE x
      BY DEF SerialsStep, m
    <2>2. Append(x, f[n].number) \in Seq(Nat)
      BY <1>3
    <2> QED BY <2>1, <2>2
  <1>5. SerialsStep(f) \in [1 .. m -> [Seq(Nat) -> Seq(Nat)]]
    <2>1. ASSUME NEW n \in 1 .. m, NEW x \in Seq(Nat)
          PROVE  (IF IsData(f[n]) THEN Append(x, f[n].number) ELSE x) \in Seq(Nat)
      BY <1>3
    <2> QED BY <2>1 DEF SerialsStep, m
  <1>6. <<>> \in Seq(Nat)
    OBVIOUS
  <1>7. PICK g : Iterates(g, m, Seq(Nat), <<>>, SerialsStep(f))
    BY <1>2, <1>5, <1>6, RecursionExists
  <1>8. g = G(g)
    <2>1. \A n \in 1 .. m : g[n - 1] \in Seq(Nat) /\ g[n] = SerialsStep(f)[n][g[n - 1]]
      BY <1>2, <1>7 DEF Iterates
    <2>2. \A n \in 1 .. m : g[n] = IF IsData(f[n]) THEN Append(g[n - 1], f[n].number) ELSE g[n - 1]
      BY <1>4, <2>1
    <2>3. g[0] = <<>> /\ g = [n \in 0 .. m |-> g[n]]
      BY <1>7 DEF Iterates
    <2>4. \A n \in 0 .. m : n = 0 \/ n \in 1 .. m
      BY <1>2
    <2> QED BY <2>2, <2>3, <2>4
  <1>9. u = G(u)
    <2> HIDE DEF G
    <2> QED BY <1>8, Zenon
  <1> HIDE DEF u
  <1>10. /\ u[0] = <<>>
         /\ \A n \in 1 .. m : u[n] = IF IsData(f[n]) THEN Append(u[n - 1], f[n].number) ELSE u[n - 1]
    <2>1. ASSUME NEW h
          PROVE  /\ G(h)[0] = <<>>
                 /\ \A n \in 1 .. m :
                      G(h)[n] = IF IsData(f[n]) THEN Append(h[n - 1], f[n].number) ELSE h[n - 1]
      BY <1>2
    <2> HIDE DEF G
    <2> QED BY <1>9, <2>1
  <1>11. IsOver(u, m)
    BY <1>9 DEF IsOver
  <1> HIDE DEF G
  <1>12. \A n \in 1 .. m : u[n - 1] \in Seq(Nat) => u[n] = SerialsStep(f)[n][u[n - 1]]
    BY <1>4, <1>10
  <1> QED BY <1>1, <1>2, <1>5, <1>6, <1>10, <1>11, <1>12, RecursionTyped DEF m

LEMMA SerialsAppend ==
    ASSUME NEW f \in Seq(Records), NEW r \in Records
    PROVE  /\ SerialsIn(f) \in Seq(Nat)
           /\ SerialsIn(Append(f, r)) = IF IsData(r) THEN Append(SerialsIn(f), r.number)
                                                     ELSE SerialsIn(f)
  <1> DEFINE m == Len(f)
             g == Append(f, r)
  <1>1. /\ m \in Nat /\ g \in Seq(Records) /\ Len(g) = m + 1 /\ g[m + 1] = r
        /\ \A n \in 1 .. m : g[n] = f[n]
    BY AppendTyped
  <1>2. Iterates(SerialsUpTo(f), m, Seq(Nat), <<>>, SerialsStep(f))
    BY SerialsUpToIs
  <1> HIDE DEF g, m
  <1>3. Iterates(SerialsUpTo(g), m + 1, Seq(Nat), <<>>, SerialsStep(g))
    BY <1>1, SerialsUpToIs
  <1>4. ASSUME NEW n \in 1 .. m PROVE SerialsStep(f)[n] = SerialsStep(g)[n]
    <2>1. n \in 1 .. Len(f) /\ n \in 1 .. Len(g) /\ g[n] = f[n]
      BY <1>1 DEF m
    <2> QED BY <2>1 DEF SerialsStep
  <1>5. SerialsUpTo(g)[m + 1] = SerialsStep(g)[m + 1][SerialsUpTo(f)[m]]
        /\ SerialsUpTo(f)[m] \in Seq(Nat)
    BY <1>1, <1>2, <1>3, <1>4, IteratesOnce
  <1>6. m + 1 \in 1 .. Len(g)
    BY <1>1
  <1>7. \A x \in Seq(Nat) : SerialsStep(g)[m + 1][x] = IF IsData(r) THEN Append(x, r.number) ELSE x
    BY <1>1, <1>6 DEF SerialsStep
  <1> QED BY <1>1, <1>5, <1>7 DEF SerialsIn, m, g

LEMMA SerialsTyped == ASSUME NEW f \in Seq(Records) PROVE SerialsIn(f) \in Seq(Nat)
  <1>1. Iterates(SerialsUpTo(f), Len(f), Seq(Nat), <<>>, SerialsStep(f))
    BY SerialsUpToIs
  <1>2. Len(f) \in 0 .. Len(f)
    BY LenProperties
  <1> QED BY <1>1, <1>2 DEF Iterates, SerialsIn

LEMMA SerialsEmpty == SerialsIn(<<>>) = <<>>
  <1>1. <<>> \in Seq(Records) /\ Len(<<>>) = 0
    OBVIOUS
  <1>2. Iterates(SerialsUpTo(<<>>), Len(<<>>), Seq(Nat), <<>>, SerialsStep(<<>>))
    BY <1>1, SerialsUpToIs
  <1>3. SerialsUpTo(<<>>)[0] = <<>>
    BY <1>2 DEF Iterates
  <1> QED BY <1>1, <1>3 DEF SerialsIn

AllStep(files) == [n \in 1 .. Len(files) |-> [x \in Seq(Nat) |-> x \o SerialsIn(files[n])]]

LEMMA AllUpToIs ==
    ASSUME NEW files \in Seq(Seq(Records))
    PROVE  Iterates(AllUpTo(files), Len(files), Seq(Nat), <<>>, AllStep(files))
  <1> DEFINE m == Len(files)
             s(n) == SerialsIn(files[n])
             G(g) == [n \in 0 .. m |-> IF n = 0 THEN <<>> ELSE g[n - 1] \o s(n)]
             u == CHOOSE g : g = G(g)
  <1>1. AllUpTo(files) = u
    BY DEF AllUpTo
  <1>2. m \in Nat /\ \A n \in 1 .. m : files[n] \in Seq(Records)
    BY LenProperties, ElementOfSeq
  <1>3. \A n \in 1 .. m : s(n) \in Seq(Nat)
    BY <1>2, SerialsTyped
  <1>4. \A n \in 1 .. m : AllStep(files)[n] = [x \in Seq(Nat) |-> x \o s(n)]
    BY DEF AllStep
  <1>5. DOMAIN AllStep(files) = 1 .. m /\ AllStep(files) = [n \in 1 .. m |-> AllStep(files)[n]]
    BY DEF AllStep
  <1> HIDE DEF m, s
  <1>6. ASSUME NEW n \in 1 .. m, NEW x \in Seq(Nat)
        PROVE  AllStep(files)[n][x] = x \o s(n) /\ x \o s(n) \in Seq(Nat)
    <2>1. x \o s(n) \in Seq(Nat)
      BY <1>3, ConcatProperties
    <2> QED BY <1>4, <2>1
  <1>7. AllStep(files) \in [1 .. m -> [Seq(Nat) -> Seq(Nat)]]
    <2>1. \A n \in 1 .. m : AllStep(files)[n] \in [Seq(Nat) -> Seq(Nat)]
      BY <1>4, <1>6
    <2> QED BY <1>5, <2>1
  <1>8. <<>> \in Seq(Nat)
    OBVIOUS
  <1>9. PICK g : Iterates(g, m, Seq(Nat), <<>>, AllStep(files))
    BY <1>2, <1>7, <1>8, RecursionExists
  <1>10. g = G(g)
    <2>1. \A n \in 1 .. m : g[n - 1] \in Seq(Nat) /\ g[n] = AllStep(files)[n][g[n - 1]]
      BY <1>2, <1>9 DEF Iterates
    <2>2. \A n \in 1 .. m : g[n] = g[n - 1] \o s(n)
      BY <1>6, <2>1
    <2>3. g[0] = <<>> /\ g = [n \in 0 .. m |-> g[n]]
      BY <1>9 DEF Iterates
    <2>4. \A n \in 0 .. m : n = 0 \/ n \in 1 .. m
      BY <1>2
    <2> QED BY <2>2, <2>3, <2>4
  <1>11. u = G(u)
    <2> HIDE DEF G
    <2> QED BY <1>10, Zenon
  <1> HIDE DEF u
  <1>12. u[0] = <<>> /\ \A n \in 1 .. m : u[n] = u[n - 1] \o s(n)
    <2>1. ASSUME NEW h PROVE G(h)[0] = <<>> /\ \A n \in 1 .. m : G(h)[n] = h[n - 1] \o s(n)
      BY <1>2
    <2> HIDE DEF G
    <2> QED BY <1>11, <2>1
  <1>13. IsOver(u, m)
    BY <1>11 DEF IsOver
  <1> HIDE DEF G
  <1>14. \A n \in 1 .. m : u[n - 1] \in Seq(Nat) => u[n] = AllStep(files)[n][u[n - 1]]
    BY <1>6, <1>12
  <1> QED BY <1>1, <1>2, <1>7, <1>8, <1>12, <1>13, <1>14, RecursionTyped DEF m

AllIn(files) == AllUpTo(files)[Len(files)]

LEMMA AllAppend ==
    ASSUME NEW files \in Seq(Seq(Records)), NEW f \in Seq(Records)
    PROVE  /\ AllIn(files) \in Seq(Nat)
           /\ AllIn(Append(files, f)) = AllIn(files) \o SerialsIn(f)
  <1> DEFINE m == Len(files)
             g == Append(files, f)
  <1>1. /\ m \in Nat /\ g \in Seq(Seq(Records)) /\ Len(g) = m + 1 /\ g[m + 1] = f
        /\ \A n \in 1 .. m : g[n] = files[n]
    BY AppendTyped
  <1>2. Iterates(AllUpTo(files), m, Seq(Nat), <<>>, AllStep(files))
    BY AllUpToIs
  <1> HIDE DEF g, m
  <1>3. Iterates(AllUpTo(g), m + 1, Seq(Nat), <<>>, AllStep(g))
    BY <1>1, AllUpToIs
  <1>4. ASSUME NEW n \in 1 .. m PROVE AllStep(files)[n] = AllStep(g)[n]
    <2>1. n \in 1 .. Len(files) /\ n \in 1 .. Len(g) /\ g[n] = files[n]
      BY <1>1 DEF m
    <2> QED BY <2>1 DEF AllStep
  <1>5. AllUpTo(g)[m + 1] = AllStep(g)[m + 1][AllUpTo(files)[m]] /\ AllUpTo(files)[m] \in Seq(Nat)
    BY <1>1, <1>2, <1>3, <1>4, IteratesOnce
  <1>6. m + 1 \in 1 .. Len(g)
    BY <1>1
  <1>7. \A x \in Seq(Nat) : AllStep(g)[m + 1][x] = x \o SerialsIn(f)
    BY <1>1, <1>6 DEF AllStep
  <1> QED BY <1>1, <1>5, <1>7 DEF AllIn, m, g

LEMMA AllEmpty == AllIn(<<>>) = <<>>
  <1>1. <<>> \in Seq(Seq(Records)) /\ Len(<<>>) = 0
    OBVIOUS
  <1>2. Iterates(AllUpTo(<<>>), Len(<<>>), Seq(Nat), <<>>, AllStep(<<>>))
    BY <1>1, AllUpToIs
  <1>3. AllUpTo(<<>>)[0] = <<>>
    BY <1>2 DEF Iterates
  <1> QED BY <1>1, <1>3 DEF AllIn

(* A file without data. *)
NoData(f) == \A i \in 1 .. Len(f) : ~ IsData(f[i])

LEMMA SerialsOfNone ==
    ASSUME NEW f \in Seq(Records), NoData(f) PROVE SerialsIn(f) = <<>>
  <1> DEFINE u == SerialsUpTo(f)
             m == Len(f)
             S == {n \in Nat : n <= m => u[n] = <<>>}
  <1>1. Iterates(u, m, Seq(Nat), <<>>, SerialsStep(f)) /\ m \in Nat
    BY SerialsUpToIs, LenProperties
  <1> HIDE DEF u
  <1>2. \A n \in 1 .. m, x \in Seq(Nat) : SerialsStep(f)[n][x] = x
    BY DEF SerialsStep, NoData
  <1> HIDE DEF m
  <1>3. 0 \in S
    BY <1>1 DEF Iterates
  <1>4. ASSUME NEW n \in Nat, n \in S PROVE n + 1 \in S
    <2> SUFFICES ASSUME n + 1 <= m PROVE u[n + 1] = <<>>
      OBVIOUS
    <2>1. n + 1 \in 1 .. m /\ n + 1 - 1 = n /\ u[n] = <<>>
      BY <1>1, <1>4
    <2>2. u[n + 1] = SerialsStep(f)[n + 1][u[n]]
      BY <1>1, <2>1 DEF Iterates
    <2>3. <<>> \in Seq(Nat)
      OBVIOUS
    <2> QED BY <1>2, <2>1, <2>2, <2>3
  <1>5. S = Nat
    <2>1. S \in SUBSET Nat
      OBVIOUS
    <2> HIDE DEF S
    <2> QED BY <1>3, <1>4, <2>1, NatSetInduction
  <1>6. u[m] = <<>>
    BY <1>1, <1>5
  <1> QED BY <1>6 DEF SerialsIn, u, m

(* The bytes, of records whose type has a size. *)
Sized(f) == \A n \in 1 .. Len(f) : IsData(f[n]) => f[n].type \in Structs
SizeIn(r) == IF IsData(r) THEN SizeOf[r.type] ELSE 0
BytesStep(f) == [n \in 1 .. Len(f) |-> [x \in Nat |-> x + SizeIn(f[n])]]

LEMMA BytesUpToIs ==
    ASSUME NEW f \in Seq(Records), Sized(f)
    PROVE  Iterates(BytesUpTo(f), Len(f), Nat, 0, BytesStep(f))
  <1> DEFINE m == Len(f)
             b(n) == SizeIn(f[n])
             G(g) == [n \in 0 .. m |-> IF n = 0 THEN 0 ELSE g[n - 1] + b(n)]
             u == CHOOSE g : g = G(g)
  <1>1. BytesUpTo(f) = u
    BY DEF BytesUpTo, SizeIn
  <1>2. m \in Nat
    BY LenProperties
  <1>3. \A n \in 1 .. m : b(n) \in Nat
    BY StructsAssumption DEF Sized, SizeIn
  <1>4. \A n \in 1 .. m : BytesStep(f)[n] = [x \in Nat |-> x + b(n)]
    BY DEF BytesStep
  <1>5. BytesStep(f) = [n \in 1 .. m |-> BytesStep(f)[n]]
    BY DEF BytesStep
  <1> HIDE DEF m, b
  <1>6. ASSUME NEW n \in 1 .. m, NEW x \in Nat
        PROVE  BytesStep(f)[n][x] = x + b(n) /\ x + b(n) \in Nat
    <2>1. b(n) \in Nat /\ BytesStep(f)[n] = [y \in Nat |-> y + b(n)]
      BY <1>3, <1>4
    <2> QED BY <2>1
  <1>7. BytesStep(f) \in [1 .. m -> [Nat -> Nat]]
    <2>1. \A n \in 1 .. m : BytesStep(f)[n] \in [Nat -> Nat]
      BY <1>4, <1>6
    <2> QED BY <1>5, <2>1
  <1>8. PICK g : Iterates(g, m, Nat, 0, BytesStep(f))
    BY <1>2, <1>7, RecursionExists
  <1>9. g = G(g)
    <2>1. \A n \in 1 .. m : g[n - 1] \in Nat /\ g[n] = BytesStep(f)[n][g[n - 1]]
      BY <1>2, <1>8 DEF Iterates
    <2>2. \A n \in 1 .. m : g[n] = g[n - 1] + b(n)
      BY <1>6, <2>1
    <2>3. g[0] = 0 /\ g = [n \in 0 .. m |-> g[n]]
      BY <1>8 DEF Iterates
    <2>4. \A n \in 0 .. m : n = 0 \/ n \in 1 .. m
      BY <1>2
    <2> QED BY <2>2, <2>3, <2>4
  <1>10. u = G(u)
    <2> HIDE DEF G
    <2> QED BY <1>9, Zenon
  <1> HIDE DEF u
  <1>11. u[0] = 0 /\ \A n \in 1 .. m : u[n] = u[n - 1] + b(n)
    <2>1. ASSUME NEW h PROVE G(h)[0] = 0 /\ \A n \in 1 .. m : G(h)[n] = h[n - 1] + b(n)
      BY <1>2
    <2> HIDE DEF G
    <2> QED BY <1>10, <2>1
  <1>12. IsOver(u, m)
    BY <1>10 DEF IsOver
  <1> HIDE DEF G
  <1>13. \A n \in 1 .. m : u[n - 1] \in Nat => u[n] = BytesStep(f)[n][u[n - 1]]
    BY <1>6, <1>11
  <1> QED BY <1>1, <1>2, <1>7, <1>11, <1>12, <1>13, RecursionTyped DEF m

LEMMA BytesAppend ==
    ASSUME NEW f \in Seq(Records), NEW r \in Records, Sized(f), IsData(r) => r.type \in Structs
    PROVE  /\ BytesOf(f) \in Nat /\ Sized(Append(f, r))
           /\ BytesOf(Append(f, r)) = BytesOf(f) + SizeIn(r)
  <1> DEFINE m == Len(f)
             g == Append(f, r)
  <1>1. /\ m \in Nat /\ g \in Seq(Records) /\ Len(g) = m + 1 /\ g[m + 1] = r
        /\ \A n \in 1 .. m : g[n] = f[n]
    BY AppendTyped
  <1>2. Iterates(BytesUpTo(f), m, Nat, 0, BytesStep(f))
    BY BytesUpToIs
  <1> HIDE DEF g
  <1>3. Sized(g)
    <2>1. ASSUME NEW n \in 1 .. m + 1, IsData(g[n]) PROVE g[n].type \in Structs
      <3>1. CASE n = m + 1
        BY <1>1, <2>1, <3>1
      <3>2. CASE n # m + 1
        <4>1. n \in 1 .. m
          BY <1>1, <3>2
        <4> QED BY <1>1, <2>1, <4>1 DEF Sized
      <3> QED BY <3>1, <3>2
    <2> QED BY <1>1, <2>1 DEF Sized
  <1> HIDE DEF m
  <1>4. Iterates(BytesUpTo(g), m + 1, Nat, 0, BytesStep(g))
    BY <1>1, <1>3, BytesUpToIs
  <1>5. ASSUME NEW n \in 1 .. m PROVE BytesStep(f)[n] = BytesStep(g)[n]
    <2>1. n \in 1 .. Len(f) /\ n \in 1 .. Len(g) /\ g[n] = f[n]
      BY <1>1 DEF m
    <2> QED BY <2>1 DEF BytesStep
  <1>6. BytesUpTo(g)[m + 1] = BytesStep(g)[m + 1][BytesUpTo(f)[m]] /\ BytesUpTo(f)[m] \in Nat
    BY <1>1, <1>2, <1>4, <1>5, IteratesOnce
  <1>7. m + 1 \in 1 .. Len(g)
    BY <1>1
  <1>8. \A x \in Nat : BytesStep(g)[m + 1][x] = x + SizeIn(r)
    BY <1>1, <1>7 DEF BytesStep
  <1> QED BY <1>1, <1>3, <1>6, <1>8 DEF BytesOf, m, g

LEMMA BytesOfNone ==
    ASSUME NEW f \in Seq(Records), NoData(f) PROVE BytesOf(f) = 0 /\ Sized(f)
  <1> DEFINE u == BytesUpTo(f)
             m == Len(f)
             S == {n \in Nat : n <= m => u[n] = 0}
  <1>1. Sized(f)
    BY DEF Sized, NoData
  <1>2. Iterates(u, m, Nat, 0, BytesStep(f)) /\ m \in Nat
    BY <1>1, BytesUpToIs, LenProperties
  <1> HIDE DEF u
  <1>3. \A n \in 1 .. m, x \in Nat : BytesStep(f)[n][x] = x
    BY DEF BytesStep, NoData, SizeIn
  <1> HIDE DEF m
  <1>4. 0 \in S
    BY <1>2 DEF Iterates
  <1>5. ASSUME NEW n \in Nat, n \in S PROVE n + 1 \in S
    <2> SUFFICES ASSUME n + 1 <= m PROVE u[n + 1] = 0
      OBVIOUS
    <2>1. n + 1 \in 1 .. m /\ n + 1 - 1 = n /\ u[n] = 0
      BY <1>2, <1>5
    <2>2. u[n + 1] = BytesStep(f)[n + 1][u[n]]
      BY <1>2, <2>1 DEF Iterates
    <2> QED BY <1>3, <2>1, <2>2
  <1>6. S = Nat
    <2>1. S \in SUBSET Nat
      OBVIOUS
    <2> HIDE DEF S
    <2> QED BY <1>4, <1>5, <2>1, NatSetInduction
  <1>7. u[m] = 0
    BY <1>2, <1>6
  <1> QED BY <1>1, <1>7 DEF BytesOf, u, m

LEMMA NoDataConcat ==
    ASSUME NEW f \in Seq(Records), NEW g \in Seq(Records), NoData(f), NoData(g)
    PROVE  NoData(f \o g)
  <1>1. Len(f) \in Nat /\ Len(g) \in Nat
    BY LenProperties
  <1>2. /\ Len(f \o g) = Len(f) + Len(g)
        /\ \A i \in 1 .. Len(f) + Len(g) : (f \o g)[i] = IF i <= Len(f) THEN f[i] ELSE g[i - Len(f)]
    BY ConcatProperties
  <1>3. ASSUME NEW i \in 1 .. Len(f) + Len(g) PROVE ~ IsData((f \o g)[i])
    <2>1. CASE i \in 1 .. Len(f)
      <3>1. (f \o g)[i] = f[i]
        BY <1>1, <1>2, <2>1
      <3> QED BY <2>1, <3>1 DEF NoData
    <2>2. CASE ~ (i \in 1 .. Len(f))
      <3>1. i - Len(f) \in 1 .. Len(g) /\ (f \o g)[i] = g[i - Len(f)]
        BY <1>1, <1>2, <2>2
      <3> QED BY <3>1 DEF NoData
    <2> QED BY <2>1, <2>2
  <1> QED BY <1>2, <1>3 DEF NoData

(* A file that an Init has written to held no data, and holds none yet. *)
LEMMA InitializedNoData ==
    ASSUME NEW c, DOMAIN c = FieldNames, Typed(c), Consistent(c),
           NEW key, NEW value, NEW structs \in Seq(Structs)
    PROVE  LET d == Initialized(c, key, value, structs)
           IN  d.log = c.log \/ (NoData(c.log) /\ NoData(d.log))
  <1> DEFINE d == Initialized(c, key, value, structs)
  <1>1. \/ Untouching(c, d)
        \/ \E n \in Stops(c, structs) : Stopping(c, d, SubSeq(structs, 1, n - 1), structs[n])
        \/ Subscribing(c, d, structs)
    BY InitializedIs
  <1> HIDE DEF d
  <1>2. ASSUME NEW f, InHeader(f) PROVE NoData(f)
    BY <1>2 DEF InHeader, NoData, IsData
  <1>3. ASSUME ~ c.headerComplete, c.writer # "null"
        PROVE  /\ c.log \in Seq(Records) /\ Readable(c.log) /\ c.log # <<>> /\ InHeader(c.log)
               /\ c.subscriptions = <<>>
    BY <1>3 DEF Typed, Consistent
  <1>4. ASSUME NEW n \in Stops(c, structs), Stopping(c, d, SubSeq(structs, 1, n - 1), structs[n])
        PROVE  NoData(c.log) /\ NoData(d.log)
    <2> DEFINE s == SubSeq(structs, 1, n - 1)
    <2>1. s \in Seq(Structs)
      <3>1. n \in 1 .. Len(structs)
        BY DEF Stops
      <3> QED BY <3>1, PrefixTyped
    <2> HIDE DEF s
    <2>2. ~ c.headerComplete /\ c.writer # "null"
          /\ d.log = (c.log \o <<Plain("info")>>) \o FormatsOf(s)
      BY <1>4 DEF Stopping, s
    <2>3. InHeader(d.log) /\ InHeader(c.log)
      BY <1>3, <2>1, <2>2, HeaderLog
    <2> QED BY <1>2, <2>3
  <1>5. ASSUME Subscribing(c, d, structs) PROVE NoData(c.log) /\ NoData(d.log)
    <2> DEFINE h  == (c.log \o <<Plain("info")>>) \o FormatsOf(structs)
               as == AddsOf(structs, Len(c.subscriptions))
    <2>1. ~ c.headerComplete /\ c.writer # "null" /\ d.log = h \o as
      BY <1>5 DEF Subscribing
    <2>2. InHeader(h) /\ h \in Seq(Records) /\ InHeader(c.log)
      BY <1>3, <2>1, HeaderLog, HeaderLogTyped
    <2>3. as \in Seq(Records) /\ NoData(as)
      <3>1. Len(c.subscriptions) \in Nat
        BY LenProperties DEF Typed
      <3>2. as \in Seq(Records) /\ Len(as) = Len(structs)
            /\ \A i \in 1 .. Len(structs) :
                 as[i] = Record("add", structs[i], (Len(c.subscriptions) + i - 1) % IdCount, 0)
        BY <3>1, AddsTyped
      <3> HIDE DEF as
      <3>3. ASSUME NEW i \in 1 .. Len(structs) PROVE as[i].kind = "add"
        <4>1. \A m : Record("add", structs[i], m, 0).kind = "add"
          BY RecordFields
        <4> QED BY <3>2, <4>1
      <3> QED BY <3>2, <3>3 DEF NoData, IsData
    <2> HIDE DEF h, as
    <2>4. NoData(h \o as)
      BY <1>2, <2>2, <2>3, NoDataConcat
    <2> QED BY <1>2, <2>1, <2>2, <2>4
  <1>6. d.log = c.log \/ (NoData(c.log) /\ NoData(d.log))
    BY <1>1, <1>4, <1>5 DEF Untouching
  <1> QED BY <1>6 DEF d

LEMMA NextFileNoData ==
    ASSUME ParamsTyped(initParams) PROVE NoData(NextFile.log) /\ NextFile.log \in Seq(Records)
  <1>1. initParams.structs \in Seq(Structs)
    BY DEF ParamsTyped
  <1>2. NoData(NewFile.log)
    <2>1. InHeader(NewFile.log)
      BY NewFileIs, NewFileConsistent DEF Consistent
    <2> QED BY <2>1 DEF InHeader, NoData, IsData
  <1>3. NextFile.log = NewFile.log \/ NoData(NextFile.log)
    BY <1>1, NewFileIs, NewFileTyped, NewFileConsistent, InitializedNoData DEF NextFile
  <1> QED BY <1>2, <1>3, NextFileTyped DEF Typed

(* A call that logs no data. *)
Quiet ==
    /\ UNCHANGED <<closedLogs, logged, currentFileSize>>
    /\ writer' # "null" => writer # "null"
    /\ SerialsIn(log') = SerialsIn(log)
    /\ Sized(log) => Sized(log') /\ BytesOf(log') = BytesOf(log)

LEMMA NextQuiet ==
    ASSUME IInv, TypeInv, FilesInv, Next
    PROVE  \/ Quiet
           \/ \E t \in Structs : Counts(t)
           \/ \E id \in Nat, t \in Structs : AppendsData(id, t)
           \/ \E t \in Structs : GivesUp(t)
           \/ \E id \in Nat, t \in Structs : Rotates(id, t)
  <1>1. log \in Seq(Records)
    BY FieldsAre DEF TypeInv, Typed
  <1>2. ASSUME NEW r \in Records, r.kind # "data"
        PROVE  /\ SerialsIn(Append(log, r)) = SerialsIn(log)
               /\ Sized(log) => Sized(Append(log, r)) /\ BytesOf(Append(log, r)) = BytesOf(log)
    <2>1. ~ IsData(r) /\ SizeIn(r) = 0
      BY <1>2 DEF IsData, SizeIn
    <2>2. SerialsIn(Append(log, r)) = SerialsIn(log)
      BY <1>1, <2>1, SerialsAppend
    <2>3. Sized(log) => /\ BytesOf(log) \in Nat /\ Sized(Append(log, r))
                        /\ BytesOf(Append(log, r)) = BytesOf(log) + 0
      BY <1>1, <2>1, BytesAppend
    <2> QED BY <2>2, <2>3
  <1>3. CASE Idles \/ CompletesHeader
    BY <1>3 DEF Idles, CompletesHeader, Elsewhere, Quiet
  <1>4. ASSUME NEW kind \in Kinds, AppendsPlain(kind) PROVE Quiet
    <2>1. Plain(kind) \in Records /\ Plain(kind).kind # "data"
      BY <1>4, PlainTyped, RecordFields DEF Plain, AppendsPlain
    <2> QED BY <1>2, <1>4, <2>1 DEF AppendsPlain, Elsewhere, Quiet
  <1>5. ASSUME NEW t \in Structs, AppendsFormat(t) PROVE Quiet
    <2>1. Record("format", t, 0, 0) \in Records /\ Record("format", t, 0, 0).kind # "data"
      BY RecordTyped, RecordFields DEF Kinds
    <2>2. log' = log \/ log' = Append(log, Record("format", t, 0, 0))
      BY <1>5 DEF AppendsFormat
    <2> QED BY <1>2, <1>5, <2>1, <2>2 DEF AppendsFormat, Elsewhere, Quiet
  <1>6. ASSUME NEW t \in Structs, AppendsAdd(t) PROVE Quiet
    <2> DEFINE id == Len(subscriptions) % IdCount
    <2>1. id \in Nat
      <3>1. \A n \in Nat : n % IdCount \in Nat
        BY IdsAssumption
      <3>2. Len(subscriptions) \in Nat
        BY LenProperties DEF TypeInv, Typed, Fields
      <3> QED BY <3>1, <3>2
    <2>2. log' = log \/ log' = Append(log, Record("add", t, id, 0))
      BY <1>6 DEF AppendsAdd
    <2> HIDE DEF id
    <2>3. Record("add", t, id, 0) \in Records /\ Record("add", t, id, 0).kind # "data"
      BY <2>1, RecordTyped, RecordFields DEF Kinds
    <2> QED BY <1>2, <1>6, <2>2, <2>3 DEF AppendsAdd, Elsewhere, Quiet
  <1>7. ASSUME NEW key \in Keys, NEW value \in Values, NEW structs \in Seq(Structs),
               InitLogger(key, value, structs)
        PROVE  Quiet
    <2> DEFINE d == Initialized(Fields, key, value, structs)
    <2>1. writer' = d.writer /\ log' = d.log /\ UNCHANGED <<closedLogs, logged, currentFileSize>>
      BY <1>7 DEF InitLogger, Become
    <2>2. d.log = log \/ (NoData(log) /\ NoData(d.log))
      BY FieldsAre, InitializedNoData DEF TypeInv, FilesInv
    <2>3. d.log \in Seq(Records)
      BY FieldsAre, InitializedTyped DEF TypeInv, Typed
    <2>4. d.writer # "null" => writer # "null"
      <3>1. \/ Untouching(Fields, d)
            \/ \E n \in Stops(Fields, structs) : Stopping(Fields, d, SubSeq(structs, 1, n - 1), structs[n])
            \/ Subscribing(Fields, d, structs)
        BY FieldsAre, InitializedIs
      <3> HIDE DEF d
      <3> QED BY <3>1, FieldsAre DEF Untouching, Stopping, Subscribing
    <2> HIDE DEF d
    <2>5. CASE d.log = log
      BY <2>1, <2>4, <2>5 DEF Quiet
    <2>6. CASE NoData(log) /\ NoData(d.log)
      BY <1>1, <2>1, <2>3, <2>4, <2>6, SerialsOfNone, BytesOfNone DEF Quiet
    <2> QED BY <2>2, <2>5, <2>6
  <1>8. Shape
    BY NextShape
  <1> QED BY <1>3, <1>4, <1>5, <1>6, <1>7, <1>8 DEF Shape

LEMMA DataIs ==
    ASSUME TypeInv, NEW id \in Nat, NEW t \in Structs
    PROVE  /\ serial \in Nat
           /\ DataRecord(id, t) \in Records /\ IsData(DataRecord(id, t))
           /\ DataRecord(id, t).number = serial /\ DataRecord(id, t).type = t
           /\ SizeIn(DataRecord(id, t)) = SizeOf[t]
  <1>1. serial \in Nat
    BY CallsAssumption DEF TypeInv
  <1>2. /\ DataRecord(id, t).kind = "data" /\ DataRecord(id, t).number = serial
        /\ DataRecord(id, t).type = t
    BY RecordFields DEF DataRecord
  <1> QED BY <1>1, <1>2, DataTyped DEF IsData, SizeIn

-----------------------------------------------------------------------------
LEMMA ConcatAppend ==
    ASSUME NEW S, NEW s \in Seq(S), NEW u \in Seq(S), NEW x \in S
    PROVE  s \o Append(u, x) = Append(s \o u, x)
  <1>1. s \o u \in Seq(S)
    BY ConcatProperties
  <1>2. <<x>> \in Seq(S)
    OBVIOUS
  <1>3. Append(u, x) = u \o <<x>> /\ Append(s \o u, x) = (s \o u) \o <<x>>
    BY <1>1, AppendIsConcat
  <1>4. (s \o u) \o <<x>> = s \o (u \o <<x>>)
    BY <1>2, ConcatAssociative
  <1> QED BY <1>3, <1>4

LEMMA AllSerialsIs == AllSerials = AllIn(closedLogs) \o SerialsIn(log)
  BY DEF AllSerials, AllIn

LEMMA InitLogged == Init => DataIsLoggedOnce
  <1> SUFFICES ASSUME Init PROVE DataIsLoggedOnce
    OBVIOUS
  <1>1. closedLogs = <<>> /\ logged = <<>> /\ log = <<Plain("fileHeader")>>
    BY DEF Init
  <1>2. Plain("fileHeader") \in Records /\ Plain("fileHeader").kind = "fileHeader"
    BY PlainTyped, RecordFields DEF Kinds, Plain
  <1>3. log \in Seq(Records) /\ NoData(log)
    <2>1. log \in Seq(Records) /\ Len(log) = 1 /\ \A i \in 1 .. 1 : log[i] = Plain("fileHeader")
      BY <1>1, <1>2, OneRecord
    <2> QED BY <1>2, <2>1 DEF NoData, IsData
  <1>4. SerialsIn(log) = <<>> /\ AllIn(closedLogs) = <<>>
    BY <1>1, <1>3, SerialsOfNone, AllEmpty
  <1>5. <<>> \o <<>> = <<>>
    OBVIOUS
  <1> QED BY <1>1, <1>4, <1>5, AllSerialsIs DEF DataIsLoggedOnce

LEMMA NextLogged ==
    ASSUME IInv, TypeInv, FilesInv, DataIsLoggedOnce, Next PROVE DataIsLoggedOnce'
  <1> DEFINE all == AllIn(closedLogs)
             own == SerialsIn(log)
  <1>1. log \in Seq(Records) /\ closedLogs \in Seq(Seq(Records))
    BY FieldsAre DEF TypeInv, Typed
  <1>2. all \in Seq(Nat) /\ own \in Seq(Nat) /\ AllIn(Append(closedLogs, log)) = all \o own
    BY <1>1, AllAppend, SerialsTyped
  <1>3. all \o own = logged
    BY AllSerialsIs DEF DataIsLoggedOnce
  <1>4. DataIsLoggedOnce' <=> AllIn(closedLogs') \o SerialsIn(log') = logged'
    BY DEF DataIsLoggedOnce, AllSerials, AllIn
  <1>5. logged \in Seq(Nat)
    BY DEF TypeInv
  <1>6. CASE Quiet \/ \E t \in Structs : Counts(t)
    BY <1>3, <1>4, <1>6 DEF Quiet, Counts
  <1>7. ASSUME NEW id \in Nat, NEW t \in Structs, AppendsData(id, t) PROVE DataIsLoggedOnce'
    <2>1. SerialsIn(Append(log, DataRecord(id, t))) = Append(own, serial) /\ serial \in Nat
      BY <1>1, DataIs, SerialsAppend
    <2>2. closedLogs' = closedLogs /\ log' = Append(log, DataRecord(id, t))
          /\ logged' = Append(logged, serial)
      BY <1>7 DEF AppendsData
    <2> HIDE DEF all, own
    <2>3. all \o Append(own, serial) = Append(all \o own, serial)
      BY <1>2, <2>1, ConcatAppend
    <2>4. AllIn(closedLogs') = all /\ SerialsIn(log') = Append(own, serial)
      BY <2>1, <2>2 DEF all
    <2> QED BY <1>3, <1>4, <2>2, <2>3, <2>4
  <1>8. closedLogs' = Append(closedLogs, log) => AllIn(closedLogs') = logged
    BY <1>2, <1>3
  <1> HIDE DEF all, own
  <1>9. ASSUME NEW t \in Structs, GivesUp(t) PROVE DataIsLoggedOnce'
    <2>1. log' = <<>>
      <3>1. PICK x \in {Usage, InvalidArgument, Parsing} : Become(Ends(Cleared, x))
        BY <1>9 DEF GivesUp
      <3> QED BY <3>1, ClearedIs DEF Become
    <2>2. closedLogs' = Append(closedLogs, log) /\ logged' = logged
      BY <1>9 DEF GivesUp
    <2>3. logged \o <<>> = logged
      BY <1>5, ConcatEmptySeq
    <2> QED BY <1>4, <1>8, <2>1, <2>2, <2>3, SerialsEmpty
  <1>10. ASSUME NEW id \in Nat, NEW t \in Structs, Rotates(id, t) PROVE DataIsLoggedOnce'
    <2>1. NextFile.log \in Seq(Records) /\ SerialsIn(NextFile.log) = <<>>
      BY NextFileNoData, SerialsOfNone DEF TypeInv
    <2>2. closedLogs' = Append(closedLogs, log)
      BY <1>10 DEF Rotates
    <2>3. CASE log' = Append(NextFile.log, DataRecord(id, t)) /\ logged' = Append(logged, serial)
      <3>2. SerialsIn(log') = Append(<<>>, serial) /\ serial \in Nat
        BY <2>1, <2>3, DataIs, SerialsAppend
      <3>3. <<>> \in Seq(Nat)
        OBVIOUS
      <3>4. logged \o Append(<<>>, serial) = Append(logged \o <<>>, serial)
        BY <1>5, <3>2, <3>3, ConcatAppend
      <3>5. logged \o <<>> = logged
        BY <1>5, ConcatEmptySeq
      <3> QED BY <1>4, <1>8, <2>2, <2>3, <3>2, <3>4, <3>5
    <2>4. CASE log' = NextFile.log /\ logged' = logged
      <3>2. logged \o <<>> = logged
        BY <1>5, ConcatEmptySeq
      <3> QED BY <1>4, <1>8, <2>1, <2>2, <2>4, <3>2
    <2> QED BY <1>10, <2>3, <2>4, RotatesTo DEF TypeInv
  <1> QED BY <1>6, <1>7, <1>9, <1>10, NextQuiet

(* The files hold, one after the other, the data of the calls that returned *)
(* and no other, each once and in the order of the calls: whatever methods  *)
(* are called, and wherever a rotation stops.                               *)
THEOREM NothingLostOrDoubled == Spec => []DataIsLoggedOnce
  <1>1. IInv /\ TypeInv /\ FilesInv /\ DataIsLoggedOnce /\ [Next]_vars => DataIsLoggedOnce'
    <2> SUFFICES ASSUME IInv, TypeInv, FilesInv, DataIsLoggedOnce, [Next]_vars
                 PROVE  DataIsLoggedOnce'
      OBVIOUS
    <2>1. CASE UNCHANGED vars
      BY <2>1 DEF vars, DataIsLoggedOnce, AllSerials
    <2> QED BY <2>1, NextLogged
  <1> QED BY <1>1, InitLogged, FilesKept, TypesKept, Invariant, PTL DEF Spec

-----------------------------------------------------------------------------
(***************************************************************************)
(* How large files get. The counter is behind the file by no more than the *)
(* one record that set off the rotation to it, and ahead of it by the data *)
(* that was too long to be written; and there is always a type, or there   *)
(* would be nothing to compare the limit with.                             *)
(***************************************************************************)
RoomIsCounted ==
    writer # "null" => \E t \in Structs : BytesOf(log) <= currentFileSize + SizeOf[t]

Bounded(f) == \E t \in Structs : BytesOf(f) < MaxFileSize + SizeOf[t]

SizesInv == Sized(log) /\ BytesOf(log) \in Nat /\ RoomIsCounted /\ \A f \in RangeOf(closedLogs) : Bounded(f)

LEMMA RoomBounds ==
    ASSUME IInv, TypeInv, SizesInv, writer # "null" PROVE Bounded(log)
  <1>1. currentFileSize \in Nat /\ currentFileSize < MaxFileSize /\ BytesOf(log) \in Nat
    BY DEF TypeInv, IInv, WriterHasRoom, SizesInv
  <1>2. MaxFileSize \in Nat /\ \A t \in Structs : SizeOf[t] \in Nat
    BY SizeAssumption, StructsAssumption
  <1>3. PICK t \in Structs : BytesOf(log) <= currentFileSize + SizeOf[t]
    BY DEF SizesInv, RoomIsCounted
  <1>4. BytesOf(log) < MaxFileSize + SizeOf[t]
    BY <1>1, <1>2, <1>3
  <1> QED BY <1>4 DEF Bounded

LEMMA InitSizes == ASSUME Structs # {} PROVE Init => SizesInv
  <1> SUFFICES ASSUME Init PROVE SizesInv
    OBVIOUS
  <1>1. closedLogs = <<>> /\ currentFileSize = 0 /\ log = <<Plain("fileHeader")>>
    BY DEF Init
  <1>2. Plain("fileHeader") \in Records /\ Plain("fileHeader").kind = "fileHeader"
    BY PlainTyped, RecordFields DEF Kinds, Plain
  <1>3. log \in Seq(Records) /\ NoData(log)
    <2>1. log \in Seq(Records) /\ Len(log) = 1 /\ \A i \in 1 .. 1 : log[i] = Plain("fileHeader")
      BY <1>1, <1>2, OneRecord
    <2> QED BY <1>2, <2>1 DEF NoData, IsData
  <1>4. BytesOf(log) = 0 /\ Sized(log)
    BY <1>3, BytesOfNone
  <1>5. RangeOf(<<>>) = {}
    BY DEF RangeOf
  <1>6. \E t \in Structs : 0 <= 0 + SizeOf[t]
    <2>1. PICK t \in Structs : SizeOf[t] \in Nat
      BY StructsAssumption
    <2> QED BY <2>1
  <1> QED BY <1>1, <1>4, <1>5, <1>6 DEF SizesInv, RoomIsCounted

LEMMA NextSizes ==
    ASSUME IInv, TypeInv, FilesInv, SizesInv, Next PROVE SizesInv'
  <1>1. log \in Seq(Records) /\ closedLogs \in Seq(Seq(Records)) /\ Sized(log)
    BY FieldsAre DEF TypeInv, Typed, SizesInv
  <1>2. currentFileSize \in Nat /\ BytesOf(log) \in Nat /\ \A t \in Structs : SizeOf[t] \in Nat
    BY StructsAssumption DEF TypeInv, SizesInv
  <1>3. CASE Quiet
    <2>1. /\ Sized(log') /\ BytesOf(log') = BytesOf(log) /\ closedLogs' = closedLogs
          /\ currentFileSize' = currentFileSize /\ (writer' # "null" => writer # "null")
      BY <1>1, <1>3 DEF Quiet
    <2> QED BY <2>1 DEF SizesInv, RoomIsCounted
  <1>4. ASSUME NEW id \in Nat, NEW t \in Structs, AppendsData(id, t) PROVE SizesInv'
    <2>1. /\ log' = Append(log, DataRecord(id, t)) /\ closedLogs' = closedLogs
          /\ currentFileSize' = currentFileSize + SizeOf[t] /\ writer # "null"
      BY <1>4 DEF AppendsData, Served
    <2>2. Sized(log') /\ BytesOf(log') = BytesOf(log) + SizeOf[t]
      <3>1. /\ DataRecord(id, t) \in Records /\ DataRecord(id, t).type \in Structs
            /\ SizeIn(DataRecord(id, t)) = SizeOf[t]
        BY DataIs
      <3> QED BY <1>1, <2>1, <3>1, BytesAppend
    <2>3. PICK x \in Structs : BytesOf(log) <= currentFileSize + SizeOf[x]
      BY <2>1 DEF SizesInv, RoomIsCounted
    <2>4. BytesOf(log') \in Nat /\ BytesOf(log') <= currentFileSize' + SizeOf[x]
      BY <1>2, <2>1, <2>2, <2>3
    <2> QED BY <2>1, <2>2, <2>4 DEF SizesInv, RoomIsCounted
  <1>8. ASSUME NEW t \in Structs, Counts(t) PROVE SizesInv'
    <2>1. /\ log' = log /\ closedLogs' = closedLogs /\ writer # "null"
          /\ currentFileSize' = currentFileSize + SizeOf[t]
      BY <1>8 DEF Counts
    <2>2. PICK x \in Structs : BytesOf(log) <= currentFileSize + SizeOf[x]
      BY <2>1 DEF SizesInv, RoomIsCounted
    <2>3. BytesOf(log) <= currentFileSize' + SizeOf[x]
      BY <1>2, <2>1, <2>2
    <2> QED BY <2>1, <2>3 DEF SizesInv, RoomIsCounted
  <1>5. writer # "null" /\ closedLogs' = Append(closedLogs, log) =>
          \A f \in RangeOf(closedLogs') : Bounded(f)
    BY <1>1, RoomBounds, RangeAppend DEF SizesInv
  <1>6. ASSUME NEW t \in Structs, GivesUp(t) PROVE SizesInv'
    <2>1. PICK x \in {Usage, InvalidArgument, Parsing} : Become(Ends(Cleared, x))
      BY <1>6 DEF GivesUp
    <2>2. writer' = "null" /\ log' = <<>>
      BY <2>1, ClearedIs DEF Become
    <2>3. writer # "null" /\ closedLogs' = Append(closedLogs, log)
      BY <1>6 DEF GivesUp, IInv, LayersAgree
    <2>4. Sized(<<>>) /\ BytesOf(<<>>) = 0
      <3>1. <<>> \in Seq(Records) /\ Len(<<>>) = 0
        OBVIOUS
      <3>2. NoData(<<>>)
        BY <3>1 DEF NoData
      <3> QED BY <3>1, <3>2, BytesOfNone
    <2> QED BY <1>5, <2>2, <2>3, <2>4 DEF SizesInv, RoomIsCounted
  <1>7. ASSUME NEW id \in Nat, NEW t \in Structs, Rotates(id, t) PROVE SizesInv'
    <2>1. /\ NextFile.log \in Seq(Records)
          /\ BytesOf(NextFile.log) = 0 /\ Sized(NextFile.log)
      BY NextFileNoData, BytesOfNone DEF TypeInv
    <2>2. writer # "null" /\ closedLogs' = Append(closedLogs, log) /\ currentFileSize' = 0
      BY <1>7 DEF Rotates, Served
    <2>3. CASE log' = Append(NextFile.log, DataRecord(id, t))
      <3>1. Sized(log') /\ BytesOf(log') = 0 + SizeOf[t]
        <4>1. /\ DataRecord(id, t) \in Records /\ DataRecord(id, t).type \in Structs
              /\ SizeIn(DataRecord(id, t)) = SizeOf[t]
          BY DataIs
        <4> QED BY <2>1, <2>3, <4>1, BytesAppend
      <3>2. BytesOf(log') \in Nat /\ BytesOf(log') <= currentFileSize' + SizeOf[t]
        BY <1>2, <2>2, <3>1
      <3> QED BY <1>5, <2>2, <3>1, <3>2 DEF SizesInv, RoomIsCounted
    <2>4. CASE log' = NextFile.log
      <3>1. 0 <= currentFileSize' + SizeOf[t]
        BY <1>2, <2>2
      <3> QED BY <1>5, <2>1, <2>2, <2>4, <3>1 DEF SizesInv, RoomIsCounted
    <2> QED BY <1>7, <2>3, <2>4, RotatesTo DEF TypeInv
  <1> QED BY <1>3, <1>4, <1>6, <1>7, <1>8, NextQuiet

(* No file takes more data than the limit and one record: the record that   *)
(* sets off a rotation is the only one that is not counted.                 *)
THEOREM FilesStayBounded ==
    ASSUME Structs # {} PROVE Spec => []FileSizeIsBounded
  <1>1. IInv /\ TypeInv /\ FilesInv /\ SizesInv /\ [Next]_vars => SizesInv'
    <2> SUFFICES ASSUME IInv, TypeInv, FilesInv, SizesInv, [Next]_vars PROVE SizesInv'
      OBVIOUS
    <2>1. CASE UNCHANGED vars
      BY <2>1 DEF vars, SizesInv, RoomIsCounted
    <2> QED BY <2>1, NextSizes
  <1>2. IInv /\ TypeInv /\ FilesInv /\ SizesInv => FileSizeIsBounded
    <2> SUFFICES ASSUME IInv, TypeInv, FilesInv, SizesInv PROVE FileSizeIsBounded
      OBVIOUS
    <2>1. RangeOf(Append(closedLogs, log)) = RangeOf(closedLogs) \union {log}
      BY RangeAppend, FieldsAre DEF TypeInv, Typed
    <2>2. log # <<>> => Bounded(log)
      <3>1. log # <<>> => writer # "null"
        BY FieldsAre DEF FilesInv, Consistent
      <3> QED BY <3>1, RoomBounds DEF SizesInv
    <2> QED BY <2>1, <2>2 DEF SizesInv, FileSizeIsBounded, Bounded
  <1> QED BY <1>1, <1>2, InitSizes, FilesKept, TypesKept, Invariant, PTL DEF Spec
=============================================================================
