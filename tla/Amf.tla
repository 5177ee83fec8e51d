---------------------------------- MODULE Amf ----------------------------------
(***************************************************************************)
(* AMF0 values as protocol/amf.js writes and reads them.                   *)
(*                                                                         *)
(* A buffer is a sequence of cells, each with one field that tells what    *)
(* the bytes are: a type marker, the length of a string, a byte of its     *)
(* text, a number.  Where a length counts the wrong thing, the reader gets *)
(* to a cell of another kind, as the code gets to the wrong bytes; what it *)
(* makes of them is Garbled.                                               *)
(***************************************************************************)
EXTENDS Naturals, Sequences, SequencesExt

CONSTANT
  Wide         \* strings with a letter that takes two bytes in UTF-8

\* Values.  The types of the last four are only read, never written.
Num(n)       == [type |-> "number", number |-> n]
Str(s)       == [type |-> "string", text |-> s]
Bool(b)      == [type |-> "boolean", bool |-> b]
Null         == [type |-> "null"]
Undefined    == [type |-> "undefined"]
Obj(props)   == [type |-> "object", props |-> props]
Arr(props)   == [type |-> "array", props |-> props]
SArr(items)  == [type |-> "sarray", items |-> items]
Date(n)      == [type |-> "date", number |-> n]
Xml(s)       == [type |-> "xml", text |-> s]
Long(s)      == [type |-> "longstring", text |-> s]
Typed(class, props) == [type |-> "typed", class |-> class, props |-> props]
Garbled      == [type |-> "garbled"]

Chars(s) == IF s = "" THEN 0 ELSE 1
Bytes(s) == IF s \in Wide THEN 2 ELSE Chars(s)
Letters(s) == [i \in 1..Bytes(s) |-> [byte |-> s]]

\* The shape of a value; Part says it of the values within it.
IsSequence(s) == s \in Seq(Range(s))
HasShape(v, Part(_)) ==
  /\ v.type \in {"object", "array", "typed"} =>
       /\ IsSequence(v.props)
       /\ \A i \in DOMAIN v.props : Part(v.props[i][2])
  /\ v.type = "sarray" =>
       IsSequence(v.items) /\ \A i \in DOMAIN v.items : Part(v.items[i])
IsLeaf(v)  == HasShape(v, LAMBDA part : TRUE)
IsInner(v) == HasShape(v, IsLeaf)
IsValue(v) == HasShape(v, IsInner)

-----------------------------------------------------------------------------
(***************************************************************************)
(* Writing.                                                                *)
(***************************************************************************)
Marker(type) == <<[marker |-> type]>>

\* amf0encUString: the length in bytes.
UString(s) == <<[length |-> Bytes(s)]>> \o Letters(s)

\* amf0encString, and the texts written like it: the length in characters.
Text(s) == <<[length |-> Chars(s)]>> \o Letters(s)

\* amf0encObject, after its marker; Part writes a value.
Props(props, Part(_)) ==
  FlattenSeq([i \in DOMAIN props |-> UString(props[i][1]) \o Part(props[i][2])])
    \o UString("") \o Marker("objectEnd")

\* amf0EncodeOne, by amfType; Part writes the values within a value.
Encode(v, Part(_)) ==
  Marker(v.type) \o
    CASE v.type = "number"  -> <<[double |-> v.number]>>
      [] v.type = "boolean" -> <<[bool |-> v.bool]>>
      [] v.type \in {"string", "xml", "longstring"} -> Text(v.text)
      [] v.type = "object"  -> Props(v.props, Part)
      [] v.type = "array"   -> <<[count |-> Len(v.props)]>> \o Props(v.props, Part)
      [] v.type = "sarray"  ->
           <<[count |-> Len(v.items)]>>
             \o FlattenSeq([i \in DOMAIN v.items |-> Part(v.items[i])])
      [] v.type = "date"    -> <<[zone |-> 0], [double |-> v.number]>>
      [] v.type = "typed"   -> Text(v.class) \o Props(v.props, Part)
      [] OTHER              -> <<>>   \* null, undefined

\* A bound: values are in one another at most three deep.
EncodeLeaf(v)  == Encode(v, LAMBDA part : <<>>)
EncodeInner(v) == Encode(v, EncodeLeaf)
EncodeOne(v)   == Encode(v, EncodeInner)

-----------------------------------------------------------------------------
(***************************************************************************)
(* Reading: the value, and how many cells were read.                       *)
(***************************************************************************)
Got(length, value) == [length |-> length, value |-> value]
Shift(r, n) == Got(r.length + n, r.value)
Lost(buffer) == Got(Len(buffer), Garbled)
From(buffer, i) == SubSeq(buffer, i, Len(buffer))
Starts(buffer, field) == buffer # <<>> /\ field \in DOMAIN buffer[1]

\* amf0decUString, and the rest of amf0decString.
DecText(buffer) ==
  IF ~Starts(buffer, "length") \/ Len(buffer) <= buffer[1].length
  THEN Lost(buffer)
  ELSE LET letters == SubSeq(buffer, 2, 1 + buffer[1].length)
           text == IF letters # <<>> /\ Starts(letters, "byte")
                   THEN letters[1].byte ELSE ""
       IN IF letters = Letters(text) THEN Got(1 + Len(letters), Str(text))
          ELSE Lost(buffer)

\* One round of the loop of amf0decObject: an end marker ends it, and so
\* does an empty name without one.  `r` is what was read until now, and Part
\* reads a value.
NextProp(buffer, r, Part(_)) ==
  LET key == DecText(From(buffer, r.length + 1))
      rest == From(buffer, r.length + key.length + 1)
      val == Part(rest)
      Ended(end) == [length |-> end.length, value |-> end.value, ended |-> TRUE]
  IN IF r.ended THEN r
     ELSE IF key.value = Garbled \/ rest = <<>> THEN Ended(Lost(buffer))
     ELSE IF rest[1] = [marker |-> "objectEnd"]
     THEN Ended(Got(r.length + key.length + 1, r.value))
     ELSE IF key.value.text = ""
     THEN Ended(Got(r.length + key.length, r.value))
     ELSE IF val.value = Garbled THEN Ended(Lost(buffer))
     ELSE [length |-> r.length + key.length + val.length, ended |-> FALSE,
           value |-> Obj(Append(r.value.props, <<key.value.text, val.value>>))]

\* amf0decObject, after its marker: no more rounds than there are cells.
DecProps(buffer, Part(_)) ==
  LET round[i \in 0..Len(buffer)] ==
        IF i = 0 THEN [length |-> 0, value |-> Obj(<<>>), ended |-> FALSE]
        ELSE NextProp(buffer, round[i - 1], Part)
      last == round[Len(buffer)]
  IN IF last.ended THEN Got(last.length, last.value) ELSE Lost(buffer)

\* One round of the loop of amf0decSArray.
NextItem(buffer, r, Part(_)) ==
  LET val == Part(From(buffer, r.length + 1))
  IN IF Garbled \in {r.value, val.value} THEN Lost(buffer)
     ELSE Got(r.length + val.length, SArr(Append(r.value.items, val.value)))

\* amf0decSArray, after its count.
DecItems(buffer, count, Part(_)) ==
  LET round[i \in 0..count] ==
        IF i = 0 THEN Got(0, SArr(<<>>)) ELSE NextItem(buffer, round[i - 1], Part)
  IN round[count]

\* amf0decArray: the length that amf0decObject returns counts a marker that
\* is not there.
DecArray(buffer, Part(_)) == Shift(DecProps(From(buffer, 3), Part), 3)

\* amf0decTypedObj: an object with one more property.
DecTyped(buffer, Part(_)) ==
  LET class == DecText(From(buffer, 2))
      obj == DecProps(From(buffer, class.length + 2), Part)
  IN IF Garbled \in {class.value, obj.value} THEN Lost(buffer)
     ELSE Got(1 + class.length + obj.length,
              Obj(Append(obj.value.props, <<"__className__", class.value>>)))

\* amf0DecodeOne, by marker; Part reads the values within a value.
Decode(buffer, Part(_)) ==
  IF ~Starts(buffer, "marker") THEN Lost(buffer)
  ELSE LET type == buffer[1].marker
       IN CASE type = "number"    -> Got(2, Num(buffer[2].double))
            [] type = "boolean"   -> Got(2, Bool(buffer[2].bool))
            [] type = "null"      -> Got(1, Null)
            [] type = "undefined" -> Got(1, Undefined)
            [] type \in {"string", "xml", "longstring"}
                                  -> Shift(DecText(From(buffer, 2)), 1)
            [] type = "object"    -> Shift(DecProps(From(buffer, 2), Part), 1)
            [] type = "array"     -> DecArray(buffer, Part)
            [] type = "sarray"    ->
                 Shift(DecItems(From(buffer, 3), buffer[2].count, Part), 2)
            [] type = "date"      -> Got(3, Num(buffer[3].double))
            [] type = "typed"     -> DecTyped(buffer, Part)
            [] OTHER              -> Lost(buffer)

\* The same bound.
DecodeLeaf(buffer)  == Decode(buffer, Lost)
DecodeInner(buffer) == Decode(buffer, DecodeLeaf)
DecodeOne(buffer)   == Decode(buffer, DecodeInner)

-----------------------------------------------------------------------------
(***************************************************************************)
(* Commands: a name, and the values that rtmpCmdCode or rtmpDataCode lists *)
(* for that name, in that order.                                           *)
(***************************************************************************)
CmdCode(cmd) ==
  CASE cmd = "connect"           -> <<"transId", "cmdObj", "args">>
    [] cmd \in {"createStream", "close"} -> <<"transId", "cmdObj">>
    [] cmd = "play"    -> <<"transId", "cmdObj", "streamName", "start",
                            "duration", "reset">>
    [] cmd = "publish" -> <<"transId", "cmdObj", "streamName", "type">>
    [] cmd \in {"_result", "onStatus"} -> <<"transId", "cmdObj", "info">>
    [] cmd = "_error"  -> <<"transId", "cmdObj", "info", "streamId">>
    [] cmd = "|RtmpSampleAccess" -> <<"bool1", "bool2">>
    [] OTHER -> <<>>

\* encodeAmf0Cmd and encodeAmf0Data: the values that are given.
EncodeAmf0Cmd(opt) ==
  LET names == CmdCode(opt.cmd.text)
  IN EncodeOne(opt.cmd)
       \o FlattenSeq([i \in DOMAIN names |->
            IF names[i] \in DOMAIN opt THEN EncodeOne(opt[names[i]]) ELSE <<>>])

\* decodeAmf0Cmd and decodeAmf0Data: names are given out in order for as
\* long as there is something to read.
Named(acc, n, r) ==
  [rest |-> From(acc.rest, r.length + 1),
   resp |-> [x \in DOMAIN acc.resp \cup {n} |-> IF x = n THEN r.value ELSE acc.resp[x]]]
NextValue(acc, n) ==
  IF acc.rest = <<>> THEN acc ELSE Named(acc, n, DecodeOne(acc.rest))
CmdValues(cmd, payload) ==
  IF cmd.value.type # "string" THEN [cmd |-> Garbled]
  ELSE FoldLeft(NextValue, [rest |-> From(payload, cmd.length + 1),
                            resp |-> [cmd |-> cmd.value]],
                CmdCode(cmd.value.text)).resp
DecodeAmf0Cmd(payload) == CmdValues(DecodeOne(payload), payload)

-----------------------------------------------------------------------------
(***************************************************************************)
(* The reference: what a reader should make of a value.                    *)
(***************************************************************************)
MeantProps(props, Part(_)) ==
  [i \in DOMAIN props |-> <<props[i][1], Part(props[i][2])>>]
MeantBy(v, Part(_)) ==
  CASE v.type = "date"  -> Num(v.number)
    [] v.type \in {"xml", "longstring"} -> Str(v.text)
    [] v.type \in {"object", "array"} -> Obj(MeantProps(v.props, Part))
    [] v.type = "sarray" -> SArr([i \in DOMAIN v.items |-> Part(v.items[i])])
    [] v.type = "typed"  -> Obj(Append(MeantProps(v.props, Part),
                                       <<"__className__", Str(v.class)>>))
    [] OTHER -> v
MeantLeaf(v)  == MeantBy(v, LAMBDA part : part)
MeantInner(v) == MeantBy(v, MeantLeaf)
Meant(v)      == MeantBy(v, MeantInner)
MeantCmd(opt) == [n \in DOMAIN opt |-> Meant(opt[n])]

=============================================================================
