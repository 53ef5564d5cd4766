--------------------------- MODULE CommandMessage ---------------------------
(***************************************************************************)
(* A command or data message from the AMF encoder of one side to           *)
(* CommandMessage.Parse or DataMessage.Parse of the other.  The sender     *)
(* puts an object together with Add and Del and sends it in any of the     *)
(* commands; the receiver parses the message value by value, and a failed  *)
(* type assertion is a panic, which NetConnection.read recovers.  Messages *)
(* are those of AMF0: of a COMMAND_AMF3 process drops a first byte, which  *)
(* sendBytes does not write.                                               *)
(***************************************************************************)
EXTENDS Amf

CONSTANTS
    Properties,   \* values to Add to the object
    Keys,         \* keys to Del
    MaxChanges    \* bound: calls of Add and Del

VARIABLES
    object,       \* the object being put together
    changes,      \* calls of Add and Del (for MaxChanges)
    command,      \* the command sent, or "" before
    sent,         \* the values sent behind the name and the transaction id
    data,         \* what Parse has not read yet
    v,            \* the local Value that Parse uses again and again
    fields,       \* the fields of the message that have been set
    step,         \* the next step of Parse
    outcome       \* "unsent", "parsing", "parsed", "error" or "panic"

vars == <<object, changes, command, sent, data, v, fields, step, outcome>>

-----------------------------------------------------------------------------
(* What Parse reads, in order.  "as" is the type asserted, or "value" for  *)
(* a Value kept as it is; "absent" says what the end of the data means.    *)

Required(field, as) == [field |-> field, as |-> as, absent |-> "error"]
Optional(field, as) == [field |-> field, as |-> as, absent |-> "done"]

CommandObject == Required("CommandObject", "value")
Arguments == Required("Arguments", "value")

Steps(c) ==
    CASE c = "connect" ->
           <<CommandObject, [field |-> "Arguments", as |-> "value", absent |-> "empty"]>>
      [] c = "createStream" -> <<CommandObject>>
      [] c \in {"_result", "_error", "play2", "deleteStream", "onStatus"} ->
           <<CommandObject, Arguments>>
      [] c = "play" ->
           <<CommandObject, Required("StreamName", "string"), Optional("Start", "float64"),
             Optional("Duration", "float64"), Optional("Reset", "bool")>>
      [] c \in {"receiveAudio", "receiveVideo"} ->
           <<CommandObject, Arguments, [field |-> "Flag", as |-> "bool", absent |-> "unread"]>>
      [] c = "publish" ->
           <<CommandObject, Required("PublishingName", "string"), Required("PublishingType", "string")>>
      [] c = "seek" -> <<CommandObject, Required("MilliSeconds", "float64")>>
      [] c = "pause" ->
           <<CommandObject, Required("Flag", "bool"), Required("MilliSeconds", "float64")>>
      [] OTHER -> <<>>      \* close, closeStream and user commands

\* DataMessage.Parse: without a key of its own, the handler is the key.
DataSteps(c) ==
    IF c \in {"@setDataFrame", "@clearDataFrame"}
    THEN <<Required("Key", "string"), Required("Value", "value")>>
    ELSE <<[field |-> "Key", as |-> "string", absent |-> "unread"], Required("Value", "value")>>

DataHandlers == {"@setDataFrame", "@clearDataFrame", "onMetaData"}
IsData(c) == c \in DataHandlers

StepsOf(c) == IF IsData(c) THEN DataSteps(c) ELSE Steps(c)

\* The fields of play that Parse sets before it reads any value.
Defaults(c) ==
    IF c = "play"
    THEN [f \in {"Start", "Duration", "Reset"} |->
            CASE f = "Start" -> <<"float64", "-2">>
              [] f = "Duration" -> <<"float64", "-1">>
              [] f = "Reset" -> <<"bool", "true">>]
    ELSE <<>>

-----------------------------------------------------------------------------
(* The sender.                                                             *)

Null == NewValue("NULL")
Text(x) == Set(NewValue("STRING"), "", x)
Number(x) == Set(NewValue("DOUBLE"), "", x)
Truth(x) == Set(NewValue("BOOLEAN"), "", x)

Prefixes(s, from) == {SubSeq(s, 1, n) : n \in from..Len(s)}

\* The values that a client or a server puts behind the transaction id.
ArgumentsOf(c) ==
    CASE c = "connect" -> {<<object>>, <<object, Text("user")>>}
      [] c = "createStream" -> {<<Null>>}
      [] c \in {"_result", "_error"} -> {<<object, object>>, <<Null, Number("1")>>}
      [] c = "onStatus" -> {<<Null, object>>}
      [] c = "deleteStream" -> {<<Null, Number("1")>>}
      [] c = "play2" -> {<<Null, object>>}
      [] c = "play" ->
           Prefixes(<<Null, Text("name"), Number("0"), Number("10"), Truth("false")>>, 2)
           \cup {<<Null, Text("name"), Null>>}
      [] c \in {"receiveAudio", "receiveVideo"} -> {<<Null, Truth("true")>>}
      [] c = "publish" -> Prefixes(<<Null, Text("name"), Text("live")>>, 2)
      [] c = "seek" -> {<<Null, Number("7")>>}
      [] c = "pause" -> {<<Null, Truth("true"), Number("7")>>}
      [] c = "@setDataFrame" -> {<<Text("onMetaData"), object>>}
      [] c = "@clearDataFrame" -> {<<Text("onMetaData")>>}
      [] c = "onMetaData" -> {<<object>>}
      [] OTHER -> {<<>>}

Commands ==
    {"connect", "close", "createStream", "_result", "_error", "play", "play2", "deleteStream",
     "closeStream", "receiveAudio", "receiveVideo", "publish", "seek", "pause", "onStatus"}
    \cup DataHandlers

RECURSIVE EncodeAll(_)
EncodeAll(values) ==
    IF values = <<>> THEN <<>> ELSE Encode(Head(values)) \o EncodeAll(Tail(values))

Init ==
    /\ object = NewValue("OBJECT")
    /\ changes = 0
    /\ command = "" /\ sent = <<>> /\ data = <<>>
    /\ v = NewValue("STRING")
    /\ fields = <<>> /\ step = 1 /\ outcome = "unsent"

Change(o) ==
    /\ outcome = "unsent" /\ changes < MaxChanges
    /\ object' = o
    /\ changes' = changes + 1
    /\ UNCHANGED <<command, sent, data, v, fields, step, outcome>>

AddProperty(p) == Change(Add(object, p))
DelProperty(key) == Change(Del(object, key))

\* The other type of object; the list and the table are filled alike.
UseECMAArray ==
    /\ outcome = "unsent" /\ object.type = "OBJECT" /\ changes = 0
    /\ object' = NewValue("ECMA_ARRAY")
    /\ UNCHANGED <<changes, command, sent, data, v, fields, step, outcome>>

\* Parse begins with the name, and for a command with the transaction id.
Send(c) ==
    /\ outcome = "unsent"
    /\ \E values \in ArgumentsOf(c) :
        /\ \A i \in DOMAIN values : CanEncode(values[i])
        /\ sent' = values
        /\ data' = EncodeAll(values)
    /\ command' = c
    /\ v' = IF IsData(c) THEN Text(c) ELSE Number("1")
    /\ fields' = Defaults(c)
    /\ outcome' = "parsing"
    /\ UNCHANGED <<object, changes, step>>

-----------------------------------------------------------------------------
(* The receiver.                                                           *)

Store(f, x) == [k \in DOMAIN fields \cup {f} |-> IF k = f THEN x ELSE fields[k]]

EmptyArguments == [NewValue("OBJECT") EXCEPT !.value = <<"list", "">>]

Advance(s) == step' = step + 1 /\ UNCHANGED <<object, changes, command, sent>>

\* The value is read: it becomes the field, or the assertion panics.
ReadField(s) ==
    LET d == Decode(IF s.as = "value" /\ ~IsData(command) THEN NewValue("DOUBLE") ELSE v, data)
    IN  /\ s.absent # "unread" /\ d.ok
        /\ data' = d.rest
        /\ v' = IF s.as = "value" THEN v ELSE d.v
        /\ \/ /\ s.as = "value"
              /\ fields' = Store(s.field, d.v)
              /\ UNCHANGED outcome
           \/ /\ s.as = d.v.value[1]
              /\ fields' = Store(s.field, d.v.value)
              /\ UNCHANGED outcome
           \/ /\ s.as \notin {"value", d.v.value[1]}
              /\ outcome' = "panic"
              /\ UNCHANGED fields
        /\ Advance(s)

\* There is no value, or none that can be read.
Absent(s) ==
    /\ s.absent # "unread"
    /\ ~Decode(v, data).ok
    /\ outcome' = CASE s.absent = "error" -> "error"
                    [] s.absent = "done" -> "parsed"
                    [] s.absent = "empty" -> outcome
    /\ fields' = IF s.absent = "empty" THEN Store(s.field, EmptyArguments) ELSE fields
    /\ UNCHANGED <<data, v>>
    /\ Advance(s)

\* The field is taken from v as it is: receiveAudio and receiveVideo read
\* their flag into Arguments and assert the transaction id.
TakeUnread(s) ==
    /\ s.absent = "unread"
    /\ IF s.as = v.value[1]
       THEN fields' = Store(s.field, v.value) /\ UNCHANGED outcome
       ELSE outcome' = "panic" /\ UNCHANGED fields
    /\ UNCHANGED <<data, v>>
    /\ Advance(s)

ParseStep ==
    /\ outcome = "parsing" /\ step <= Len(StepsOf(command))
    /\ LET s == StepsOf(command)[step]
       IN  ReadField(s) \/ Absent(s) \/ TakeUnread(s)

ParseEnds ==
    /\ outcome = "parsing" /\ step > Len(StepsOf(command))
    /\ outcome' = "parsed"
    /\ UNCHANGED <<object, changes, command, sent, data, v, fields, step>>

Next ==
    \/ \E p \in Properties : AddProperty(p)
    \/ \E k \in Keys : DelProperty(k)
    \/ UseECMAArray
    \/ \E c \in Commands : Send(c)
    \/ ParseStep
    \/ ParseEnds

Spec == Init /\ [][Next]_vars

-----------------------------------------------------------------------------
(* Properties.                                                             *)

\* Values that the encoding cannot carry: a property without a key, an element
\* of a strict array with one, a strict array at the end of an object that
\* something follows (SkipEnd takes the end of the object), and an object
\* whose table has lost a key that its list still has.
RECURSIVE Carried(_, _)
Carried(x, last) ==
    IF x.type \notin Lists THEN TRUE
    ELSE /\ Tabled(x) => DOMAIN x.table = {x.list[i].key : i \in DOMAIN x.list}
         /\ \A i \in DOMAIN x.list :
              /\ (x.list[i].key = "") <=> ~Tabled(x)
              /\ Carried(x.list[i], last /\ i = Len(x.list))
         /\ Tabled(x) /\ x.list # <<>> /\ x.list[Len(x.list)].type = "STRICT_ARRAY" => last

AllCarried == \A i \in DOMAIN sent : Carried(sent[i], i = Len(sent))

\* Messages that Parse does not accept as they are meant: a flag that is never
\* read, a publish without its type, a data frame cleared without a value, and
\* NULL for the start of a play, which leaves the name where a number should be.
Understood ==
    /\ command \notin {"receiveAudio", "receiveVideo", "@clearDataFrame"}
    /\ ~(command = "publish" /\ Len(sent) = 2)
    /\ ~(command = "play" /\ sent[Len(sent)] = Null)

Field(i) == StepsOf(command)[i + IF command = "onMetaData" THEN 1 ELSE 0]

\* Every value of a message arrives in its field as the sender had it, with
\* the list, the table and the nested objects; a value left out leaves the
\* default that Parse sets, and Parse neither fails nor panics.
CommandsArriveAsSent ==
    outcome \notin {"unsent", "parsing"} /\ AllCarried /\ Understood =>
        /\ outcome = "parsed"
        /\ \A i \in DOMAIN sent :
            fields[Field(i).field] = IF Field(i).as = "value" THEN sent[i] ELSE sent[i].value
        /\ \A f \in DOMAIN Defaults(command) :
            (\A i \in DOMAIN sent : Field(i).field # f) => fields[f] = Defaults(command)[f]
        /\ command = "connect" /\ Len(sent) = 1 => fields["Arguments"] = EmptyArguments
=============================================================================
