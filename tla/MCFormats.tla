----------------------------- MODULE MCFormats ------------------------------
(***************************************************************************)
(* Four components that do not interact, checked in one run: "unit" says   *)
(* which of them a behaviour is about.  All are extended, so that TLC      *)
(* evaluates their assumptions, but CommandMessage, which is recursive and *)
(* an instance.                                                            *)
(***************************************************************************)
EXTENDS Bandwidth, RtpRemuxer, FlvDemuxer, TLC

CONSTANTS Keys, MaxChanges

VARIABLES unit, object, changes, command, sent, data, v, fields, step, outcome

\* Properties of an object: atoms, two with one key, an empty and a long string,
\* NULL, a date without a key, an object with a child, a strict array, and an
\* ECMA array that ends in one.
A == INSTANCE Amf
Value(t, k, x) == A!Set(A!NewValue(t), k, x)
Child == A!Set(A!Add(A!NewValue("OBJECT"), Value("STRING", "a", "")), "b", "")
Strict ==
    A!Set(A!Add(A!Add(A!NewValue("STRICT_ARRAY"), Value("DOUBLE", "", "1")), Value("NULL", "", "")),
          "c", "")
Properties ==
    {Value("DOUBLE", "a", "1"), Value("STRING", "a", "x"), Value("LONG_STRING", "b", "long"),
     Value("NULL", "c", ""), Value("DATE", "", "d"), Child, Strict,
     A!Set(A!Add(A!NewValue("ECMA_ARRAY"), Strict), "c", "")}

\* Sound with a timestamp that uses all four bytes, pictures of one byte, which
\* are too short, and an empty script tag.
Sound == [kind |-> 8, timestamp |-> 16909060, payload |-> <<175, 1>>]
Short == [kind |-> 9, timestamp |-> 65793, payload |-> <<23>>]
Empty == [kind |-> 18, timestamp |-> 0, payload |-> <<>>]
MCStreams == {<<Sound, Empty>>, <<Empty, Sound>>, <<Sound, Short>>}

commandVars == <<object, changes, command, sent, data, v, fields, step, outcome>>

Commands == INSTANCE CommandMessage

FormatsInit ==
    /\ unit \in {"bandwidth", "commands", "demuxer", "rtp"}
    /\ Init /\ Commands!Init /\ DemuxInit /\ RtpInit

FormatsNext ==
    /\ UNCHANGED unit
    /\ \/ /\ unit = "bandwidth" /\ Next
          /\ UNCHANGED <<commandVars, demuxVars, rtpVars>>
       \/ /\ unit = "commands" /\ Commands!Next
          /\ UNCHANGED <<vars, demuxVars, rtpVars>>
       \/ /\ unit = "demuxer" /\ DemuxNext
          /\ UNCHANGED <<vars, commandVars, rtpVars>>
       \/ /\ unit = "rtp" /\ RtpNext
          /\ UNCHANGED <<vars, commandVars, demuxVars>>

FormatsSpec ==
    FormatsInit /\ [][FormatsNext]_<<unit, vars, commandVars, demuxVars, rtpVars>>

Symmetry == Permutations(Readers)

\* AMF and the parsers of commands: values arrive in their fields as they were sent.
CommandsArriveAsSent == Commands!CommandsArriveAsSent
=============================================================================
