----------------------------- MODULE XrceCodec -----------------------------
(***************************************************************************)
(* One object of an XRCE type on its way through the functions its class   *)
(* offers: it is measured and serialized at some place of a buffer, read   *)
(* back into an object of the receiver, and copied.  The Agent sizes every *)
(* message it sends with getCdrSerializedSize, so a class that miscounts   *)
(* is harmless only where the Agent never sends it.                        *)
(***************************************************************************)
EXTENDS XrceTypes

CONSTANT Offsets      \* the places of a buffer at which objects are put

TypeOf ==
    [Time_t |-> Time_t, TransportAddress |-> TransportAddress, Property |-> Property,
     CLIENT_Representation |-> CLIENT_Representation,
     AGENT_Representation |-> AGENT_Representation,
     ObjectVariant |-> [ObjectVariant EXCEPT !.cases = [d \in DOMAIN @ \ {13, 14} |-> @[d]]],
     OBJK_DOMAIN_Representation |-> OBJK_DOMAIN_Representation,
     OBJK_DomainParticipant_Binary |-> OBJK_DomainParticipant_Binary,
     OBJK_Topic_Binary |-> OBJK_Topic_Binary,
     OBJK_Publisher_Binary |-> OBJK_Publisher_Binary,
     OBJK_Subscriber_Binary |-> OBJK_Subscriber_Binary,
     OBJK_DataReader_Binary |-> OBJK_DataReader_Binary,
     OBJK_DataWriter_Binary |-> OBJK_DataWriter_Binary,
     OBJK_Requester_Binary |-> OBJK_Requester_Binary,
     OBJK_Replier_Binary |-> OBJK_Replier_Binary,
     CreationMode |-> CreationMode, ActivityInfoVariant |-> ActivityInfoVariant,
     BaseObjectReply |-> BaseObjectReply, DELETE_Payload |-> DELETE_Payload,
     SampleInfoDelta |-> SampleInfoDelta, DataRepresentation |-> DataRepresentation,
     CREATE_CLIENT_Payload |-> CREATE_CLIENT_Payload, GET_INFO_Payload |-> GET_INFO_Payload,
     STATUS_AGENT_Payload |-> STATUS_AGENT_Payload, STATUS_Payload |-> STATUS_Payload,
     READ_DATA_Payload |-> READ_DATA_Payload,
     WRITE_DATA_Payload_Data |-> WRITE_DATA_Payload_Data,
     WRITE_DATA_Payload_Sample |-> WRITE_DATA_Payload_Sample,
     WRITE_DATA_Payload_DataSeq |-> WRITE_DATA_Payload_DataSeq,
     WRITE_DATA_Payload_SampleSeq |-> WRITE_DATA_Payload_SampleSeq,
     WRITE_DATA_Payload_PackedSamples |-> WRITE_DATA_Payload_PackedSamples,
     DATA_Payload_Data |-> DATA_Payload_Data, DATA_Payload_Sample |-> DATA_Payload_Sample,
     DATA_Payload_DataSeq |-> DATA_Payload_DataSeq,
     DATA_Payload_SampleSeq |-> DATA_Payload_SampleSeq,
     DATA_Payload_PackedSamples |-> DATA_Payload_PackedSamples,
     ACKNACK_Payload |-> ACKNACK_Payload, HEARTBEAT_Payload |-> HEARTBEAT_Payload,
     TIMESTAMP_Payload |-> TIMESTAMP_Payload,
     TIMESTAMP_REPLY_Payload |-> TIMESTAMP_REPLY_Payload, SampleIdentity |-> SampleIdentity]

VARIABLES cls, v,     \* the class and the value of the object
          at, e,      \* where and in which byte order it is put
          pc,         \* "built", "written", "read" or "copied"
          size,       \* what getCdrSerializedSize returned
          buf,        \* the buffer
          back,       \* what deserialize returned and left in the receiver's object
          copy        \* what a copy of the object holds

codec_vars == <<cls, v, at, e, pc, size, buf, back, copy>>

T == TypeOf[cls]
Nothing == [ok |-> FALSE, v |-> <<>>, at |-> 0]

CodecInit ==
    /\ cls \in DOMAIN TypeOf
    /\ v \in Values(TypeOf[cls], <<>>)
    /\ at \in Offsets
    /\ e \in Ends
    /\ pc = "built"
    /\ size = 0 /\ buf = <<>> /\ back = Nothing /\ copy = <<>>

\* getCdrSerializedSize(at), then serialize into a buffer filled up to at.
Serialize ==
    /\ pc = "built"
    /\ size' = SizeOf(T, v, at)
    /\ buf' = Put(T, v, [i \in 1..at |-> <<<<>>, 0, 0>>], e)
    /\ pc' = "written"
    /\ UNCHANGED <<cls, v, at, e, back, copy>>

\* A receiver's object.  Sample data has no length on the wire: the receiver
\* resizes it from the submessage's length, which it can do for one datum.
RECURSIVE Resized(_, _)
Resized(U, w) ==
    CASE U.k = "raw" -> <<<<"room">>, w[2]>>
      [] U.k = "class" -> [n \in DOMAIN U.mem |-> Resized(U.mem[n], w[n])]
      [] U.k = "union" -> [w EXCEPT !.val = <<Resized(U.mem[U.cases[w.d]], @[1])>>]
      [] OTHER -> Fresh(U)

Deserialize ==
    /\ pc = "written"
    /\ back' = Get(T, Resized(T, v), buf, at, e)
    /\ pc' = "read"
    /\ UNCHANGED <<cls, v, at, e, size, buf, copy>>

CopyConstruct ==
    /\ pc = "read"
    /\ copy' = Copy(T, v)
    /\ pc' = "copied"
    /\ UNCHANGED <<cls, v, at, e, size, buf, back>>

CodecNext == Serialize \/ Deserialize \/ CopyConstruct
CodecSpec == CodecInit /\ [][CodecNext]_codec_vars

-----------------------------------------------------------------------------
(* Properties.                                                              *)

Written == pc # "built"

\* The optional properties of the two ends, and the flags of the binary
\* representations and of the data formats, are miscounted; none of these is
\* measured by the Agent with something in the miscounted place.
Miscounted == {"CLIENT_Representation", "AGENT_Representation", "CREATE_CLIENT_Payload",
               "STATUS_AGENT_Payload", "DataRepresentation",
               "OBJK_DomainParticipant_Binary", "OBJK_Topic_Binary", "OBJK_Publisher_Binary",
               "OBJK_Subscriber_Binary", "OBJK_DataReader_Binary", "OBJK_DataWriter_Binary",
               "OBJK_Requester_Binary", "OBJK_Replier_Binary"}

\* Samples in a sequence carry no length, so no receiver can find their ends.
Undelimited == {"DataRepresentation", "WRITE_DATA_Payload_DataSeq", "DATA_Payload_DataSeq",
                "WRITE_DATA_Payload_SampleSeq", "DATA_Payload_SampleSeq",
                "WRITE_DATA_Payload_PackedSamples", "DATA_Payload_PackedSamples"}

\* "This function returns the serialized size of a data depending on the
\* buffer alignment": at every place of a buffer getCdrSerializedSize returns
\* the number of bytes that serialize appends there, padding included.
SizeIsExact == Written => at + size = Len(buf)

\* The same for every class but the miscounted ones, the padding that differs
\* from place to place included.  SampleIdentity counts two of the three bytes
\* of an entity's key, and only at the start of a buffer, where repliers put
\* it, does the padding before its sequence number make up for the third.
SizeIsExactWhereUsed ==
    cls \notin Miscounted /\ (cls = "SampleIdentity" => at % 4 = 0) => SizeIsExact

\* getMaxCdrSerializedSize "returns the maximum serialized size of an object":
\* no value with short strings and sequences needs more.
MaxIsAnUpperBound == Written => Len(buf) - at <= BoundOf(T, at)

\* The same for every class but those whose properties it leaves out.
MaxIsAnUpperBoundWhereUsed ==
    cls \notin {"CLIENT_Representation", "AGENT_Representation", "CREATE_CLIENT_Payload",
                "STATUS_AGENT_Payload"} => MaxIsAnUpperBound

\* What one end serializes the other reads back, member for member and up to
\* the last byte, in either byte order and at every place: serialize and
\* deserialize agree on the order, the flags and the alignment of the members.
ReadsBackWhatWasWritten ==
    pc = "read" /\ cls \notin Undelimited =>
        back = [ok |-> TRUE, v |-> v, at |-> Len(buf)]

\* "Copy constructor": a copy holds what the object it was copied from holds.
CopyIsFaithful == pc = "copied" => copy = v

\* The same for every class the Agent copies: all but the Agent's answer to
\* CREATE_CLIENT and the properties it would announce.
CopyIsFaithfulWhereUsed ==
    cls \notin {"AGENT_Representation", "STATUS_AGENT_Payload"} => CopyIsFaithful

\* The five functions of every class agree, where the Agent uses them.
CodecInv ==
    /\ SizeIsExactWhereUsed /\ MaxIsAnUpperBoundWhereUsed
    /\ ReadsBackWhatWasWritten /\ CopyIsFaithfulWhereUsed
=============================================================================
