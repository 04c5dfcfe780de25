---------------------------- MODULE XrceMessage ----------------------------
(***************************************************************************)
(* XRCE messages on the wire.  A Client (external) writes a message of one *)
(* or more submessages; the Agent walks it with InputMessage and decodes   *)
(* each payload as Processor does, the binary representation inside a      *)
(* CREATE included.  In the other direction the Agent builds its answers   *)
(* with OutputMessage, in a buffer whose size it has computed beforehand.  *)
(***************************************************************************)
EXTENDS XrceTypes

CONSTANT MaxSubmessages

MessageHeader_members ==
    [session_id |-> U8, stream_id |-> U8, sequence_nr |-> U16, client_key |-> Arr(4)]
\* A session below 128 carries the key of the client.
MessageHeader(session) ==
    Class(MessageHeader_members,
          IF session < 128 THEN <<"session_id", "stream_id", "sequence_nr", "client_key">>
          ELSE <<"session_id", "stream_id", "sequence_nr">>)

SubmessageHeader_members == [submessage_id |-> U8, flags |-> U8, submessage_length |-> U16]
SubmessageHeader ==
    Class(SubmessageHeader_members, <<"submessage_id", "flags", "submessage_length">>)

\* One session with the key in every header, one without.
Sessions == {1, 129}
Header(s) == [session_id |-> Num(s), stream_id |-> <<<<"stream">>, 0>>,
              sequence_nr |-> <<<<"nr">>, 0>>, client_key |-> <<<<"key">>, 4>>]
Subheader(id, e, length) ==
    [submessage_id |-> <<<<id>>, 0>>, flags |-> Num(IF e = "little" THEN 1 ELSE 0),
     submessage_length |-> Num(length % 65536)]

\* The payload of each submessage.
Payload ==
    [CREATE_CLIENT |-> CREATE_CLIENT_Payload,
     CREATE |-> CREATE_Payload, GET_INFO |-> GET_INFO_Payload, DELETE_ID |-> DELETE_Payload,
     STATUS_AGENT |-> STATUS_AGENT_Payload, STATUS |-> STATUS_Payload, INFO |-> INFO_Payload,
     WRITE_DATA |-> WRITE_DATA_Payload_Data, READ_DATA |-> READ_DATA_Payload,
     DATA |-> DATA_Payload_Data, ACKNACK |-> ACKNACK_Payload,
     HEARTBEAT |-> HEARTBEAT_Payload, FRAGMENT |-> SampleData,
     TIMESTAMP |-> TIMESTAMP_Payload, TIMESTAMP_REPLY |-> TIMESTAMP_REPLY_Payload]

ClientSends == {"CREATE_CLIENT", "CREATE", "GET_INFO", "DELETE_ID", "WRITE_DATA", "READ_DATA",
                "ACKNACK", "HEARTBEAT", "FRAGMENT", "TIMESTAMP"}
AgentSends == {"STATUS_AGENT", "STATUS", "INFO", "DATA", "ACKNACK", "HEARTBEAT", "GET_INFO",
               "TIMESTAMP_REPLY"}

\* The class that decodes the binary representation of each kind of object.
BinaryOf ==
    (1 :> OBJK_DomainParticipant_Binary) @@ (2 :> OBJK_Topic_Binary) @@
    (3 :> OBJK_Publisher_Binary) @@ (4 :> OBJK_Subscriber_Binary) @@
    (5 :> OBJK_DataWriter_Binary) @@ (6 :> OBJK_DataReader_Binary) @@
    (7 :> OBJK_Requester_Binary) @@ (8 :> OBJK_Replier_Binary)

\* Whether a CREATE carries a binary representation: its format says so.
IsBinary(id, v) ==
    /\ id = "CREATE"
    /\ v.object_representation.d \in DOMAIN BinaryOf
    /\ v.object_representation.val[1].representation.d = 3

VARIABLES session,    \* the session of the message, 0 before there is one
          wire,       \* its bytes
          sent,       \* the submessages written, each [id, v, e, bin]
          length,     \* the submessage_length the Agent announced, -1 if none
          room,       \* the size of the Agent's buffer, -1 for a client's message
          ping,       \* whether the Agent sizes a ping with another session's header
          in,         \* the reader: open, its place, its byte order, the subheader read
          got         \* the payloads decoded, each [id, v, bin]

message_vars == <<session, wire, sent, length, room, ping, in, got>>

Closed == [open |-> FALSE, at |-> 0, e |-> "little", id |-> "", length |-> 0,
           refused |-> FALSE]

MessageInit ==
    /\ session = 0 /\ wire = <<>> /\ sent = <<>> /\ length = -1 /\ room = -1
    /\ ping = FALSE /\ in = Closed /\ got = <<>>

-----------------------------------------------------------------------------
(* The client.                                                              *)

\* The values tried.  Of the unions only the cases that are sent: the objects
\* a client may create, and the Agent in the Agent's answer to GET_INFO.
Creatable == [ObjectVariant EXCEPT !.cases = [d \in {1, 2, 3, 4, 5, 6, 7, 8, 12} |-> @[d]]]
CreateValues ==
    Values(Derived(BaseObjectRequest, [object_representation |-> Creatable],
                   <<"object_representation">>), <<>>)
PayloadValues ==
    [id \in DOMAIN Payload \ {"INFO"} |->
        IF id = "CREATE" THEN CreateValues ELSE Values(Payload[id], <<>>)]
NoBinary == [k |-> "none"]
BinaryValues == [d \in DOMAIN BinaryOf |-> Values(BinaryOf[d], <<"bin">>)]
Binaries(id, v) ==
    IF IsBinary(id, v) THEN BinaryValues[v.object_representation.d] ELSE {NoBinary}

Framed(b, id, v, e) ==
    LET payload == Put(Payload[id], v, Pad(b, 4) \o Put(SubmessageHeader, Subheader(id, e, 0), <<>>, "little"), e)
        len == Len(payload) - Len(Pad(b, 4)) - 4
        head == Pad(b, 4) \o Put(SubmessageHeader, Subheader(id, e, len), <<>>, "little")
    IN  head \o SubSeq(payload, Len(head) + 1, Len(payload))

ClientBegins(s) ==
    /\ session = 0
    /\ session' = s
    /\ wire' = Put(MessageHeader(s), Header(s), <<>>, "little")
    /\ UNCHANGED <<sent, length, room, ping, in, got>>

\* Further submessages of a message are the short ones.
ClientAppends ==
    /\ session # 0 /\ room = -1 /\ ~in.open /\ in.at = 0
    /\ Len(sent) < MaxSubmessages
    /\ \E id \in IF sent = <<>> THEN ClientSends ELSE {"DELETE_ID", "WRITE_DATA", "ACKNACK"},
          e \in Ends :
          \E v \in PayloadValues[id] : \E bin \in Binaries(id, v) :
             /\ wire' = Framed(wire, id, v, e)
             /\ sent' = Append(sent, [id |-> id, v |-> v, e |-> e, bin |-> bin])
    /\ UNCHANGED <<session, length, room, ping, in, got>>

-----------------------------------------------------------------------------
(* The Agent's OutputMessage.                                               *)

\* The Agent announces no properties, and INFO describes the Agent itself.
AgentInfo ==
    Class([config |-> [ObjectVariant EXCEPT !.cases = (13 :> "agent")],
           activity |-> [ActivityInfoVariant EXCEPT !.cases = (13 :> "agent")]],
          <<"config", "activity">>)
AgentValues(id) ==
    CASE id = "STATUS_AGENT" -> {v \in PayloadValues[id] : v.agent_info.properties = <<>>}
      [] id = "INFO" ->
            {[related_request |-> r.related_request, result |-> r.result,
              object_info |-> [config |-> <<i.config>>, activity |-> <<i.activity>>]] :
                r \in Values(BaseObjectReply, <<>>),
                i \in {j \in Values(AgentInfo, <<>>) : j.config.val[1].properties = <<>>}}
      [] OTHER -> PayloadValues[id]

HeaderSize(s) == SizeOf(MessageHeader(s), Header(s), 0)

\* The constructor writes the header, append_subheader pads and announces
\* getCdrSerializedSize(), and what does not fit is not written.
OutputMessage(s, id, v, len) ==
    LET size == SizeOf(Payload[id], v, 0)
        head == Put(MessageHeader(s), Header(s), <<>>, "little")
        sub == Pad(head, 4) \o Put(SubmessageHeader, Subheader(id, "little", size), <<>>, "little")
        full == Put(Payload[id], v, sub, "little")
    IN  SubSeq(full, 1, Min({len, Len(full)}))

Send(s, id, v, len) ==
    /\ session' = s /\ room' = len
    /\ wire' = OutputMessage(s, id, v, len)
    /\ length' = SizeOf(Payload[id], v, 0)
    /\ sent' = <<[id |-> id, v |-> v, e |-> "little", bin |-> NoBinary]>>

AgentAnswers ==
    /\ session = 0
    /\ \E s \in Sessions, id \in AgentSends : \E v \in AgentValues(id) :
          Send(s, id, v, HeaderSize(s) + 4 + SizeOf(Payload[id], v, 0))
    /\ UNCHANGED <<ping, in, got>>

\* check_heartbeats sizes the ping of a silent client before it puts the
\* client's session in the header: the header is still the previous client's.
AgentPings ==
    /\ session = 0
    /\ \E s, previous \in Sessions : \E v \in AgentValues("GET_INFO") :
          /\ Send(s, "GET_INFO", v, HeaderSize(previous) + 4 + SizeOf(GET_INFO_Payload, v, 0))
          /\ ping' = (HeaderSize(previous) < HeaderSize(s))
    /\ UNCHANGED <<in, got>>

-----------------------------------------------------------------------------
(* InputMessage.                                                            *)

GetHeader ==
    LET s == Get(U8, Default, wire, 0, "little").v[2]
    IN  Get(MessageHeader(s), Fresh(MessageHeader(s)), wire, 0, "little")

GetSubheader(at) ==
    Get(SubmessageHeader, Fresh(SubmessageHeader), wire, at + Padding(at, 4), "little")

\* The constructor: a message is valid with a header and a submessage.
Receive ==
    /\ session # 0 /\ sent # <<>> /\ ~in.open /\ got = <<>> /\ in.at = 0
    /\ GetHeader.ok /\ GetSubheader(GetHeader.at).ok
    /\ in' = [Closed EXCEPT !.open = TRUE, !.at = GetHeader.at]
    /\ UNCHANGED <<session, wire, sent, length, room, ping, got>>

\* prepare_next_submessage: the next subheader starts where the last payload
\* ended, and its flag sets the byte order of the payload.
PrepareNextSubmessage ==
    LET h == GetSubheader(in.at)
    IN  /\ in.open /\ in.id = ""
        /\ in' = IF Len(wire) > in.at + Padding(in.at, 4) /\ h.ok
                 THEN [in EXCEPT !.at = h.at, !.id = h.v.submessage_id[1][1],
                                 !.e = IF h.v.flags[2] = 1 THEN "little" ELSE "big",
                                 !.length = h.v.submessage_length[2]]
                 ELSE [in EXCEPT !.open = FALSE]
        /\ UNCHANGED <<session, wire, sent, length, room, ping, got>>

\* The object a payload is decoded into: WRITE_DATA and DATA take what the
\* length leaves after the request, a FRAGMENT all of it.
Receiver(id) ==
    CASE id \in {"WRITE_DATA", "DATA"} ->
            [Fresh(Payload[id]) EXCEPT !.data.serialized_data = <<<<>>, in.length - 4>>]
      [] id = "FRAGMENT" -> [serialized_data |-> <<<<>>, in.length>>]
      [] OTHER -> Fresh(Payload[id])

\* What create_object makes of a binary representation: it decodes a buffer
\* of its own, in the byte order noted in the representation.
DecodeBinary(v, bytes) ==
    LET B == BinaryOf[v.object_representation.d]
        e == v.object_representation.val[1].endianness
    IN  Get(B, Fresh(B), bytes, 0, IF e = Num(1) THEN "little" ELSE "big").v

\* CREATE notes the byte order of its submessage in the representation.
SetEndianness(v) ==
    [v EXCEPT !.object_representation.val[1].endianness =
                  Num(IF in.e = "little" THEN 1 ELSE 0)]

\* Mutant: the walk stops after a payload.
GetPayload_once ==
    LET r == Get(Payload[in.id], Receiver(in.id), wire, in.at, in.e)
    IN  /\ in.open /\ in.id # ""
        /\ got' = IF r.ok THEN Append(got, [id |-> in.id, v |-> r.v, bin |-> sent[1].bin]) ELSE got
        /\ in' = [in EXCEPT !.id = "", !.at = r.at, !.open = FALSE]
        /\ UNCHANGED <<session, wire, sent, length, room, ping>>

\* process_submessage: decode the payload.  CREATE and GET_INFO go on to the
\* next submessage whatever happens, the others stop at one they cannot read,
\* and WRITE_DATA at one that no object of the client takes or can write.
GetPayload ==
    LET i == Len(got) + 1
        r == Get(Payload[in.id], Receiver(in.id), wire, in.at, in.e)
        bin == IF r.ok /\ IsBinary(in.id, r.v)
               THEN DecodeBinary(SetEndianness(r.v), Put(BinaryOf[r.v.object_representation.d],
                                                    sent[i].bin, <<>>, sent[i].e))
               ELSE NoBinary
    IN  /\ in.open /\ in.id # ""
        /\ got' = IF r.ok THEN Append(got, [id |-> in.id, v |-> r.v, bin |-> bin]) ELSE got
        /\ \E written \in IF in.id = "WRITE_DATA" THEN BOOLEAN ELSE {TRUE} :
              in' = [in EXCEPT !.id = "", !.at = r.at, !.refused = ~written,
                               !.open = (r.ok /\ written) \/ in.id \in {"CREATE", "GET_INFO"}]
        /\ UNCHANGED <<session, wire, sent, length, room, ping>>

MessageNext ==
    \/ \E s \in Sessions : ClientBegins(s)
    \/ ClientAppends
    \/ AgentAnswers
    \/ AgentPings
    \/ Receive
    \/ PrepareNextSubmessage
    \/ GetPayload

MessageSpec == MessageInit /\ [][MessageNext]_message_vars

-----------------------------------------------------------------------------
(* Properties.                                                              *)

\* Payload after payload, the Agent decodes what the client wrote, wherever
\* in the message the submessage lies and whatever the byte orders of the
\* submessages before it.
DecodesWhatWasSent ==
    \A i \in DOMAIN got : got[i].id = sent[i].id /\ got[i].v = sent[i].v

\* The binary representation in a CREATE is read in the byte order of the
\* CREATE that carried it, member by member as the client meant it.
BinaryIsReadInItsByteOrder == \A i \in DOMAIN got : got[i].bin = sent[i].bin

\* The walk ends with every submessage of the message decoded: the subheader
\* after a payload is found although its place is nowhere announced and the
\* announced length is not used.  Only a ping that was cut short is lost, and
\* what follows a WRITE_DATA that could not be written.
WalkReachesTheEnd ==
    ~in.open /\ in.at > 0 /\ ~ping /\ ~in.refused => Len(got) = Len(sent)

\* Every answer of the Agent fits the buffer it allocated and fills it, and the
\* length in its submessage header is the length of the payload; a ping is cut
\* short only after a client without a key in its header.
AnswersFillTheirBuffer ==
    room # -1 /\ ~ping =>
        /\ Len(wire) - HeaderSize(session) - 4 = length
        /\ Len(wire) <= room
        /\ Len(sent) = Len(got) => in.at = Len(wire)

\* The Agent decodes what a client wrote, up to its end, and its own answers
\* fill the buffers that were sized for them.
MessageInv ==
    /\ DecodesWhatWasSent /\ BinaryIsReadInItsByteOrder
    /\ WalkReachesTheEnd /\ AnswersFillTheirBuffer
=============================================================================
