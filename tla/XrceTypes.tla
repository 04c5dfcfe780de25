----------------------------- MODULE XrceTypes -----------------------------
(***************************************************************************)
(* The types of the DDS-XRCE protocol, class by class (XRCETypes.hpp and   *)
(* XRCETypes.cpp).  X_members are the data members of the class X; X gives *)
(* the order in which serialize and deserialize take them and, with        *)
(* EXCEPT, where another function of the class departs from that order:    *)
(* counted for getCdrSerializedSize, bounded for getMaxCdrSerializedSize,  *)
(* uncopied for what the copy constructor and assignment leave behind.     *)
(* A union U has its discriminator when constructed (U_new), the member    *)
(* each discriminator selects (U_cases) and its sizes and encoding (U).    *)
(***************************************************************************)
EXTENDS Cdr

Time_t_members == [seconds |-> U32, nanoseconds |-> U32]
Time_t == Class(Time_t_members, <<"seconds", "nanoseconds">>)

TransportAddressSmall_members == [address |-> Arr(2), port |-> U8]
TransportAddressSmall ==
    Class(TransportAddressSmall_members, <<"address", "port">>)

TransportAddressMedium_members == [address |-> Arr(4), port |-> U16]
TransportAddressMedium ==
    Class(TransportAddressMedium_members, <<"address", "port">>)

TransportAddressLarge_members == [address |-> Arr(16), port |-> U32]
TransportAddressLarge ==
    Class(TransportAddressLarge_members, <<"address", "port">>)

TransportAddressString_members == [value |-> Str]
TransportAddressString == Class(TransportAddressString_members, <<"value">>)

TransportAddress_members ==
    [small_locator |-> TransportAddressSmall,
     medium_locator |-> TransportAddressMedium,
     large_locator |-> TransportAddressLarge,
     string_locator |-> TransportAddressString]
TransportAddress_new == [d |-> 0]
TransportAddress_cases ==
    (0 :> "small_locator") @@ (1 :> "medium_locator") @@ (2 :> "large_locator") @@
    (3 :> "string_locator")
TransportAddress ==
    Union(TransportAddress_new,
          TransportAddress_members,
          TransportAddress_cases)

Property_members == [name |-> Str, value |-> Str]
Property == Class(Property_members, <<"name", "value">>)

CLIENT_Representation_members ==
    [xrce_cookie |-> Arr(4), xrce_version |-> Arr(2), xrce_vendor_id |-> Arr(2),
     client_key |-> Arr(4), session_id |-> U8, properties |-> Opt(Vec(Property)),
     mtu |-> U16]

CLIENT_Representation ==
    [Class(CLIENT_Representation_members,
           <<"xrce_cookie", "xrce_version", "xrce_vendor_id", "client_key",
             "session_id", "properties", "mtu">>)
        EXCEPT !.counted = <<<<Arr(4), "xrce_cookie">>, <<Arr(2), "xrce_version">>,
                             <<Arr(2), "xrce_vendor_id">>, <<Arr(4), "client_key">>,
                             <<U8, "session_id">>,
                             <<Unprefixed(Property), "properties">>,
                             <<Arr(2), "mtu">>>>,
               !.bounded = <<Arr(4), Arr(2), Arr(2), Arr(4), U8, U8, Arr(2)>>]

AGENT_Representation_members ==
    [xrce_cookie |-> Arr(4), xrce_version |-> Arr(2), xrce_vendor_id |-> Arr(2),
     properties |-> Opt(Vec(Property))]
AGENT_Representation ==
    [Class(AGENT_Representation_members,
           <<"xrce_cookie", "xrce_version", "xrce_vendor_id", "properties">>)
        EXCEPT !.uncopied = @ \cup {"properties"},
               !.counted = <<<<Arr(4), "xrce_cookie">>, <<Arr(2), "xrce_version">>,
                             <<Arr(2), "xrce_vendor_id">>,
                             <<Unprefixed(Property), "properties">>>>,
               !.bounded = <<Arr(4), Arr(2), Arr(2), U8>>]

OBJK_Representation3Formats_members ==
    [object_reference |-> StrMax(128), xml_string_representation |-> Str,
     binary_representation |-> Octets]
OBJK_Representation3Formats_new == [d |-> 1]
OBJK_Representation3Formats_cases ==
    (1 :> "object_reference") @@ (2 :> "xml_string_representation") @@
    (3 :> "binary_representation")
OBJK_Representation3Formats ==
    Union(OBJK_Representation3Formats_new,
          OBJK_Representation3Formats_members,
          OBJK_Representation3Formats_cases)

OBJK_RepresentationRefAndXMLFormats_members ==
    [object_reference |-> StrMax(128), string_representation |-> Str]
OBJK_RepresentationRefAndXMLFormats_new == [d |-> 1]
OBJK_RepresentationRefAndXMLFormats_cases ==
    (1 :> "object_reference") @@ (2 :> "string_representation")
OBJK_RepresentationRefAndXMLFormats ==
    Union(OBJK_RepresentationRefAndXMLFormats_new,
          OBJK_RepresentationRefAndXMLFormats_members,
          OBJK_RepresentationRefAndXMLFormats_cases)

OBJK_RepresentationBinAndXMLFormats_members ==
    [binary_representation |-> Octets, string_representation |-> Str]
OBJK_RepresentationBinAndXMLFormats_new == [d |-> 3]
OBJK_RepresentationBinAndXMLFormats_cases ==
    (3 :> "binary_representation") @@ (2 :> "string_representation")
OBJK_RepresentationBinAndXMLFormats ==
    Union(OBJK_RepresentationBinAndXMLFormats_new,
          OBJK_RepresentationBinAndXMLFormats_members,
          OBJK_RepresentationBinAndXMLFormats_cases)

OBJK_RepresentationRefAndXML_Base_members ==
    [representation |-> OBJK_RepresentationRefAndXMLFormats]
OBJK_RepresentationRefAndXML_Base ==
    Class(OBJK_RepresentationRefAndXML_Base_members, <<"representation">>)

OBJK_RepresentationBinAndXML_Base_members ==
    [representation |-> OBJK_RepresentationBinAndXMLFormats, endianness |-> U8]
OBJK_RepresentationBinAndXML_Base ==
    [Class(OBJK_RepresentationBinAndXML_Base_members, <<"representation">>)
        EXCEPT !.uncopied = @ \cup {"endianness"}]

OBJK_Representation3_Base_members ==
    [representation |-> OBJK_Representation3Formats, endianness |-> U8]
OBJK_Representation3_Base ==
    [Class(OBJK_Representation3_Base_members, <<"representation">>)
        EXCEPT !.uncopied = @ \cup {"endianness"}]

OBJK_QOSPROFILE_Representation == OBJK_RepresentationRefAndXML_Base

OBJK_TYPE_Representation == OBJK_RepresentationRefAndXML_Base

OBJK_DOMAIN_Representation == OBJK_RepresentationRefAndXML_Base

OBJK_APPLICATION_Representation == OBJK_RepresentationRefAndXML_Base

OBJK_PARTICIPANT_Representation_members == [domain_id |-> U16]
OBJK_PARTICIPANT_Representation ==
    Derived(OBJK_Representation3_Base, OBJK_PARTICIPANT_Representation_members,
            <<"domain_id">>)

OBJK_TOPIC_Representation_members == [participant_id |-> Arr(2)]
OBJK_TOPIC_Representation ==
    Derived(OBJK_Representation3_Base, OBJK_TOPIC_Representation_members,
            <<"participant_id">>)

OBJK_PUBLISHER_Representation_members == [participant_id |-> Arr(2)]
OBJK_PUBLISHER_Representation ==
    Derived(OBJK_RepresentationBinAndXML_Base, OBJK_PUBLISHER_Representation_members,
            <<"participant_id">>)

OBJK_SUBSCRIBER_Representation_members == [participant_id |-> Arr(2)]
OBJK_SUBSCRIBER_Representation ==
    Derived(OBJK_RepresentationBinAndXML_Base, OBJK_SUBSCRIBER_Representation_members,
            <<"participant_id">>)

DATAWRITER_Representation_members == [publisher_id |-> Arr(2)]
DATAWRITER_Representation ==
    [Derived(OBJK_Representation3_Base, DATAWRITER_Representation_members,
             <<"publisher_id">>)
        EXCEPT !.bounded = <<OBJK_RepresentationBinAndXML_Base, Arr(2)>>]

DATAREADER_Representation_members == [subscriber_id |-> Arr(2)]
DATAREADER_Representation ==
    [Derived(OBJK_Representation3_Base, DATAREADER_Representation_members,
             <<"subscriber_id">>)
        EXCEPT !.bounded = <<OBJK_RepresentationBinAndXML_Base, Arr(2)>>]

REQUESTER_Representation_members == [participant_id |-> Arr(2)]
REQUESTER_Representation ==
    [Derived(OBJK_Representation3_Base, REQUESTER_Representation_members,
             <<"participant_id">>)
        EXCEPT !.bounded = <<OBJK_RepresentationBinAndXML_Base, Arr(2)>>]

REPLIER_Representation_members == [participant_id |-> Arr(2)]
REPLIER_Representation ==
    [Derived(OBJK_Representation3_Base, REPLIER_Representation_members,
             <<"participant_id">>)
        EXCEPT !.bounded = <<OBJK_RepresentationBinAndXML_Base, Arr(2)>>]

OBJK_DomainParticipant_Binary_members ==
    [domain_id |-> U32, domain_reference |-> Opt(Str), qos_profile |-> Opt(Str)]
OBJK_DomainParticipant_Binary ==
    [Class(OBJK_DomainParticipant_Binary_members,
           <<"domain_reference", "qos_profile">>)
        EXCEPT !.counted = <<<<Deref(Str), "domain_reference">>,
                             <<Deref(Str), "qos_profile">>>>,
               !.bounded = <<StrMax(128), StrMax(128)>>]

OBJK_Topic_Binary_members ==
    [topic_name |-> Str, type_name |-> Opt(Str), type_identifier |-> Opt(Str)]

OBJK_Topic_Binary ==
    [Class(OBJK_Topic_Binary_members,
           <<"topic_name", "type_identifier", "type_name">>)
        EXCEPT !.counted = <<<<Str, "topic_name">>, <<Deref(Str), "type_name">>,
                             <<Deref(Str), "type_identifier">>>>,
               !.bounded = <<StrMax(256), StrMax(256), Str>>]

OBJK_PUBLISHER_QosBinary_members == [partitions |-> Vec(Str), group_data |-> Vec(Str)]
OBJK_PUBLISHER_QosBinary ==
    Class(OBJK_PUBLISHER_QosBinary_members, <<"partitions", "group_data">>)

OBJK_Publisher_Binary_members ==
    [publisher_name |-> Opt(Str), qos |-> Opt(OBJK_PUBLISHER_QosBinary)]
OBJK_Publisher_Binary ==
    [Class(OBJK_Publisher_Binary_members, <<"publisher_name", "qos">>)
        EXCEPT !.counted = <<<<Deref(Str), "publisher_name">>,
                             <<Deref(OBJK_PUBLISHER_QosBinary), "qos">>>>,
               !.bounded = <<Str, OBJK_PUBLISHER_QosBinary>>]

OBJK_SUBSCRIBER_QosBinary_members == [partitions |-> Vec(Str), group_data |-> Octets]
OBJK_SUBSCRIBER_QosBinary ==
    Class(OBJK_SUBSCRIBER_QosBinary_members, <<"partitions", "group_data">>)

OBJK_Subscriber_Binary_members ==
    [subscriber_name |-> Opt(Str), qos |-> Opt(OBJK_SUBSCRIBER_QosBinary)]
OBJK_Subscriber_Binary ==
    [Class(OBJK_Subscriber_Binary_members, <<"subscriber_name", "qos">>)
        EXCEPT !.counted = <<<<Deref(Str), "subscriber_name">>,
                             <<FromZero(Deref(OBJK_SUBSCRIBER_QosBinary)), "qos">>>>,
               !.bounded = <<Str, OBJK_SUBSCRIBER_QosBinary>>]

OBJK_Endpoint_QosBinary_members ==
    [qos_flags |-> U16, history_depth |-> Opt(U16), deadline_msec |-> Opt(U32),
     lifespan_msec |-> Opt(U32), user_data |-> Opt(Octets)]
OBJK_Endpoint_QosBinary ==
    [Class(OBJK_Endpoint_QosBinary_members,
           <<"qos_flags", "history_depth", "deadline_msec", "lifespan_msec",
             "user_data">>)
        EXCEPT !.counted = <<<<U16, "qos_flags">>, <<Deref(U16), "history_depth">>,
                             <<Deref(U32), "deadline_msec">>,
                             <<Deref(U32), "lifespan_msec">>,
                             <<Deref(Octets), "user_data">>>>,
               !.bounded = <<U16, U16, U32, U32, Octets>>]

OBJK_DataReader_Binary_Qos_members ==
    [base |-> OBJK_Endpoint_QosBinary, timebasedfilter_msec |-> Opt(U32),
     contentbased_filter |-> Opt(Str)]
OBJK_DataReader_Binary_Qos ==
    [Class(OBJK_DataReader_Binary_Qos_members,
           <<"base", "timebasedfilter_msec", "contentbased_filter">>)
        EXCEPT !.counted = <<<<Deref(U32), "timebasedfilter_msec">>,
                             <<Deref(Str), "contentbased_filter">>>>,
               !.bounded = <<OBJK_Endpoint_QosBinary, U32, Str>>]

OBJK_DataReader_Binary_members ==
    [topic_id |-> Arr(2), qos |-> Opt(OBJK_DataReader_Binary_Qos)]
OBJK_DataReader_Binary ==
    [Class(OBJK_DataReader_Binary_members, <<"topic_id", "qos">>)
        EXCEPT !.counted = <<<<Str, "topic_id">>,
                             <<Deref(OBJK_DataReader_Binary_Qos), "qos">>>>,
               !.bounded = <<Str, OBJK_DataReader_Binary_Qos>>]

OBJK_DataWriter_Binary_Qos_members ==
    [base |-> OBJK_Endpoint_QosBinary, ownership_strength |-> Opt(U32)]
OBJK_DataWriter_Binary_Qos ==
    [Class(OBJK_DataWriter_Binary_Qos_members, <<"base", "ownership_strength">>)
        EXCEPT !.counted = <<<<Deref(U32), "ownership_strength">>>>,
               !.bounded = <<OBJK_Endpoint_QosBinary, U32>>]

OBJK_DataWriter_Binary_members ==
    [topic_id |-> Arr(2), qos |-> Opt(OBJK_DataWriter_Binary_Qos)]
OBJK_DataWriter_Binary ==
    [Class(OBJK_DataWriter_Binary_members, <<"topic_id", "qos">>)
        EXCEPT !.counted = <<<<Str, "topic_id">>>>,
               !.bounded = <<Str, OBJK_DataWriter_Binary_Qos>>]

ObjectVariant_members ==
    [agent |-> AGENT_Representation, client |-> CLIENT_Representation,
     application |-> OBJK_APPLICATION_Representation,
     participant |-> OBJK_PARTICIPANT_Representation,
     qos_profile |-> OBJK_QOSPROFILE_Representation,
     type |-> OBJK_TYPE_Representation, topic |-> OBJK_TOPIC_Representation,
     publisher |-> OBJK_PUBLISHER_Representation,
     subscriber |-> OBJK_SUBSCRIBER_Representation,
     data_writer |-> DATAWRITER_Representation,
     data_reader |-> DATAREADER_Representation,
     requester |-> REQUESTER_Representation, replier |-> REPLIER_Representation]
ObjectVariant_new == [d |-> 13]
ObjectVariant_cases ==
    (13 :> "agent") @@ (14 :> "client") @@ (12 :> "application") @@ (1 :> "participant") @@
    (11 :> "qos_profile") @@ (10 :> "type") @@ (2 :> "topic") @@ (3 :> "publisher") @@
    (4 :> "subscriber") @@ (5 :> "data_writer") @@ (6 :> "data_reader") @@
    (7 :> "requester") @@ (8 :> "replier")
ObjectVariant ==
    [Union(ObjectVariant_new, ObjectVariant_members, ObjectVariant_cases)
        EXCEPT !.maxima = (@ \ {<<"replier">>}) \cup {<<"requester", "replier">>}]

CreationMode_members == [reuse |-> U8, replace |-> U8]
CreationMode == Class(CreationMode_members, <<"reuse", "replace">>)

ResultStatus_members == [status |-> U8, implementation_status |-> U8]
ResultStatus == Class(ResultStatus_members, <<"status", "implementation_status">>)

AGENT_ActivityInfo_members ==
    [availability |-> U16, address_seq |-> Vec(TransportAddress)]
AGENT_ActivityInfo ==
    Class(AGENT_ActivityInfo_members, <<"availability", "address_seq">>)

DATAREADER_ActivityInfo_members == [highest_acked_num |-> U16]
DATAREADER_ActivityInfo ==
    Class(DATAREADER_ActivityInfo_members, <<"highest_acked_num">>)

DATAWRITER_ActivityInfo_members == [stream_seq_num |-> U16, sample_seq_num |-> U64]
DATAWRITER_ActivityInfo ==
    Class(DATAWRITER_ActivityInfo_members, <<"stream_seq_num", "sample_seq_num">>)

ActivityInfoVariant_members ==
    [agent |-> AGENT_ActivityInfo, data_writer |-> DATAWRITER_ActivityInfo,
     data_reader |-> DATAREADER_ActivityInfo]
ActivityInfoVariant_new == [d |-> 5]
ActivityInfoVariant_cases ==
    (13 :> "agent") @@ (5 :> "data_writer") @@ (6 :> "data_reader")
ActivityInfoVariant ==
    Union(ActivityInfoVariant_new,
          ActivityInfoVariant_members,
          ActivityInfoVariant_cases)

ObjectInfo_members ==
    [config |-> Opt(ObjectVariant), activity |-> Opt(ActivityInfoVariant)]
ObjectInfo == Class(ObjectInfo_members, <<"config", "activity">>)

BaseObjectRequest_members == [request_id |-> Arr(2), object_id |-> Arr(2)]

BaseObjectRequest ==
    Class(BaseObjectRequest_members, <<"request_id", "object_id">>)

BaseObjectReply_members ==
    [related_request |-> BaseObjectRequest, result |-> ResultStatus]
BaseObjectReply == Class(BaseObjectReply_members, <<"related_request", "result">>)

DataDeliveryControl_members ==
    [max_samples |-> U16, max_elapsed_time |-> U16, max_bytes_per_second |-> U16,
     min_pace_period |-> U16]
DataDeliveryControl ==
    Class(DataDeliveryControl_members,
          <<"max_samples", "max_elapsed_time", "max_bytes_per_second",
            "min_pace_period">>)

ReadSpecification_members ==
    [preferred_stream_id |-> U8, data_format |-> U8,
     content_filter_expression |-> Opt(Str),
     delivery_control |-> Opt(DataDeliveryControl)]
ReadSpecification ==
    [Class(ReadSpecification_members,
           <<"preferred_stream_id", "data_format", "content_filter_expression",
             "delivery_control">>)
        EXCEPT !.bounded = <<U8, U8, Str, DataDeliveryControl>>]

SampleInfo_members ==
    [state |-> U8, sequence_number |-> U32, session_time_offset |-> U32]
SampleInfo ==
    Class(SampleInfo_members, <<"state", "sequence_number", "session_time_offset">>)

SampleInfoDelta_members ==
    [state |-> U8, seq_number_delta |-> U8, timestamp_delta |-> U16]
SampleInfoDelta ==
    Class(SampleInfoDelta_members, <<"state", "seq_number_delta", "timestamp_delta">>)

SampleData_members == [serialized_data |-> RawOctets]
SampleData == Class(SampleData_members, <<"serialized_data">>)

Sample_members == [info |-> SampleInfo, data |-> SampleData]
Sample == Class(Sample_members, <<"info", "data">>)

SampleDelta_members == [info_delta |-> SampleInfoDelta, data |-> SampleData]
SampleDelta == Class(SampleDelta_members, <<"info_delta", "data">>)

PackedSamples_members ==
    [info_base |-> SampleInfo, sample_delta_seq |-> Vec(SampleDelta)]
PackedSamples == Class(PackedSamples_members, <<"info_base", "sample_delta_seq">>)

DataRepresentation_members ==
    [data |-> SampleData, sample |-> Sample, data_seq |-> Vec(SampleData),
     sample_seq |-> Vec(Sample), packed_samples |-> PackedSamples]
DataRepresentation_new == [d |-> 0]
DataRepresentation_cases ==
    (0 :> "data") @@ (2 :> "sample") @@ (8 :> "data_seq") @@ (10 :> "sample_seq") @@
    (14 :> "packed_samples")
DataRepresentation ==
    [Union(DataRepresentation_new,
           DataRepresentation_members,
           DataRepresentation_cases)
        EXCEPT !.counted.data = Ignored(SampleData),
               !.counted.sample = Ignored(Sample)]

CREATE_CLIENT_Payload_members == [client_representation |-> CLIENT_Representation]
CREATE_CLIENT_Payload ==
    Class(CREATE_CLIENT_Payload_members, <<"client_representation">>)

CREATE_Payload_members == [object_representation |-> ObjectVariant]
CREATE_Payload ==
    Derived(BaseObjectRequest, CREATE_Payload_members, <<"object_representation">>)

GET_INFO_Payload_members == [info_mask |-> U32]
GET_INFO_Payload ==
    Derived(BaseObjectRequest, GET_INFO_Payload_members, <<"info_mask">>)

DELETE_Payload == BaseObjectRequest

STATUS_AGENT_Payload_members ==
    [result |-> ResultStatus, agent_info |-> AGENT_Representation]
STATUS_AGENT_Payload ==
    [Class(STATUS_AGENT_Payload_members, <<"result", "agent_info">>)
        EXCEPT !.uncopied = @ \cup {"result"}]

STATUS_Payload == BaseObjectReply

INFO_Payload_members == [object_info |-> ObjectInfo]
INFO_Payload == Derived(BaseObjectReply, INFO_Payload_members, <<"object_info">>)

READ_DATA_Payload_members == [read_specification |-> ReadSpecification]
READ_DATA_Payload ==
    Derived(BaseObjectRequest, READ_DATA_Payload_members, <<"read_specification">>)

WRITE_DATA_Payload_Data_members == [data |-> SampleData]
WRITE_DATA_Payload_Data ==
    Derived(BaseObjectRequest, WRITE_DATA_Payload_Data_members, <<"data">>)

WRITE_DATA_Payload_Sample_members == [sample |-> Sample]
WRITE_DATA_Payload_Sample ==
    Derived(BaseObjectRequest, WRITE_DATA_Payload_Sample_members, <<"sample">>)

WRITE_DATA_Payload_DataSeq_members == [data_seq |-> Vec(SampleData)]
WRITE_DATA_Payload_DataSeq ==
    Derived(BaseObjectRequest, WRITE_DATA_Payload_DataSeq_members, <<"data_seq">>)

WRITE_DATA_Payload_SampleSeq_members == [sample_seq |-> Vec(Sample)]
WRITE_DATA_Payload_SampleSeq ==
    Derived(BaseObjectRequest, WRITE_DATA_Payload_SampleSeq_members, <<"sample_seq">>)

WRITE_DATA_Payload_PackedSamples_members == [packed_samples |-> PackedSamples]
WRITE_DATA_Payload_PackedSamples ==
    Derived(BaseObjectRequest, WRITE_DATA_Payload_PackedSamples_members,
            <<"packed_samples">>)

DATA_Payload_Data_members == [data |-> SampleData]
DATA_Payload_Data ==
    Derived(BaseObjectRequest, DATA_Payload_Data_members, <<"data">>)

DATA_Payload_Sample_members == [sample |-> Sample]
DATA_Payload_Sample ==
    Derived(BaseObjectRequest, DATA_Payload_Sample_members, <<"sample">>)

DATA_Payload_DataSeq_members == [data_seq |-> Vec(SampleData)]
DATA_Payload_DataSeq ==
    Derived(BaseObjectRequest, DATA_Payload_DataSeq_members, <<"data_seq">>)

DATA_Payload_SampleSeq_members == [sample_seq |-> Vec(Sample)]
DATA_Payload_SampleSeq ==
    Derived(BaseObjectRequest, DATA_Payload_SampleSeq_members, <<"sample_seq">>)

DATA_Payload_PackedSamples_members == [packed_samples |-> PackedSamples]
DATA_Payload_PackedSamples ==
    Derived(BaseObjectRequest, DATA_Payload_PackedSamples_members,
            <<"packed_samples">>)

ACKNACK_Payload_members ==
    [first_unacked_seq_num |-> U16, nack_bitmap |-> Arr(2), stream_id |-> U8]
ACKNACK_Payload ==
    Class(ACKNACK_Payload_members,
          <<"first_unacked_seq_num", "nack_bitmap", "stream_id">>)

HEARTBEAT_Payload_members ==
    [first_unacked_seq_nr |-> U16, last_unacked_seq_nr |-> U16, stream_id |-> U8]

\* Mutant: the stream is not counted.
HEARTBEAT_Payload_short ==
    [Class(HEARTBEAT_Payload_members,
           <<"first_unacked_seq_nr", "last_unacked_seq_nr", "stream_id">>)
        EXCEPT !.counted = <<<<U16, "first_unacked_seq_nr">>, <<U16, "last_unacked_seq_nr">>>>]

HEARTBEAT_Payload ==
    Class(HEARTBEAT_Payload_members,
          <<"first_unacked_seq_nr", "last_unacked_seq_nr", "stream_id">>)

TIMESTAMP_Payload_members == [transmit_timestamp |-> Time_t]
TIMESTAMP_Payload == Class(TIMESTAMP_Payload_members, <<"transmit_timestamp">>)

TIMESTAMP_REPLY_Payload_members ==
    [transmit_timestamp |-> Time_t, receive_timestamp |-> Time_t,
     originate_timestamp |-> Time_t]
TIMESTAMP_REPLY_Payload ==
    Class(TIMESTAMP_REPLY_Payload_members,
          <<"transmit_timestamp", "receive_timestamp", "originate_timestamp">>)

EntityId_t_members == [entityKey |-> Arr(3), entityKind |-> U8]
EntityId_t ==
    [Class(EntityId_t_members, <<"entityKey", "entityKind">>)
        EXCEPT !.counted = <<<<Arr(2), "entityKey">>, <<U8, "entityKind">>>>,
               !.bounded = <<Arr(2), U8>>]

GUID_t_members == [guidPrefix |-> Arr(12), entityId |-> EntityId_t]
GUID_t == Class(GUID_t_members, <<"guidPrefix", "entityId">>)

SequenceNumber_t_members == [high |-> U32, low |-> U32]
SequenceNumber_t == Class(SequenceNumber_t_members, <<"high", "low">>)

SampleIdentity_members ==
    [writer_guid |-> GUID_t, sequence_number |-> SequenceNumber_t]
SampleIdentity ==
    [Class(SampleIdentity_members, <<"writer_guid", "sequence_number">>)
        EXCEPT !.bounded = <<GUID_t, GUID_t>>]

OBJK_Requester_Binary_members ==
    [service_name |-> Str, request_type |-> Str, reply_type |-> Str,
     reply_topic_name |-> Opt(Str), request_topic_name |-> Opt(Str)]
OBJK_Requester_Binary ==
    [Class(OBJK_Requester_Binary_members,
           <<"service_name", "request_type", "reply_type", "request_topic_name",
             "reply_topic_name">>)
        EXCEPT !.counted = <<<<Str, "service_name">>, <<Str, "request_type">>,
                             <<Str, "reply_type">>,
                             <<Deref(Str), "reply_topic_name">>,
                             <<Deref(Str), "request_topic_name">>>>,
               !.bounded = <<Str, Str, Str, Str, Str, Str>>]

OBJK_Replier_Binary_members ==
    [service_name |-> Str, request_type |-> Str, reply_type |-> Str,
     reply_topic_name |-> Opt(Str), request_topic_name |-> Opt(Str)]
OBJK_Replier_Binary ==
    [Class(OBJK_Replier_Binary_members,
           <<"service_name", "request_type", "reply_type", "request_topic_name",
             "reply_topic_name">>)
        EXCEPT !.counted = <<<<Str, "service_name">>, <<Str, "request_type">>,
                             <<Str, "reply_type">>,
                             <<Deref(Str), "reply_topic_name">>,
                             <<Deref(Str), "request_topic_name">>>>,
               !.bounded = <<Str, Str, Str, Str, Str>>]
=============================================================================
