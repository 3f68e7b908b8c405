------------------------------- MODULE Fields --------------------------------
(***************************************************************************)
(* What the output modules make of one record: the field registry          *)
(* (mod_fields/field_registry.go), the fields mod_kafka sends              *)
(* (kafka_data_config.go, json_converter.go) and the columns mod_log_mysql *)
(* writes (field_mapper.go).                                               *)
(*                                                                         *)
(* Of a value it matters whether it is there and whether it is the zero of *)
(* its type, so a value is "zero", "some", or NULL.  A log record is       *)
(*   request, addr  whether it has a RequestLog, and that an AddrInfo;     *)
(*   ipv6           whether its ClientNetwork is Ipv6;                     *)
(*   has            the fields of the protobuf message that are not zero;  *)
(*   tags           its API key tags, in order.                            *)
(***************************************************************************)
EXTENDS Integers, Sequences, SequencesExt

NULL == "NULL"

\* Rows of the registry: fields of a type, by how the registration marks them.
\* "required" fields are always sent and are default fields too.
Rows(class, typ, names) == {[name |-> f, type |-> typ, class |-> class] : f \in names}

-----------------------------------------------------------------------------
(* registerAllFields, by its sections *)

TopLevel ==
       Rows("required", "uint64", {"logid", "timestamp"})
  \cup Rows("required", "string", {"product", "hostid"})
  \cup Rows("optional", "string", {"log_tag"})

Connection ==
       Rows("required", "string", {"client_ip"})
  \cup Rows("optional", "string", {"client_network"})
  \cup Rows("optional", "uint32", {"req_num"})
  \cup Rows("optional", "uint64", {"session_id"})

RequestBasic ==
       Rows("required", "string", {"err_code", "err_msg"})
  \cup Rows("required", "uint32", {"req_header_len", "req_body_len"})

RequestHeader ==
       Rows("required", "string", {"proto", "header_host", "origin_uri", "method"})
  \cup Rows("default", "string",
            {"final_uri", "content_type", "x_forward_for", "accept_language",
             "authorization", "transfer_encoding"})
  \cup Rows("optional", "string", {"referrer", "user_agent", "delegation", "uid"})

CookieAndHeaders ==
       Rows("optional", "string", {"cookie"})
  \cup Rows("optional", "[]object", {"req_headers"})

Routing ==
       Rows("default", "string", {"cluster", "sub_cluster", "backend_info"})
  \cup Rows("default", "uint32", {"backend_retry"})

Response ==
       Rows("required", "uint32", {"res_status_code", "res_header_len", "res_body_len"})
  \cup Rows("default", "string", {"res_content_type"})
  \cup Rows("optional", "string", {"res_location", "res_transfer_encoding"})
  \cup Rows("optional", "[]object", {"res_headers"})

Timing ==
       Rows("required", "uint32",
            {"all_time", "read_client_time", "cluster_serve_time",
             "backend_serve_time", "write_client_time", "proxy_delay_time"})
  \cup Rows("default", "uint32", {"connect_backend_time"})
  \cup Rows("optional", "uint32", {"session_offset_time"})

AiKey ==
       Rows("default", "string", {"ai_apikey_id", "ai_requested_model", "ai_target_model"})
  \cup Rows("default", "object", {"ai_apikeytags"})
  \cup Rows("default", "bool", {"ai_stream"})

AiUsage ==
       Rows("default", "int64",
            {"ai_input_tokens", "ai_output_tokens", "ai_total_tokens",
             "ai_cache_read_tokens", "ai_cache_write_tokens",
             "ai_audio_input_tokens", "ai_audio_output_tokens", "ai_image_count",
             "ai_image_input_tokens", "ai_video_count", "ai_ttft_us", "ai_tpot_us"})
  \cup Rows("default", "[]object", {"ai_rate_limit_hits"})
  \cup Rows("default", "string", {"ai_auth_reject_reason"})
  \cup Rows("default", "[]string", {"ai_auth_reject_quota_plans"})

AiV020 ==
       Rows("default", "string",
            {"ai_provider", "ai_protocol", "ai_mode", "ai_cost_currency"})
  \cup Rows("default", "uint32", {"ai_retry_count"})
  \cup Rows("default", "int64", {"ai_cost_value"})
  \cup Rows("default", "[]object", {"ai_route_rule_hits", "ai_cluster_key_names"})
  \cup Rows("default", "[]string", {"ai_auth_hit_quota_plans"})

Address ==
       Rows("optional", "string", {"bfe_ip", "sock_src_ip", "vip", "vip6"})
  \cup Rows("default", "bool", {"is_trust_src_ip"})

Registry == UNION {TopLevel, Connection, RequestBasic, RequestHeader,
                   CookieAndHeaders, Routing, Response, Timing, AiKey, AiUsage,
                   AiV020, Address}

AllFields      == {e.name : e \in Registry}
RequiredFields == {e.name : e \in {d \in Registry : d.class = "required"}}
DefaultFields  == {e.name : e \in {d \in Registry : d.class # "optional"}}
IsValidField(f) == f \in AllFields

StringFields  == {e.name : e \in {d \in Registry : d.type = "string"}}
AddressFields == {e.name : e \in Address}
-----------------------------------------------------------------------------
(* Extract *)

Levels == 1 .. 5

\* The tag of a level: of several the last, of none the empty object.
TagOf(log, level) ==
  LET at == {i \in DOMAIN log.tags : log.tags[i].level = level}
  IN  IF log.request /\ level \in Levels /\ at # {}
      THEN log.tags[Max(at)] ELSE [level |-> level, name |-> "zero", value |-> "zero"]

\* Whether the extractor of a registered field returns a value that is not the
\* zero of its type.  product falls back to the name of an enum value, hostid
\* is "<hostname>_<network namespace>" of this process, and ai_apikeytags is a
\* map even when no tag is set.
Carries(f, log) ==
  CASE f \in {"product", "hostid", "ai_apikeytags"} -> TRUE
    [] f \in {"logid", "timestamp", "log_tag"}       -> f \in log.has
    [] f = "client_ip" ->
         log.request /\ (IF log.ipv6 THEN "client_ip6" ELSE "client_ip") \in log.has
    [] f \in AddressFields -> log.request /\ log.addr /\ f \in log.has
    [] OTHER -> log.request /\ f \in log.has

\* The value Extract returns; isZero is that it is not "some".
Extract(f, log) ==
  IF ~IsValidField(f) THEN NULL ELSE IF Carries(f, log) THEN "some" ELSE "zero"

-----------------------------------------------------------------------------
(* mod_kafka: the fields of a message *)

DefaultOutputFields == DefaultFields

\* Mutant: a customized list replaces the required fields.
FieldNamesOnly(data) ==
  IF data.mode = "customized" THEN data.names \cap AllFields ELSE DefaultFields

\* ResolveFields, of kafka_config.data: FieldMode and FieldNames.  An unknown
\* mode counts as "default", unknown names are ignored.
ResolveFields(data) ==
  RequiredFields \cup
    CASE data.mode = "require"    -> {}
      [] data.mode = "all"        -> AllFields
      [] data.mode = "customized" -> {f \in data.names : IsValidField(f)}
      [] OTHER                    -> DefaultFields

\* ConvertBfeLogToJSON: every field of the set, zero or not.
ConvertBfeLogToJSON(log, outputFields) ==
  [f \in outputFields |-> Extract(f, log)]

-----------------------------------------------------------------------------
(* mod_log_mysql: the columns of a row *)

Col(kind, names) == [i \in DOMAIN names |-> [name |-> names[i], field |-> names[i], kind |-> kind]]
Scalar(names) == Col("scalar", names)
Tag(level, name, value) == << [name |-> name,  field |-> level, kind |-> "tagName"],
                              [name |-> value, field |-> level, kind |-> "tagValue"] >>

\* columnDefs: the columns in the order of the table, by its sections.
BasicColumns ==
     Scalar(<<"hostid">>)
  \o << [name |-> "log_time", field |-> "timestamp", kind |-> "logTime"] >>
  \o Scalar(<<"ai_apikey_id", "ai_requested_model", "logid", "product", "log_tag">>)
ClientColumns ==
     Scalar(<<"client_ip", "client_network">>) \o Col("boolTiny", <<"is_trust_src_ip">>)
  \o Scalar(<<"req_num", "session_id", "bfe_ip", "sock_src_ip", "vip", "vip6">>)
RequestColumns ==
     Scalar(<<"err_code", "err_msg", "proto", "header_host", "origin_uri", "final_uri",
              "method", "content_type", "x_forward_for", "accept_language",
              "authorization", "transfer_encoding", "referrer", "user_agent",
              "delegation", "uid", "cookie">>)
  \o Col("json", <<"req_headers">>) \o Scalar(<<"req_header_len", "req_body_len">>)
RoutingColumns == Scalar(<<"cluster", "sub_cluster", "backend_info", "backend_retry">>)
ResponseColumns ==
     Scalar(<<"res_status_code", "res_header_len", "res_body_len", "res_content_type",
              "res_location", "res_transfer_encoding">>)
  \o Col("json", <<"res_headers">>)
TimeColumns ==
  Scalar(<<"all_time", "read_client_time", "cluster_serve_time", "backend_serve_time",
           "write_client_time", "connect_backend_time", "proxy_delay_time",
           "session_offset_time">>)
TagColumns ==
     Tag(1, "level1Name", "level1") \o Tag(2, "level2Name", "level2")
  \o Tag(3, "level3Name", "level3") \o Tag(4, "level4Name", "level4")
  \o Tag(5, "level5Name", "level5")
AiColumns ==
     Scalar(<<"ai_target_model">>) \o Col("boolTiny", <<"ai_stream">>)
  \o Scalar(<<"ai_input_tokens", "ai_output_tokens", "ai_total_tokens",
              "ai_cache_read_tokens", "ai_cache_write_tokens",
              "ai_audio_input_tokens", "ai_audio_output_tokens",
              "ai_image_count", "ai_ttft_us", "ai_tpot_us", "ai_provider",
              "ai_protocol", "ai_mode", "ai_retry_count", "ai_cost_value",
              "ai_cost_currency">>)
AiListColumns ==
     Col("json", <<"ai_route_rule_hits", "ai_cluster_key_names", "ai_rate_limit_hits">>)
  \o Scalar(<<"ai_auth_reject_reason">>)
  \o Col("json", <<"ai_auth_reject_quota_plans", "ai_auth_hit_quota_plans">>)

columnDefs ==
  BasicColumns \o ClientColumns \o RequestColumns \o RoutingColumns \o ResponseColumns
    \o TimeColumns \o TagColumns \o AiColumns \o AiListColumns
Columns    == {columnDefs[i].name : i \in DOMAIN columnDefs}

\* flattenTag: a missing tag and an empty name or value are NULL.
OrNull(v) == IF v = "zero" THEN NULL ELSE v

\* Mutant: the level is taken for an index that starts at zero.
TagBelow(log, level) == TagOf(log, level - 1)
\* flattenTag's look at one level.
FlattenTag(log, level) == TagOf(log, level)

\* One column of ToRow.  The zero of a string and an empty list become NULL,
\* the zero of a number or a boolean stays.
ColumnValue(col, log) ==
  CASE col.kind = "tagName"  -> OrNull(FlattenTag(log, col.field).name)
    [] col.kind = "tagValue" -> OrNull(FlattenTag(log, col.field).value)
    [] col.kind = "json"     -> OrNull(Extract(col.field, log))
    [] col.kind = "scalar" /\ col.field \in StringFields
                             -> OrNull(Extract(col.field, log))
    [] OTHER                 -> Extract(col.field, log)

\* Mutant: a boolean column is always 0.
ToRowNoBool(log) ==
  [i \in DOMAIN columnDefs |->
     IF columnDefs[i].kind = "boolTiny" THEN "zero" ELSE ColumnValue(columnDefs[i], log)]
ToRow(log) == [i \in DOMAIN columnDefs |-> ColumnValue(columnDefs[i], log)]
=============================================================================
