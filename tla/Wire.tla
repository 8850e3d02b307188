--------------------------------- MODULE Wire ---------------------------------
(***************************************************************************)
(* The byte formats: the frames of the RPC protocol (src/protocol) and the *)
(* messages of the ZooKeeper client (include/zk_client/zk_proto.hpp).  A   *)
(* message is written field by field and read field by field; a step is    *)
(* one write_* or read_* call.  A byte is a digit of base B, 256 in the    *)
(* code; a small B keeps every width and lets lengths overflow early.      *)
(*                                                                         *)
(* Writes gives the fields in the order of the code that serializes, Reads *)
(* in the order of the code that deserializes.  ZooKeeper reads the        *)
(* requests and writes the responses as its own format, Jute, says.        *)
(***************************************************************************)
EXTENDS Integers, Sequences, FiniteSets

CONSTANTS
  B,      \* bytes are 0 .. B - 1
  Lens,   \* lengths of the strings
  Seeds   \* what field values are made from

\* Of the base: it is even, so that half of the numbers are negative, and an opcode
\* fits.  A string is shorter than a signed 32-bit length can say.
ASSUME WireAssumption ==
  /\ B \in Nat /\ B >= 4 /\ B % 2 = 0
  /\ Seeds \subseteq Nat
  /\ Lens \subseteq Nat /\ \A l \in Lens : 2 * l < B * B * B * B

VARIABLES
  kind,         \* of the message
  seed, lens,   \* its values: of the fields, and the lengths of its strings
  out, buf,     \* the fields still to write; what is written
  script, pos,  \* the fields still to read; the read pointer
  got,          \* the fields read
  status        \* "writing", "reading", "done", "threw"

wireVars == <<kind, seed, lens, out, buf, script, pos, got, status>>

-------------------------------------------------------------------------------
(* Integers: big endian, two's complement *)

Width(t) == CASE t = "u8" -> 1 [] t = "bool" -> 1 [] t = "str16" -> 2 [] t = "i64" -> 8 [] OTHER -> 4

\* How many numbers fit in w bytes.
Power[w \in 0 .. 8] == IF w = 0 THEN 1 ELSE Power[w - 1] * B

\* write_u32, write_u16, write_int32, write_int64: v modulo the width.
Digits(v, w) == [i \in 1 .. w |-> (v \div Power[w - i]) % B]

Byte(i) == IF i <= Len(buf) THEN buf[i] ELSE 0 \* whatever follows the buffer

\* The number at offset p.
Number(p, w) == LET n[i \in 0 .. w] == IF i = 0 THEN 0 ELSE n[i - 1] * B + Byte(p + i) IN n[w]

\* read_u32, read_u16: unsigned; read_int32, read_int64, and so the lengths that the
\* ZooKeeper client reads: signed.
ReadNumber(p, t) ==
  LET n == Number(p, Width(t))
  IN IF t \in {"i32", "i64", "string", "vector"} /\ n >= Power[Width(t)] \div 2 THEN n - Power[Width(t)] ELSE n

-------------------------------------------------------------------------------
(* The fields of each message *)

serialize_header ==
  << <<"magic", "u32">>, <<"version", "u8">>, <<"msg_type", "u8">>, <<"serializer", "u8">>,
     <<"flags", "u8">>, <<"seq_id", "u32">>, <<"body_size", "u32">>, <<"checksum", "u32">> >>

deserialize_header ==
  << <<"magic", "u32">>, <<"version", "u8">>, <<"msg_type", "u8">>, <<"serializer", "u8">>,
     <<"flags", "u8">>, <<"seq_id", "u32">>, <<"body_size", "u32">>, <<"checksum", "u32">> >>

SerializeRequest ==
  << <<"service_name", "str16">>, <<"method_name", "str16">>, <<"timeout_ms", "u32">>, <<"params", "str32">> >>

DeserializeRequest ==
  << <<"service_name", "str16">>, <<"method_name", "str16">>, <<"timeout_ms", "u32">>, <<"params", "str32">> >>

SerializeResponse   == << <<"error_code", "i32">>, <<"error_msg", "str16">>, <<"result", "str32">> >>
DeserializeResponse == << <<"error_code", "i32">>, <<"error_msg", "str16">>, <<"result", "str32">> >>

request_header == << <<"xid", "i32">>, <<"opcode", "i32">> >>

reply_header == << <<"xid", "i32">>, <<"zxid", "i64">>, <<"err", "i32">> >>

\* Fault: two fields swapped.
Fault_zk_stat ==
  << <<"czxid", "i64">>, <<"mzxid", "i64">>, <<"mtime", "i64">>, <<"ctime", "i64">>, <<"version", "i32">>,
     <<"cversion", "i32">>, <<"aversion", "i32">>, <<"ephemeral_owner", "i64">>, <<"data_length", "i32">>,
     <<"num_children", "i32">>, <<"pzxid", "i64">> >>

zk_stat ==
  << <<"czxid", "i64">>, <<"mzxid", "i64">>, <<"ctime", "i64">>, <<"mtime", "i64">>, <<"version", "i32">>,
     <<"cversion", "i32">>, <<"aversion", "i32">>, <<"ephemeral_owner", "i64">>, <<"data_length", "i32">>,
     <<"num_children", "i32">>, <<"pzxid", "i64">> >>

zk_acl == << <<"perms", "i32">>, <<"scheme", "string">>, <<"id", "string">> >>

connect_request ==
  << <<"protocol_version", "i32">>, <<"last_zxid_seen", "i64">>, <<"timeout_ms", "i32">>,
     <<"session_id", "i64">>, <<"passwd", "string">>, <<"read_only", "bool">> >>

connect_response ==
  << <<"protocol_version", "i32">>, <<"timeout_ms", "i32">>, <<"session_id", "i64">>,
     <<"passwd", "string">>, <<"read_only", "bool">> >>

create_request        == << <<"path", "string">>, <<"data", "string">>, <<"acls", "vector">>, <<"flags", "i32">> >>
create_response       == << <<"path", "string">> >>
get_children_request  == << <<"path", "string">>, <<"watch", "bool">> >>
get_children_response == << <<"children", "vector">> >>
get_data_request      == << <<"path", "string">>, <<"watch", "bool">> >>
get_data_response     == << <<"data", "string">> >> \o zk_stat
exists_request        == << <<"path", "string">>, <<"watch", "bool">> >>
exists_response       == zk_stat
delete_request        == << <<"path", "string">>, <<"version", "i32">> >>

\* What an element of a vector is made of.
Element(name) == IF name = "acls" THEN zk_acl ELSE << <<"child", "string">> >>

op_code == [create |-> 1, remove |-> 2, exists |-> 3, get_data |-> 4, get_children |-> 8]

Ops     == DOMAIN op_code
Answers == {"re_create", "re_exists", "re_get_data", "re_get_children"}
Rpc     == {"RpcHeader", "RpcRequest", "RpcResponse"}
Kinds   == Rpc \cup Ops \cup Answers \cup {"connect", "re_connect"}

Body(k) ==
  CASE k = "create"          -> create_request
    [] k = "remove"          -> delete_request
    [] k = "exists"          -> exists_request
    [] k = "get_data"        -> get_data_request
    [] k = "get_children"    -> get_children_request
    [] k = "re_create"       -> create_response
    [] k = "re_exists"       -> exists_response
    [] k = "re_get_data"     -> get_data_response
    [] k = "re_get_children" -> get_children_response
    [] k = "connect"         -> connect_request
    [] k = "re_connect"      -> connect_response

RpcWrites == [RpcHeader |-> serialize_header, RpcRequest |-> SerializeRequest, RpcResponse |-> SerializeResponse]

RpcReads ==
  [RpcHeader |-> deserialize_header, RpcRequest |-> DeserializeRequest, RpcResponse |-> DeserializeResponse]

\* ZooKeeper's own records, and the request that it takes an opcode for.
JuteStat ==
  << <<"czxid", "i64">>, <<"mzxid", "i64">>, <<"ctime", "i64">>, <<"mtime", "i64">>, <<"version", "i32">>,
     <<"cversion", "i32">>, <<"aversion", "i32">>, <<"ephemeral_owner", "i64">>, <<"data_length", "i32">>,
     <<"num_children", "i32">>, <<"pzxid", "i64">> >>

Jute(k) ==
  CASE k = "header"          -> << <<"xid", "i32">>, <<"opcode", "i32">> >>
    [] k = "re_header"       -> << <<"xid", "i32">>, <<"zxid", "i64">>, <<"err", "i32">> >>
    [] k = "connect"         -> << <<"protocol_version", "i32">>, <<"last_zxid_seen", "i64">>,
                                   <<"timeout_ms", "i32">>, <<"session_id", "i64">>,
                                   <<"passwd", "string">>, <<"read_only", "bool">> >>
    [] k = "re_connect"      -> << <<"protocol_version", "i32">>, <<"timeout_ms", "i32">>,
                                   <<"session_id", "i64">>, <<"passwd", "string">>, <<"read_only", "bool">> >>
    [] k = "create"          -> << <<"path", "string">>, <<"data", "string">>, <<"acls", "vector">>, <<"flags", "i32">> >>
    [] k = "remove"          -> << <<"path", "string">>, <<"version", "i32">> >>
    [] k \in {"exists", "get_data", "get_children"} -> << <<"path", "string">>, <<"watch", "bool">> >>
    [] k = "re_create"       -> << <<"path", "string">> >>
    [] k = "re_exists"       -> JuteStat
    [] k = "re_get_data"     -> << <<"data", "string">> >> \o JuteStat
    [] k = "re_get_children" -> << <<"children", "vector">> >>

JuteOf(opcode) ==
  CASE opcode = 1 -> Jute("create") [] opcode = 2 -> Jute("remove") [] opcode = 3 -> Jute("exists")
    [] opcode = 4 -> Jute("get_data") [] opcode = 8 -> Jute("get_children") [] OTHER -> <<>>

\* The fields in the order in which they are written, and (before the body of a
\* request is known) in which they are read.
Writes(k) ==
  IF k \in Rpc THEN RpcWrites[k] ELSE IF k \in Ops THEN request_header \o Body(k)
  ELSE IF k \in Answers THEN Jute("re_header") \o Jute(k)
  ELSE IF k = "re_connect" THEN Jute(k) ELSE Body(k)

Reads(k) ==
  IF k \in Rpc THEN RpcReads[k] ELSE IF k \in Ops THEN Jute("header")
  ELSE IF k \in Answers THEN reply_header \o Body(k)
  ELSE IF k = "connect" THEN Jute(k) ELSE Body(k)

-------------------------------------------------------------------------------
(* Writing *)

\* n elements of a vector.
Elements(name, n) ==
  LET e == Element(name)
  IN [i \in 1 .. n * Len(e) |-> e[((i - 1) % Len(e)) + 1]]

\* acl_open_unsafe has one element.
Count(name) == IF name = "acls" THEN 1 ELSE lens[3] % 3

\* Where the vector is.
VectorIn(fs) == CHOOSE i \in DOMAIN fs : fs[i][2] = "vector"

\* The fields of a message, those of the elements included; none has two vectors.
Expand(fs) ==
  IF \A i \in DOMAIN fs : fs[i][2] # "vector" THEN fs
  ELSE LET v == VectorIn(fs)
       IN SubSeq(fs, 1, v) \o Elements(fs[v][1], Count(fs[v][1])) \o SubSeq(fs, v + 1, Len(fs))

\* The value of the i-th field f: neighbours differ, and some are negative.
Value(f, i) ==
  LET n == (7 * i + 3 * seed) % Power[Width(f[2])]
  IN IF f[1] = "opcode" THEN op_code[kind]
     ELSE CASE f[2] = "vector" -> Count(f[1])
            [] f[2] = "bool" -> (i + seed) % 2 = 1
            [] f[2] \in {"str16", "str32", "string"} -> [j \in 1 .. lens[(i % 3) + 1] |-> (j + seed) % B]
            [] f[2] \in {"i32", "i64"} -> n - (Power[Width(f[2])] \div 2)
            [] OTHER -> n

Sent == LET fs == Expand(Writes(kind)) IN [i \in DOMAIN fs |-> <<fs[i][1], fs[i][2], Value(fs[i], i)>>]

WireInit ==
  /\ kind \in Kinds /\ seed \in Seeds /\ lens \in [1 .. 3 -> Lens]
  /\ out = Sent
  /\ buf = <<>> /\ script = <<>> /\ pos = 0 /\ got = <<>>
  /\ status = "writing"

\* write_bool, write_string, write_buffer and the integers.
Bytes(t, v) ==
  CASE t = "bool" -> <<IF v THEN 1 ELSE 0>>
    [] t \in {"str16", "str32", "string"} -> Digits(Len(v), Width(t)) \o v
    [] OTHER -> Digits(v, Width(t))

WriteField ==
  /\ status = "writing" /\ out # <<>>
  /\ buf' = buf \o Bytes(Head(out)[2], Head(out)[3])
  /\ out' = Tail(out)
  /\ UNCHANGED <<kind, seed, lens, script, pos, got, status>>

make_zpayload(body) == Digits(Len(body), 4) \o body

\* The size that deserialize() demands before it reads.
MinSize == CASE kind = "RpcHeader" -> 20 [] kind = "RpcRequest" -> 4 [] kind = "RpcResponse" -> 6 [] OTHER -> 0

\* The frame arrives; for ZooKeeper's, the length was read first.
Deliver ==
  /\ status = "writing" /\ out = <<>>
  /\ buf' = IF kind \in Rpc THEN buf ELSE make_zpayload(buf)
  /\ pos' = IF kind \in Rpc THEN 0 ELSE 4
  /\ script' = Reads(kind)
  /\ status' = IF Len(buf) < MinSize THEN "threw" ELSE "reading"
  /\ UNCHANGED <<kind, seed, lens, out, got>>

-------------------------------------------------------------------------------
(* Reading *)

\* Fault: a string's length is not compared with what is left.
Fault_Short(p, t) == kind \in Rpc /\ p + Width(t) > Len(buf)

\* The RPC protocol checks that a field is all there, the ZooKeeper client does not.
Short(p, t) ==
  /\ kind \in Rpc
  /\ \/ p + Width(t) > Len(buf)
     \/ t \in {"str16", "str32"} /\ p + Width(t) + ReadNumber(p, t) > Len(buf)

\* The value at p, and the offset after it.
Item(p, t) ==
  LET n == ReadNumber(p, t)
  IN CASE t = "bool" -> [value |-> n # 0, next |-> p + 1]
       [] t \in {"str16", "str32", "string"} ->
            [value |-> [i \in 1 .. n |-> Byte(p + Width(t) + i)], next |-> p + Width(t) + n]
       [] OTHER -> [value |-> n, next |-> p + Width(t)]

ReadField ==
  /\ status = "reading" /\ script # <<>>
  /\ LET f == Head(script)
         x == Item(pos, f[2])
     IN IF Short(pos, f[2])
        THEN status' = "threw" /\ UNCHANGED <<pos, got, script>>
        ELSE /\ pos' = x.next
             /\ got' = Append(got, <<f[1], f[2], x.value>>)
             /\ script' = (IF f[2] = "vector" THEN Elements(f[1], x.value)
                           ELSE IF f[1] = "opcode" THEN JuteOf(x.value) ELSE <<>>) \o Tail(script)
             /\ UNCHANGED status
  /\ UNCHANGED <<kind, seed, lens, out, buf>>

ReadDone ==
  /\ status = "reading" /\ script = <<>>
  /\ status' = "done"
  /\ UNCHANGED <<kind, seed, lens, out, buf, script, pos, got>>

WireNext == WriteField \/ Deliver \/ ReadField \/ ReadDone

WireSpec == WireInit /\ [][WireNext]_wireVars

-------------------------------------------------------------------------------
(* Properties *)

\* The lengths that RpcRequest and RpcResponse write in 16 bits fit.
NamesFit == \A i \in DOMAIN Sent : Sent[i][2] = "str16" => Len(Sent[i][3]) < Power[2]

\* What is read is what was written, field by field, and it takes up the whole
\* frame, for every message either end serializes, provided the service name, the
\* method name or the error message is not longer than its 16-bit length can say
\* (serialize() truncates that length without an error).
RoundTrip == NamesFit => status # "threw" /\ (status = "done" => got = Sent /\ pos = Len(buf))

\* RpcRequest::deserialize and RpcResponse::deserialize never read past the end of
\* the body, even when a truncated length has put the fields out of step.
ReadsInBounds == pos <= Len(buf)
===============================================================================
