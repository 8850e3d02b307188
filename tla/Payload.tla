-------------------------------- MODULE Payload --------------------------------
(***************************************************************************)
(* What may be done to a message body, and undone: serializing it          *)
(* (src/serializer), compressing it (src/compress_data) and encrypting it  *)
(* (src/encrypt).  A program applies the layers of plan, in their order,   *)
(* and takes them off again.  Any library call may fail.                   *)
(*                                                                         *)
(* A string is a term: <<>> the empty one, <<f, m>> the message m in       *)
(* format f, <<"zstd", t>>, <<"aes", k, v, t>> with key k and IV v.        *)
(***************************************************************************)
EXTENDS Integers, Sequences

CONSTANT MaxLayers \* bound on the layers on top of the serializer

ASSUME PayAssumption == MaxLayers \in Nat

VARIABLES
  message,   \* the message: "default" (all fields unset) or "set"
  plan,      \* the layers: a serializer's name, "zstd", "aes"
  layer,     \* how many of them are applied
  back,      \* on the way back
  key, iv,   \* [size, id] of the key and of the IV
  text,      \* the string
  ctx,       \* the EVP_CIPHER_CTX: "none", "live", "freed", "leaked", "freed_twice"
  step,      \* the next EVP call, or 0
  outcome    \* "running", a message, "false" (from deserialize), an exception:
             \* "failed" (a library call failed), "no_memory" (bad_alloc) or
             \* "rejected" (bad arguments)

payVars == <<message, plan, layer, back, key, iv, text, ctx, step, outcome>>

Serializers == {"protobuf", "proto", "json", "yaml"}

PayInit ==
  /\ message \in {"default", "set"}
  /\ \E s \in Serializers, n \in 0 .. MaxLayers : \E t \in [1 .. n -> {"zstd", "aes"}] : plan = <<s>> \o t
  /\ layer = 0 /\ back = FALSE /\ text = <<>>
  /\ key = [size |-> 0, id |-> 0] /\ iv = [size |-> 0, id |-> 0]
  /\ ctx = "none" /\ step = 0 /\ outcome = "running"

Throw(why) == outcome' = why /\ UNCHANGED <<text, layer>>

\* The layer to apply, or to take off.
At(l) ==
  /\ outcome = "running" /\ step = 0
  /\ IF back THEN layer > 0 /\ plan[layer] = l ELSE layer < Len(plan) /\ plan[layer + 1] = l

Done(t) == text' = t /\ layer' = (IF back THEN layer - 1 ELSE layer + 1) /\ UNCHANGED outcome

Stays == <<message, plan, back>>

-------------------------------------------------------------------------------
(* Serializers *)

\* create_serializer(name): the format, or an exception.
Format(name) == CASE name \in {"protobuf", "proto"} -> "protobuf" [] name = "json" -> "json" [] OTHER -> "none"

\* SerializeToString gives the empty string for a message with no field set;
\* MessageToJsonString gives {}.
Serialized(f) == IF f = "protobuf" /\ message = "default" THEN <<>> ELSE <<f, message>>

Serialize ==
  /\ ~back /\ \E name \in Serializers :
       /\ At(name)
       /\ IF Format(name) = "none" THEN Throw("rejected")
          ELSE Done(Serialized(Format(name))) \/ Throw("failed")
  /\ UNCHANGED <<Stays, key, iv, ctx, step>>

\* ParseFromString and JsonStringToMessage report whether they could read it.
Deserialize ==
  /\ back /\ \E name \in Serializers \ {"yaml"} :
       /\ At(name)
       /\ LET f == Format(name)
          IN outcome' = IF text = <<>> /\ f = "protobuf" THEN "default"
                        ELSE IF text # <<>> /\ text[1] = f THEN text[2] ELSE "false"
  /\ layer' = 0
  /\ UNCHANGED <<Stays, key, iv, ctx, step, text>>

-------------------------------------------------------------------------------
(* zstd *)

compress ==
  /\ ~back /\ At("zstd")
  /\ IF text = <<>> THEN Done(<<>>) ELSE Done(<<"zstd", text>>) \/ Throw("failed")
  /\ UNCHANGED <<Stays, key, iv, ctx, step>>

IsFrame == text # <<>> /\ text[1] = "zstd"

\* Fault: the empty string has no frame header to read a size from.
Fault_decompress ==
  /\ back /\ At("zstd")
  /\ IF IsFrame THEN Done(text[2]) \/ Throw("failed") ELSE Throw("rejected")
  /\ UNCHANGED <<Stays, key, iv, ctx, step>>

decompress ==
  /\ back /\ At("zstd")
  /\ IF text = <<>> THEN Done(<<>>)
     ELSE IF IsFrame THEN Done(text[2]) \/ Throw("failed") ELSE Throw("rejected")
  /\ UNCHANGED <<Stays, key, iv, ctx, step>>

-------------------------------------------------------------------------------
(* AES-256-GCM *)

\* generate_key and generate_iv, or a key and an IV from elsewhere.
generate ==
  /\ outcome = "running" /\ key.size = 0
  /\ \/ \E k \in {31, 32}, v \in {12, 16} :
          /\ key' = [size |-> k, id |-> 1]
          /\ iv' = [size |-> v, id |-> 1] /\ UNCHANGED outcome
     \/ outcome' = "failed" /\ UNCHANGED <<key, iv>>
  /\ UNCHANGED <<Stays, layer, text, ctx, step>>

EncryptCalls == <<"EncryptInit", "SetIvLen", "SetKeyIv", "EncryptUpdate", "EncryptFinal", "GetTag">>
DecryptCalls == <<"DecryptInit", "SetIvLen", "SetKeyIv", "DecryptUpdate", "SetTag", "DecryptFinal">>

\* The checks, and EVP_CIPHER_CTX_new.
BeginCipher ==
  /\ At("aes") /\ key.size > 0
  /\ \/ key.size = 32 /\ iv.size = 12 /\ ctx' = "live" /\ step' = 1 /\ UNCHANGED <<outcome, text, layer>>
     \/ Throw(IF key.size = 32 /\ iv.size = 12 THEN "failed" ELSE "rejected") /\ UNCHANGED <<ctx, step>>
  /\ UNCHANGED <<Stays, key, iv>>

Free == ctx' = IF ctx = "live" THEN "freed" ELSE "freed_twice"

\* Fault: the error path of one call forgets the context.
Fault_CipherFails ==
  /\ step > 0
  /\ IF step = 3 THEN ctx' = "leaked" ELSE Free
  /\ step' = 0 /\ Throw("failed")
  /\ UNCHANGED <<Stays, key, iv>>

\* Any call may fail: the context is freed and an exception thrown.
CipherFails ==
  /\ step > 0
  /\ Free
  /\ step' = 0 /\ Throw("failed")
  /\ UNCHANGED <<Stays, key, iv>>

\* The strings for the ciphertext, the tag and the plaintext are allocated between
\* the calls; an exception from there passes the context by.
NoMemory ==
  /\ step = 4 \/ (step = 6 /\ ~back)
  /\ ctx' = "leaked"
  /\ step' = 0 /\ Throw("no_memory")
  /\ UNCHANGED <<Stays, key, iv>>

CipherCall ==
  /\ 0 < step /\ step < Len(IF back THEN DecryptCalls ELSE EncryptCalls)
  /\ step' = step + 1
  /\ UNCHANGED <<Stays, key, iv, layer, text, ctx, outcome>>

\* The tag fits the key, the IV and the text.
Authentic == text[2] = key.id /\ text[3] = iv.id

\* The last call: GetTag, or DecryptFinal, which checks the tag.
CipherEnds ==
  /\ step = 6
  /\ Free
  /\ step' = 0
  /\ IF ~back THEN Done(<<"aes", key.id, iv.id, text>>)
     ELSE IF Authentic THEN Done(text[4]) ELSE Throw("rejected")
  /\ UNCHANGED <<Stays, key, iv>>

\* The receiving side has another key.
Rekey ==
  /\ outcome = "running" /\ step = 0 /\ back /\ key.id = 1
  /\ key' = [key EXCEPT !.id = 2]
  /\ UNCHANGED <<Stays, iv, layer, text, ctx, step, outcome>>

-------------------------------------------------------------------------------
\* All layers are on; the other side takes them off.
Turn ==
  /\ outcome = "running" /\ step = 0 /\ ~back /\ layer = Len(plan)
  /\ back' = TRUE
  /\ UNCHANGED <<message, plan, layer, key, iv, text, ctx, step, outcome>>

PayNext ==
  \/ Serialize \/ Deserialize \/ compress \/ decompress \/ generate \/ Rekey \/ Turn
  \/ BeginCipher \/ CipherCall \/ CipherFails \/ NoMemory \/ CipherEnds

\* The layers by themselves.
PaySpec == PayInit /\ [][PayNext]_payVars

-------------------------------------------------------------------------------
(* Properties *)

\* Whatever call fails, aes_encrypt and aes_decrypt release their context exactly
\* once before they return or throw; it is left behind only where the memory for
\* their result was missing (encrypt.cpp:63, 87 and 135).
ContextReleased ==
  step = 0 => ctx \in {"none", "freed"} \/ (ctx = "leaked" /\ outcome = "no_memory")

\* What comes back is the message that was sent, never another one, never a parse
\* failure, and nothing is rejected on the way, through every combination of layers
\* and for the message whose serialized form is empty; only an unknown serializer,
\* a key or IV of the wrong size and another key than the sender's are.
Recovers ==
  \/ outcome \in {"running", "failed", "no_memory", message}
  \/ outcome = "rejected" /\ (Format(plan[1]) = "none" \/ key.size # 32 \/ iv.size # 12 \/ key.id = 2)
===============================================================================
