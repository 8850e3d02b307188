------------------------------ MODULE LibraryProofs ---------------------------
(***************************************************************************)
(* The parts of Library: that a message comes back through any stack of    *)
(* layers, that what a thread gets from the two globals can be used, for   *)
(* any number of threads and of calls, and that the programs start as they *)
(* are told, whatever the command line and the file.                       *)
(***************************************************************************)
EXTENDS Library, TLAPS

\* The prover of a step that names none; SMT is named where Zenon does not do.
USE ZenonT(60), SMTT(60)

-------------------------------------------------------------------------------
(* The payload layers *)

IsPlan ==
  /\ Len(plan) \in Nat \ {0} /\ plan[1] \in Serializers
  /\ \A n \in 2 .. Len(plan) : plan[n] \in {"zstd", "aes"}

Keys ==
  /\ key = [size |-> key.size, id |-> key.id] /\ iv = [size |-> iv.size, id |-> iv.id]
  /\ key.size \in {0, 31, 32} /\ key.id \in 0 .. 2 /\ iv.size \in {0, 12, 16} /\ iv.id \in 0 .. 1
  /\ key.size > 0 => key.id > 0 /\ iv.id = 1
  /\ key.id = 2 => back

\* What the layer l makes of t, with the sender's key and IV.
Wrapped(l, t) ==
  IF l = "aes" THEN <<"aes", 1, 1, t>> ELSE IF t = <<>> THEN <<>> ELSE <<"zstd", t>>

\* s[n] is what the first n layers made of the message.
IsHistory(s) ==
  /\ DOMAIN s = 1 .. layer /\ s[1] = Serialized(Format(plan[1]))
  /\ \A n \in 2 .. layer : s[n] = Wrapped(plan[n], s[n - 1])

\* While nothing has failed: the text is that of the layers that are on, and what was
\* encrypted was encrypted with a key and an IV of the right size.
Layered ==
  /\ layer \in 0 .. Len(plan) /\ back \in BOOLEAN
  /\ IF layer = 0 THEN ~back /\ text = <<>>
     ELSE /\ Format(plan[1]) # "none"
          /\ \E s : IsHistory(s) /\ text = s[layer]
  /\ \A n \in 2 .. layer : plan[n] = "aes" => key.size = 32 /\ iv.size = 12

\* A cipher is at work on the next layer, and holds the one context.
Ciphering ==
  /\ step \in 0 .. 6
  /\ IF step = 0 THEN ctx \in {"none", "freed"} \/ (ctx = "leaked" /\ outcome = "no_memory")
     ELSE ctx = "live" /\ outcome = "running"
  /\ step > 0 => /\ key.size = 32 /\ iv.size = 12
                 /\ IF back THEN layer > 0 /\ plan[layer] = "aes"
                    ELSE layer < Len(plan) /\ plan[layer + 1] = "aes"

\* The inductive invariant.
PayInv ==
  /\ message \in {"default", "set"} /\ IsPlan /\ Keys /\ Ciphering /\ Recovers
  /\ outcome = "running" => Layered

\* A plan is a serializer and some layers.
LEMMA PlanMade ==
  ASSUME PayInit
  PROVE  IsPlan
<1>1. PICK s \in Serializers, k \in 0 .. MaxLayers :
        \E t \in [1 .. k -> {"zstd", "aes"}] : plan = <<s>> \o t
  BY DEF PayInit
<1>6. PICK t \in [1 .. k -> {"zstd", "aes"}] : plan = <<s>> \o t
  BY <1>1
<1>2. t \in Seq({"zstd", "aes"}) /\ Len(t) = k /\ k \in Nat
  BY <1>6, PayAssumption, SMTT(60)
<1>3. Len(<<s>>) = 1 /\ <<s>>[1] = s /\ <<s>> \in Seq(Serializers)
  BY SMTT(60)
<1>4. Len(plan) = k + 1 /\ plan[1] = s /\ \A n \in 2 .. k + 1 : plan[n] = t[n - 1]
  BY <1>6, <1>2, <1>3, SMTT(60)
<1>5. QED
  BY <1>2, <1>4, SMTT(60) DEF IsPlan

\* Nothing is on at first.
LEMMA PayBegins ==
  ASSUME PayInit
  PROVE  PayInv
<1>1. IsPlan
  BY PlanMade
<1>2. Keys /\ Ciphering
  BY SMTT(60) DEF PayInit, Keys, Ciphering
<1>3. Layered
  <2>1. 0 \in 0 .. Len(plan) /\ 2 .. 0 = {}
    BY <1>1, SMTT(60) DEF IsPlan
  <2>2. QED
    BY <2>1 DEF PayInit, Layered
<1>5. Recovers
  BY DEF PayInit, Recovers
<1>4. QED
  BY <1>1, <1>2, <1>3, <1>5 DEF PayInit, PayInv

\* One layer more: what it made is the text.
LEMMA LayerOn ==
  ASSUME IsPlan, Layered, ~back, layer < Len(plan), UNCHANGED Stays,
         layer > 0 => text' = Wrapped(plan[layer + 1], text),
         layer = 0 => Format(plan[1]) # "none" /\ text' = Serialized(Format(plan[1])),
         plan[layer + 1] = "aes" => key'.size = 32 /\ iv'.size = 12,
         UNCHANGED <<key, iv>>,
         layer' = layer + 1
  PROVE  Layered'
<1>1. UNCHANGED <<message, plan, back, key, iv>> /\ layer \in Nat /\ layer' \in 1 .. Len(plan) /\ Len(plan) \in Nat
  BY SMTT(60) DEF Stays, Layered, IsPlan
<1>2. Format(plan[1]) # "none"
  BY <1>1 DEF Layered
<1>3. \E s : IsHistory(s)' /\ text' = s[layer']
  <2>1. CASE layer = 0
    <3>1. PICK s : s = [n \in 1 .. 1 |-> text']
      OBVIOUS
    <3>2. DOMAIN s = 1 .. layer' /\ s[1] = text' /\ s[layer'] = text'
      BY <2>1, <3>1, SMTT(60)
    <3>3. 2 .. layer' = {}
      BY <2>1, SMTT(60)
    <3>4. IsHistory(s)'
      BY <1>1, <2>1, <3>2, <3>3 DEF IsHistory, Serialized
    <3>5. QED
      BY <3>2, <3>4
  <2>2. CASE layer > 0
    <3>1. PICK s : IsHistory(s) /\ text = s[layer]
      BY <2>2, SMTT(60) DEF Layered
    <3>2. PICK r : r = [n \in 1 .. layer' |-> IF n = layer' THEN text' ELSE s[n]]
      OBVIOUS
    <3>3. /\ DOMAIN r = 1 .. layer' /\ r[layer'] = text' /\ r[1] = s[1]
          /\ \A n \in 2 .. layer : r[n] = s[n] /\ r[n - 1] = s[n - 1]
          /\ r[layer' - 1] = s[layer]
      BY <1>1, <2>2, <3>2, SMTT(60)
    <3>4. \A n \in 2 .. layer' : r[n] = Wrapped(plan[n], r[n - 1])
      <4> SUFFICES ASSUME NEW n \in 2 .. layer' PROVE r[n] = Wrapped(plan[n], r[n - 1])
        OBVIOUS
      <4>1. CASE n = layer + 1
        BY <1>1, <2>2, <3>1, <3>3, <4>1
      <4>2. CASE n \in 2 .. layer
        <5>1. s[n] = Wrapped(plan[n], s[n - 1])
          BY <3>1, <4>2 DEF IsHistory
        <5>2. QED
          BY <3>3, <4>2, <5>1
      <4>3. QED
        BY <1>1, <4>1, <4>2, SMTT(60)
    <3>5. IsHistory(r)'
      BY <1>1, <3>1, <3>3, <3>4 DEF IsHistory, Serialized
    <3>6. QED
      BY <3>3, <3>5
  <2>3. QED
    BY <1>1, <2>1, <2>2, SMTT(60)
<1>4. \A n \in 2 .. layer' : plan[n] = "aes" => key'.size = 32 /\ iv'.size = 12
  BY <1>1, SMTT(60) DEF Layered
<1>5. layer' # 0 /\ layer' \in 0 .. Len(plan)
  BY <1>1, SMTT(60)
<1>6. QED
  BY <1>1, <1>2, <1>3, <1>4, <1>5 DEF Layered

\* One layer less: what there was before it is the text again.
LEMMA LayerOff ==
  ASSUME IsPlan, Layered, back, layer > 1, UNCHANGED Stays, UNCHANGED <<key, iv>>,
         layer' = layer - 1,
         \A t : text = Wrapped(plan[layer], t) => text' = t
  PROVE  Layered'
<1>1. UNCHANGED <<message, plan, back, key, iv>> /\ layer \in Nat /\ layer' \in 1 .. Len(plan) /\ Len(plan) \in Nat
  BY SMTT(60) DEF Stays, Layered, IsPlan
<1>2. PICK s : IsHistory(s) /\ text = s[layer]
  BY DEF Layered
<1>3. text' = s[layer']
  <2>1. layer \in 2 .. layer
    BY <1>1, SMTT(60)
  <2>2. s[layer] = Wrapped(plan[layer], s[layer - 1])
    BY <1>2, <2>1 DEF IsHistory
  <2>3. QED
    BY <1>2, <2>2
<1>4. PICK r : r = [n \in 1 .. layer' |-> s[n]]
  OBVIOUS
<1>5. /\ DOMAIN r = 1 .. layer' /\ r[layer'] = s[layer'] /\ r[1] = s[1]
      /\ \A n \in 2 .. layer' : r[n] = s[n] /\ r[n - 1] = s[n - 1] /\ n \in 2 .. layer
  BY <1>1, <1>4, SMTT(60)
<1>6. IsHistory(r)'
  <2>1. \A n \in 2 .. layer' : r[n] = Wrapped(plan[n], r[n - 1])
    BY <1>2, <1>5 DEF IsHistory
  <2>2. QED
    BY <1>1, <1>2, <1>5, <2>1 DEF IsHistory, Serialized
<1>7. layer' # 0 /\ layer # 0 /\ layer' \in 0 .. Len(plan) /\ \A n \in 2 .. layer' : n \in 2 .. layer
  BY <1>1, SMTT(60)
<1>8. QED
  BY <1>1, <1>3, <1>5, <1>6, <1>7 DEF Layered

\* An exception, or the end: only Recovers has to be shown, and that a context is freed.
LEMMA Ended ==
  ASSUME PayInv, outcome' # "running", UNCHANGED <<message, plan, back, key, iv>>,
         step' = 0, ctx' \in {"none", "freed"}, Recovers'
  PROVE  PayInv'
<1>1. IsPlan' /\ Keys' /\ message' \in {"default", "set"}
  BY DEF PayInv, IsPlan, Keys
<1>2. Ciphering'
  BY SMTT(60) DEF Ciphering
<1>3. QED
  BY <1>1, <1>2 DEF PayInv

\* The run goes on: the layers have to be right as well.
LEMMA GoesOn ==
  ASSUME PayInv, outcome = "running", UNCHANGED <<message, plan, outcome>>, Keys', Ciphering', Layered'
  PROVE  PayInv'
<1>1. IsPlan' /\ message' \in {"default", "set"}
  BY DEF PayInv, IsPlan
<1>2. Recovers'
  BY DEF Recovers
<1>3. QED
  BY <1>1, <1>2 DEF PayInv

\* What At says: the layer, by the direction.
LEMMA AtLayer ==
  ASSUME PayInv, NEW l, At(l)
  PROVE  /\ IsPlan /\ Keys /\ Layered /\ outcome = "running" /\ step = 0 /\ ctx \in {"none", "freed"}
         /\ layer \in Nat /\ Len(plan) \in Nat \ {0} /\ layer <= Len(plan) /\ back \in BOOLEAN
         /\ ~back => layer < Len(plan) /\ plan[layer + 1] = l
         /\ back => layer > 0 /\ plan[layer] = l
         /\ l \in Serializers => IF back THEN layer = 1 ELSE layer = 0
         /\ l \notin Serializers => IF back THEN layer > 1 ELSE layer > 0
<1>1. /\ IsPlan /\ Keys /\ Layered /\ outcome = "running" /\ step = 0 /\ ctx \in {"none", "freed"}
      /\ ~back => layer < Len(plan) /\ plan[layer + 1] = l
      /\ back => layer > 0 /\ plan[layer] = l
  BY DEF At, PayInv, Ciphering
<1>2. layer \in Nat /\ Len(plan) \in Nat \ {0} /\ layer <= Len(plan) /\ back \in BOOLEAN
  BY <1>1, SMTT(60) DEF Layered, IsPlan
<1>3. plan[1] \in Serializers /\ \A n \in 2 .. Len(plan) : plan[n] \notin Serializers
  BY <1>1 DEF IsPlan, Serializers
<1>4. QED
  BY <1>1, <1>2, <1>3, SMTT(60)

\* Stays, expanded.
LEMMA StaysAre ==
  ASSUME UNCHANGED Stays
  PROVE  UNCHANGED <<message, plan, back>>
BY DEF Stays

\* The serializer: unknown, failing, or at work.
LEMMA SerializeStep ==
  ASSUME PayInv, Serialize
  PROVE  PayInv'
<1>1. PICK name \in Serializers :
        /\ At(name)
        /\ IF Format(name) = "none" THEN Throw("rejected")
           ELSE Done(Serialized(Format(name))) \/ Throw("failed")
  BY DEF Serialize
<1>2. ~back /\ UNCHANGED <<Stays, key, iv, ctx, step>>
  BY DEF Serialize
<1>3. /\ layer = 0 /\ plan[1] = name /\ layer < Len(plan) /\ outcome = "running" /\ step = 0
      /\ ctx \in {"none", "freed"} /\ IsPlan /\ Keys /\ Layered
  BY <1>1, <1>2, AtLayer, SMTT(60)
<1>4. UNCHANGED <<message, plan, back, key, iv>> /\ step' = 0 /\ ctx' \in {"none", "freed"}
  BY <1>2, <1>3, StaysAre
<1>5. CASE Throw("rejected") /\ Format(name) = "none"
  <2>1. Recovers'
    BY <1>3, <1>4, <1>5 DEF Throw, Recovers, Format
  <2>2. QED
    BY <1>4, <1>5, <2>1, Ended DEF Throw
<1>6. CASE Throw("failed")
  <2>1. Recovers'
    BY <1>6 DEF Throw, Recovers
  <2>2. QED
    BY <1>4, <1>6, <2>1, Ended DEF Throw
<1>7. CASE Done(Serialized(Format(name))) /\ Format(name) # "none"
  <2>1. Keys' /\ Ciphering'
    BY <1>3, <1>4, SMTT(60) DEF Keys, Ciphering
  <2>2. /\ layer' = layer + 1 /\ text' = Serialized(Format(plan[1])) /\ UNCHANGED outcome
        /\ Format(plan[1]) # "none" /\ plan[layer + 1] # "aes"
    BY <1>2, <1>3, <1>7, SMTT(60) DEF Done, Serializers
  <2>3. Layered'
    BY <1>2, <1>3, <2>2, LayerOn, SMTT(60)
  <2>4. QED
    BY <1>3, <1>4, <2>1, <2>2, <2>3, GoesOn
<1>8. QED
  BY <1>1, <1>5, <1>6, <1>7

\* Deserialize sees what Serialize made.
LEMMA DeserializeStep ==
  ASSUME PayInv, Deserialize
  PROVE  PayInv'
<1>1. PICK name \in Serializers :
        /\ At(name)
        /\ outcome' = IF text = <<>> /\ Format(name) = "protobuf" THEN "default"
                      ELSE IF text # <<>> /\ text[1] = Format(name) THEN text[2] ELSE "false"
  BY DEF Deserialize
<1>2. back /\ UNCHANGED <<Stays, key, iv, ctx, step>>
  BY DEF Deserialize
<1>3. layer = 1 /\ plan[1] = name /\ step = 0 /\ ctx \in {"none", "freed"} /\ Layered
  BY <1>1, <1>2, AtLayer
<1>4. UNCHANGED <<message, plan, back, key, iv>> /\ step' = 0 /\ ctx' \in {"none", "freed"}
  BY <1>2, <1>3, StaysAre
<1>5. Format(name) # "none" /\ text = Serialized(Format(name))
  BY <1>3, SMTT(60) DEF Layered, IsHistory
<1>6. Format(name) \in {"protobuf", "json"} /\ message \in {"default", "set"}
  BY <1>5 DEF Format, PayInv
<1>7. outcome' = message
  <2>1. CASE Format(name) = "protobuf" /\ message = "default"
    BY <1>1, <1>5, <2>1 DEF Serialized
  <2>2. CASE ~(Format(name) = "protobuf" /\ message = "default")
    <3>1. text = <<Format(name), message>>
      BY <1>5, <2>2 DEF Serialized
    <3>2. QED
      BY <1>1, <3>1
  <2>3. QED
    BY <2>1, <2>2
<1>8. Recovers' /\ outcome' # "running"
  BY <1>4, <1>6, <1>7 DEF Recovers
<1>9. QED
  BY <1>4, <1>8, Ended

\* compress, of the empty string too.
LEMMA CompressStep ==
  ASSUME PayInv, compress
  PROVE  PayInv'
<1>1. At("zstd") /\ ~back /\ UNCHANGED <<Stays, key, iv, ctx, step>>
  BY DEF compress
<1>2. /\ layer > 0 /\ plan[layer + 1] = "zstd" /\ layer < Len(plan) /\ outcome = "running" /\ step = 0
      /\ ctx \in {"none", "freed"} /\ IsPlan /\ Keys /\ Layered /\ layer # 0
  BY <1>1, AtLayer, SMTT(60) DEF Serializers
<1>3. UNCHANGED <<message, plan, back, key, iv>> /\ step' = 0 /\ ctx' \in {"none", "freed"}
  BY <1>1, <1>2, StaysAre
<1>4. CASE Throw("failed")
  <2>1. Recovers'
    BY <1>4 DEF Throw, Recovers
  <2>2. QED
    BY <1>3, <1>4, <2>1, Ended DEF Throw
<1>5. CASE Done(Wrapped("zstd", text))
  <2>1. Keys' /\ Ciphering'
    BY <1>2, <1>3, SMTT(60) DEF Keys, Ciphering
  <2>2. /\ layer' = layer + 1 /\ text' = Wrapped(plan[layer + 1], text) /\ UNCHANGED outcome
        /\ plan[layer + 1] # "aes"
    BY <1>1, <1>2, <1>5 DEF Done
  <2>3. Layered'
    BY <1>1, <1>2, <2>2, LayerOn
  <2>4. QED
    BY <1>2, <1>3, <2>1, <2>2, <2>3, GoesOn
<1>6. QED
  BY <1>4, <1>5 DEF compress, Wrapped

\* decompress finds the frame, or the empty string, that compress made.
LEMMA DecompressStep ==
  ASSUME PayInv, decompress
  PROVE  PayInv'
<1>1. At("zstd") /\ back /\ UNCHANGED <<Stays, key, iv, ctx, step>>
  BY DEF decompress
<1>2. /\ layer > 1 /\ plan[layer] = "zstd" /\ outcome = "running" /\ step = 0
      /\ ctx \in {"none", "freed"} /\ IsPlan /\ Keys /\ Layered /\ layer \in Nat
  BY <1>1, AtLayer, SMTT(60) DEF Serializers
<1>3. UNCHANGED <<message, plan, back, key, iv>> /\ step' = 0 /\ ctx' \in {"none", "freed"}
  BY <1>1, <1>2, StaysAre
<1>4. PICK t : text = Wrapped("zstd", t)
  <2>1. PICK s : IsHistory(s) /\ text = s[layer]
    BY <1>2, SMTT(60) DEF Layered
  <2>2. layer \in 2 .. layer
    BY <1>2, SMTT(60)
  <2>3. QED
    BY <1>2, <2>1, <2>2 DEF IsHistory
<1>5. text = <<>> \/ IsFrame
  BY <1>4 DEF Wrapped, IsFrame
<1>6. CASE Throw("failed")
  <2>1. Recovers'
    BY <1>6 DEF Throw, Recovers
  <2>2. QED
    BY <1>3, <1>6, <2>1, Ended DEF Throw
<1>7. CASE Done(IF text = <<>> THEN <<>> ELSE text[2])
  <2>1. Keys' /\ Ciphering'
    BY <1>2, <1>3, SMTT(60) DEF Keys, Ciphering
  <2>2. layer' = layer - 1 /\ text' = (IF text = <<>> THEN <<>> ELSE text[2]) /\ UNCHANGED outcome
    BY <1>1, <1>7 DEF Done
  <2>3. ASSUME NEW u, text = Wrapped(plan[layer], u) PROVE text' = u
    BY <1>2, <2>2, <2>3 DEF Wrapped
  <2>4. Layered'
    BY <1>1, <1>2, <2>2, <2>3, LayerOff
  <2>5. QED
    BY <1>2, <1>3, <2>1, <2>2, <2>4, GoesOn
<1>8. QED
  BY <1>5, <1>6, <1>7 DEF decompress, IsFrame

\* The layers stay as they are, the keys or the direction may not.
LEMMA LayersStay ==
  ASSUME Layered, UNCHANGED <<message, plan, layer, text>>, back' \in BOOLEAN, layer = 0 => ~back',
         \A n \in 2 .. layer : plan[n] = "aes" => key'.size = 32 /\ iv'.size = 12
  PROVE  Layered'
<1>1. ASSUME NEW s, IsHistory(s) PROVE IsHistory(s)'
  BY <1>1 DEF IsHistory, Serialized
<1>2. QED
  BY <1>1 DEF Layered

\* A key and an IV come when there were none, so nothing is encrypted yet.
LEMMA GenerateStep ==
  ASSUME PayInv, generate
  PROVE  PayInv'
<1>1. /\ outcome = "running" /\ key.size = 0 /\ UNCHANGED <<Stays, layer, text, ctx, step>>
      /\ Keys /\ Ciphering /\ Layered
  BY DEF generate, PayInv
<1>2. UNCHANGED <<message, plan, back, layer, text, ctx, step>>
  BY <1>1, StaysAre
<1>3. step = 0 /\ ctx \in {"none", "freed"}
  BY <1>1, SMTT(60) DEF Ciphering
<1>4. CASE outcome' = "failed" /\ UNCHANGED <<key, iv>>
  <2>1. Recovers'
    BY <1>4 DEF Recovers
  <2>2. QED
    BY <1>2, <1>3, <1>4, <2>1, Ended
<1>5. ASSUME NEW k \in {31, 32}, NEW v \in {12, 16}, UNCHANGED outcome,
             key' = [size |-> k, id |-> 1], iv' = [size |-> v, id |-> 1]
      PROVE  PayInv'
  <2>1. Keys'
    BY <1>5, SMTT(60) DEF Keys
  <2>2. Ciphering'
    BY <1>2, <1>3, SMTT(60) DEF Ciphering
  <2>3. \A n \in 2 .. layer : plan[n] # "aes"
    BY <1>1, SMTT(60) DEF Layered
  <2>4. Layered'
    BY <1>1, <1>2, <2>3, LayersStay DEF Layered
  <2>5. QED
    BY <1>1, <1>2, <1>5, <2>1, <2>2, <2>4, GoesOn
<1>6. QED
  BY <1>4, <1>5, SMTT(60) DEF generate

\* Another key of the same size, and the turn to the way back.
LEMMA RekeyStep ==
  ASSUME PayInv, Rekey
  PROVE  PayInv'
<1>1. /\ outcome = "running" /\ step = 0 /\ back /\ UNCHANGED <<Stays, iv, layer, text, ctx, step, outcome>>
      /\ key.id = 1 /\ key' = [key EXCEPT !.id = 2] /\ Keys /\ Ciphering /\ Layered
  BY DEF Rekey, PayInv
<1>2. UNCHANGED <<message, plan, back, layer, text, ctx, step, outcome, iv>>
  BY <1>1, StaysAre
<1>3. key'.size = key.size /\ key'.id = 2 /\ key' = [size |-> key'.size, id |-> key'.id]
  BY <1>1 DEF Keys
<1>4. Keys'
  BY <1>1, <1>2, <1>3, SMTT(60) DEF Keys
<1>5. Ciphering'
  BY <1>1, <1>2, SMTT(60) DEF Ciphering
<1>6. Layered'
  BY <1>1, <1>2, <1>3, LayersStay DEF Layered
<1>7. QED
  BY <1>1, <1>2, <1>4, <1>5, <1>6, GoesOn

\* There is at least the serializer to undo.
LEMMA TurnStep ==
  ASSUME PayInv, Turn
  PROVE  PayInv'
<1>1. /\ outcome = "running" /\ step = 0 /\ layer = Len(plan) /\ back' = TRUE
      /\ UNCHANGED <<message, plan, layer, key, iv, text, ctx, step, outcome>>
      /\ Keys /\ Ciphering /\ Layered /\ IsPlan
  BY DEF Turn, PayInv
<1>2. Keys' /\ Ciphering'
  BY <1>1, SMTT(60) DEF Keys, Ciphering
<1>3. layer # 0
  BY <1>1 DEF IsPlan
<1>4. Layered'
  BY <1>1, <1>3, LayersStay DEF Layered
<1>5. QED
  BY <1>1, <1>2, <1>4, GoesOn

\* The checks of the sizes: a wrong one is rejected, a right one gets a context.
LEMMA BeginStep ==
  ASSUME PayInv, BeginCipher
  PROVE  PayInv'
<1>1. At("aes") /\ key.size > 0 /\ UNCHANGED <<Stays, key, iv>>
  BY DEF BeginCipher
<1>2. /\ outcome = "running" /\ step = 0 /\ ctx \in {"none", "freed"} /\ IsPlan /\ Keys /\ Layered
      /\ IF back THEN layer > 0 /\ plan[layer] = "aes" ELSE layer < Len(plan) /\ plan[layer + 1] = "aes"
  BY <1>1, AtLayer
<1>3. UNCHANGED <<message, plan, back, key, iv>>
  BY <1>1, StaysAre
<1>4. CASE Throw(IF key.size = 32 /\ iv.size = 12 THEN "failed" ELSE "rejected") /\ UNCHANGED <<ctx, step>>
  <2>1. outcome' = IF key.size = 32 /\ iv.size = 12 THEN "failed" ELSE "rejected"
    BY <1>4 DEF Throw
  <2>2. Recovers'
    BY <1>3, <2>1 DEF Recovers
  <2>3. step' = 0 /\ ctx' \in {"none", "freed"} /\ outcome' # "running"
    BY <1>2, <1>4, <2>1
  <2>4. QED
    BY <1>3, <2>2, <2>3, Ended
<1>5. CASE key.size = 32 /\ iv.size = 12 /\ ctx' = "live" /\ step' = 1 /\ UNCHANGED <<outcome, text, layer>>
  <2>1. Keys'
    BY <1>2, <1>3 DEF Keys
  <2>2. Ciphering'
    BY <1>2, <1>3, <1>5, SMTT(60) DEF Ciphering
  <2>3. Layered'
    BY <1>2, <1>3, <1>5, LayersStay DEF Layered
  <2>4. QED
    BY <1>2, <1>3, <1>5, <2>1, <2>2, <2>3, GoesOn
<1>6. QED
  BY <1>4, <1>5 DEF BeginCipher

\* While a call of the cipher is next, its context is live.
LEMMA InCipher ==
  ASSUME PayInv, step > 0
  PROVE  /\ outcome = "running" /\ ctx = "live" /\ IsPlan /\ Keys /\ Layered /\ step \in 1 .. 6
         /\ key.size = 32 /\ iv.size = 12
         /\ layer \in Nat /\ Len(plan) \in Nat \ {0}
         /\ ~back => layer > 0 /\ layer < Len(plan) /\ plan[layer + 1] = "aes"
         /\ back => layer > 1 /\ plan[layer] = "aes"
<1>1. /\ step \in 1 .. 6 /\ ctx = "live" /\ outcome = "running" /\ key.size = 32 /\ iv.size = 12
      /\ IF back THEN layer > 0 /\ plan[layer] = "aes" ELSE layer < Len(plan) /\ plan[layer + 1] = "aes"
  BY SMTT(60) DEF PayInv, Ciphering
<1>2. IsPlan /\ Keys /\ Layered
  BY <1>1 DEF PayInv
<1>3. layer \in Nat /\ Len(plan) \in Nat \ {0} /\ plan[1] # "aes"
  BY <1>2, SMTT(60) DEF Layered, IsPlan, Serializers
<1>4. QED
  BY <1>1, <1>2, <1>3, SMTT(60)

\* A call that fails frees the context it had.
LEMMA CipherFailsStep ==
  ASSUME PayInv, CipherFails
  PROVE  PayInv'
<1>1. step > 0 /\ Free /\ step' = 0 /\ Throw("failed") /\ UNCHANGED <<Stays, key, iv>>
  BY DEF CipherFails
<1>2. ctx' = "freed"
  BY <1>1, InCipher DEF Free
<1>3. Recovers' /\ outcome' # "running"
  BY <1>1 DEF Throw, Recovers
<1>4. UNCHANGED <<message, plan, back, key, iv>>
  BY <1>1, StaysAre
<1>5. QED
  BY <1>1, <1>2, <1>3, <1>4, Ended

\* A result that cannot be allocated leaves the context behind.
LEMMA NoMemoryStep ==
  ASSUME PayInv, NoMemory
  PROVE  PayInv'
<1>1. step > 0 /\ ctx' = "leaked" /\ step' = 0 /\ Throw("no_memory") /\ UNCHANGED <<Stays, key, iv>>
  BY SMTT(60) DEF NoMemory
<1>2. UNCHANGED <<message, plan, back, key, iv>> /\ outcome' = "no_memory"
  BY <1>1, StaysAre DEF Throw
<1>3. Recovers' /\ outcome' # "running"
  BY <1>2 DEF Recovers
<1>4. IsPlan' /\ Keys' /\ message' \in {"default", "set"}
  BY <1>2 DEF PayInv, IsPlan, Keys
<1>5. Ciphering'
  BY <1>1, <1>2, SMTT(60) DEF Ciphering
<1>6. QED
  BY <1>3, <1>4, <1>5 DEF PayInv

\* One EVP call after the other.
LEMMA CipherCallStep ==
  ASSUME PayInv, CipherCall
  PROVE  PayInv'
<1>1. step > 0 /\ step < 6 /\ step' = step + 1 /\ UNCHANGED <<Stays, key, iv, layer, text, ctx, outcome>>
  BY DEF CipherCall, DecryptCalls, EncryptCalls, PayInv, Ciphering
<1>2. UNCHANGED <<message, plan, back, key, iv, layer, text, ctx, outcome>>
  BY <1>1, StaysAre
<1>3. outcome = "running" /\ Keys /\ Layered /\ Ciphering
  BY <1>1, InCipher DEF PayInv
<1>4. Keys'
  BY <1>2, <1>3 DEF Keys
<1>5. Ciphering'
  BY <1>1, <1>2, <1>3, SMTT(60) DEF Ciphering
<1>6. Layered'
  BY <1>2, <1>3, LayersStay DEF Layered
<1>7. QED
  BY <1>2, <1>3, <1>4, <1>5, <1>6, GoesOn

\* The last call frees the context; the tag fits unless the key is another one.
LEMMA CipherEndsStep ==
  ASSUME PayInv, CipherEnds
  PROVE  PayInv'
<1>1. step = 6 /\ Free /\ step' = 0 /\ UNCHANGED <<Stays, key, iv>>
  BY DEF CipherEnds
<1>2. UNCHANGED <<message, plan, back, key, iv>>
  BY <1>1, StaysAre
<1>3. /\ outcome = "running" /\ ctx = "live" /\ IsPlan /\ Keys /\ Layered
      /\ key.size = 32 /\ iv.size = 12 /\ iv.id = 1 /\ key.id \in {1, 2} /\ (key.id = 2 => back)
      /\ layer \in Nat /\ Len(plan) \in Nat \ {0}
      /\ ~back => layer > 0 /\ layer < Len(plan) /\ plan[layer + 1] = "aes"
      /\ back => layer > 1 /\ plan[layer] = "aes"
  BY <1>1, InCipher, SMTT(60) DEF Keys
<1>4. ctx' = "freed"
  BY <1>1, <1>3 DEF Free
<1>5. Keys' /\ Ciphering'
  <2>1. Keys'
    BY <1>2, <1>3 DEF Keys
  <2>2. Ciphering'
    BY <1>1, <1>4, SMTT(60) DEF Ciphering
  <2>3. QED
    BY <2>1, <2>2
<1>6. CASE ~back
  <2>1. Done(<<"aes", 1, 1, text>>)
    BY <1>3, <1>6 DEF CipherEnds
  <2>2. /\ layer' = layer + 1 /\ text' = Wrapped(plan[layer + 1], text) /\ UNCHANGED outcome
        /\ layer # 0 /\ key'.size = 32 /\ iv'.size = 12
    BY <1>2, <1>3, <1>6, <2>1, SMTT(60) DEF Done, Wrapped
  <2>3. Layered'
    BY <1>1, <1>3, <1>6, <2>2, LayerOn
  <2>4. QED
    BY <1>2, <1>3, <1>5, <2>2, <2>3, GoesOn
<1>7. CASE back
  <2>1. PICK t : text = <<"aes", 1, 1, t>>
    <3>1. PICK s : IsHistory(s) /\ text = s[layer]
      BY <1>3, <1>7 DEF Layered
    <3>2. layer \in 2 .. layer
      BY <1>3, <1>7, SMTT(60)
    <3>3. QED
      BY <1>3, <1>7, <3>1, <3>2 DEF IsHistory, Wrapped
  <2>2. text[2] = 1 /\ text[3] = 1 /\ text[4] = t
    BY <2>1
  <2>3. CASE Authentic
    <3>1. Done(t)
      BY <1>7, <2>2, <2>3 DEF CipherEnds
    <3>2. layer' = layer - 1 /\ text' = t /\ UNCHANGED outcome
      BY <1>7, <3>1 DEF Done
    <3>3. ASSUME NEW u, text = Wrapped(plan[layer], u) PROVE text' = u
      <4>1. text = <<"aes", 1, 1, u>>
        BY <1>3, <1>7, <3>3 DEF Wrapped
      <4>2. text[4] = u
        BY <4>1
      <4>3. QED
        BY <2>2, <3>2, <4>2
    <3>4. Layered'
      BY <1>1, <1>3, <1>7, <3>2, <3>3, LayerOff
    <3>5. QED
      BY <1>2, <1>3, <1>5, <3>2, <3>4, GoesOn
  <2>4. CASE ~Authentic
    <3>1. key.id = 2
      BY <1>3, <2>2, <2>4 DEF Authentic
    <3>2. outcome' = "rejected"
      BY <1>7, <2>4 DEF CipherEnds, Throw
    <3>3. Recovers'
      BY <1>2, <3>1, <3>2 DEF Recovers
    <3>4. QED
      BY <1>1, <1>2, <1>4, <3>2, <3>3, Ended
  <2>5. QED
    BY <2>3, <2>4
<1>8. QED
  BY <1>6, <1>7

\* The invariant holds of every behaviour of the layers.
LEMMA PayInvariant == PaySpec => []PayInv
<1>1. PayInv /\ UNCHANGED payVars => PayInv'
  <2> SUFFICES ASSUME PayInv, UNCHANGED payVars PROVE PayInv'
    OBVIOUS
  <2>1. UNCHANGED <<message, plan, layer, back, key, iv, text, ctx, step, outcome>>
    BY DEF payVars
  <2>2. IsPlan' /\ Keys' /\ Ciphering' /\ Recovers' /\ message' \in {"default", "set"}
    BY <2>1 DEF PayInv, IsPlan, Keys, Ciphering, Recovers, Format
  <2>3. outcome = "running" => Layered'
    BY <2>1, LayersStay DEF PayInv, Layered
  <2>4. QED
    BY <2>1, <2>2, <2>3 DEF PayInv
<1>2. PayInv /\ [PayNext]_payVars => PayInv'
  BY <1>1, SerializeStep, DeserializeStep, CompressStep, DecompressStep, GenerateStep, RekeyStep,
     TurnStep, BeginStep, CipherCallStep, CipherFailsStep, NoMemoryStep, CipherEndsStep DEF PayNext
<1>3. QED
  BY <1>2, PayBegins, PTL DEF PaySpec

\* Whatever stack of layers a program uses and whatever fails, the message comes back.
THEOREM LayersRecover == PaySpec => []Recovers
<1>1. PayInv => Recovers
  BY DEF PayInv
<1>2. QED
  BY <1>1, PayInvariant, PTL

\* And every context is freed exactly once, unless the memory for a result was missing.
THEOREM LayersRelease == PaySpec => []ContextReleased
<1>1. PayInv => ContextReleased
  BY DEF PayInv, Ciphering, ContextReleased
<1>2. QED
  BY <1>1, PayInvariant, PTL

-------------------------------------------------------------------------------
(* The globals *)

Places == {"idle", "enter", "build", "configure", "get", "threw"}

Types ==
  /\ what \in {"logger", "pool"} /\ first \in BOOLEAN /\ down \in BOOLEAN
  /\ once \in {"fresh", "running", "done"} /\ ptr \in {"null", "partial", "complete"}
  /\ made \in Nat /\ failed \in Nat
  /\ tpc \in [Threads -> Places] /\ gets \in [Threads -> BOOLEAN]
  /\ held \in [Threads -> {"nothing", "null", "partial", "complete"}]

Building(t) == tpc[t] \in {"build", "configure"}

\* One thread is in the initializer, and only while the flag is running; before it
\* has assigned the pointer, every object made is one whose initializer threw.  A
\* flag that is done has an object behind it, unless that was shut down, and an
\* object that is not configured is a logger.
Flag ==
  /\ \A t \in Threads : Building(t) => once = "running"
  /\ \A t, u \in Threads : Building(t) /\ Building(u) => t = u
  /\ \A t \in Threads : tpc[t] = "build" => made <= failed
  /\ \A t \in Threads : tpc[t] = "configure" => what = "logger"
  /\ once = "fresh" => made <= failed
  /\ once = "done" => ptr = "complete" \/ (ptr = "null" /\ down)
  /\ ptr = "partial" => what = "logger" /\ ~first
  /\ first => once = "done"
  /\ down => what = "pool"
  /\ \A t \in Threads : tpc[t] = "get" => ptr # "null" \/ down

\* The inductive invariant.
GInv == Types /\ Flag /\ GotUsable

\* Before the threads start, made or not, the global is as the invariant says.
LEMMA InitGInv == GlobInit => GInv
<1> SUFFICES ASSUME GlobInit PROVE GInv
  OBVIOUS
<1>1. Types
  <2>1. once \in {"fresh", "running", "done"} /\ ptr \in {"null", "partial", "complete"}
        /\ made \in Nat /\ failed \in Nat
    BY SMTT(60) DEF GlobInit
  <2>2. QED
    BY <2>1 DEF GlobInit, Types, Places
<1>2. Flag /\ GotUsable
  BY SMTT(60) DEF GlobInit, Flag, Building, GotUsable
<1>3. QED
  BY <1>1, <1>2 DEF GInv

\* Calling init, instance() or get_logger(), and shutdown(), keep it.
LEMMA CallStep ==
  ASSUME GInv, NEW t \in Threads, init(t) \/ instance(t) \/ get_logger(t)
  PROVE  GInv'
<1>1. PICK to \in {"enter", "get"}, g \in BOOLEAN : Calls(t, to, g)
        /\ (to = "get" => ptr # "null")
  BY DEF init, instance, get_logger
<1>2. Types'
  BY <1>1 DEF Calls, Goes, GInv, Types, Places
<1>3. /\ \A u \in Threads : tpc'[u] = IF u = t THEN to ELSE tpc[u]
      /\ \A u \in Threads : held'[u] = IF u = t THEN "nothing" ELSE held[u]
  BY <1>1 DEF Calls, Goes, GInv, Types
<1>4. Flag' /\ GotUsable'
  BY <1>1, <1>3, SMTT(60) DEF Calls, GInv, Flag, Building, GotUsable
<1>5. QED
  BY <1>2, <1>4 DEF GInv

\* So does shutdown(), which leaves the flag done and the pool gone.
LEMMA ShutdownStep ==
  ASSUME GInv, shutdown
  PROVE  GInv'
BY DEF shutdown, GInv, Types, Flag, Building, GotUsable

\* So does what happens inside call_once, an exception included, and the read of
\* the pointer after it.
LEMMA InitializerStep ==
  ASSUME GInv, NEW t \in Threads, InCall(t)
  PROVE  GInv'
<1>1. PICK to \in Places : Goes(t, to)
  BY DEF InCall, EnterOnce, Build, BuildThrows, Configure, ConfigureThrows, Get, After, Places
<1>2. \A u \in Threads : tpc'[u] = IF u = t THEN to ELSE tpc[u]
  BY <1>1 DEF Goes, GInv, Types
<1>3. tpc'[t] = to /\ tpc' \in [Threads -> Places]
  BY <1>1 DEF Goes, GInv, Types
<1>4. CASE EnterOnce(t)
  BY <1>2, <1>3, <1>4 DEF EnterOnce, Goes, After, GInv, Types, Flag, Building, GotUsable
<1>5. CASE Build(t)
  BY <1>2, <1>3, <1>5, SMTT(60) DEF Build, Goes, After, GInv, Types, Flag, Building, GotUsable
<1>6. CASE BuildThrows(t)
  BY <1>2, <1>3, <1>6 DEF BuildThrows, Goes, GInv, Types, Flag, Building, GotUsable
<1>7. CASE Configure(t)
  BY <1>2, <1>3, <1>7, SMTT(60) DEF Configure, Goes, After, GInv, Types, Flag, Building, GotUsable
<1>8. CASE Get(t)
  <2>1. \A u \in Threads : held'[u] = IF u = t THEN ptr ELSE held[u]
    BY <1>8 DEF Get, GInv, Types
  <2>2. Types'
    BY <1>3, <1>8 DEF Get, GInv, Types
  <2>3. Flag' /\ GotUsable'
    BY <1>2, <1>3, <1>8, <2>1, SMTT(60) DEF Get, Goes, GInv, Types, Flag, Building, GotUsable
  <2>4. QED
    BY <2>2, <2>3 DEF GInv
<1>9. CASE ConfigureThrows(t)
  BY <1>2, <1>3, <1>9, SMTT(60) DEF ConfigureThrows, Goes, GInv, Types, Flag, Building, GotUsable
<1>10. QED
  BY <1>4, <1>5, <1>6, <1>7, <1>8, <1>9 DEF InCall

\* However many threads come first and however initializers fail, one object is made
\* besides those whose initializer threw;
\* a thread gets none only after shutdown(), and one that is not configured only
\* where the program did not initialize the logger before it started its threads.
THEOREM GlobalsUsable == GlobSpec => []GotUsable
<1>1. GInv /\ UNCHANGED globVars => GInv'
  BY SMTT(60) DEF GInv, Types, Flag, Building, GotUsable, globVars
<1>2. GInv /\ [GlobNext]_globVars => GInv'
  BY <1>1, CallStep, ShutdownStep, InitializerStep DEF GlobNext
<1>3. GInv => GotUsable
  BY DEF GInv
<1>4. QED
  BY <1>2, <1>3, InitGInv, PTL, ZenonT(60) DEF GlobSpec

-------------------------------------------------------------------------------
(* The start of the programs *)

\* Any command line and any file.
AnyArg == [kind : OptionNames \cup {"number", "text"}, num : Int]
AnyFile == Files(FileKinds, SUBSET (1 .. 7), 0 .. 7, SUBSET ServerKeys, Int, Int)

AnyStart == Begin /\ argv \in Seq(AnyArg) /\ file \in AnyFile

\* The last o among the arguments before p is the n-th; 0 if there is none.
IsLast(o, p, n) ==
  /\ n \in 0 .. Len(argv) /\ (n = 0 \/ Given(o, n))
  /\ \A q \in 1 .. p - 1 : Given(o, q) => q <= n

\* What the command line's port is when that is the n-th argument's.
PortArg(n) ==
  IF n = 0 THEN ~portSet /\ argPort = IF prog = "server" THEN 0 ELSE DefaultPort
  ELSE portSet = (prog = "client") /\ argPort = argv[n + 1].num % PortMod

\* The arguments before p have been read.
ArgsRead(p) ==
  /\ \E n \in 0 .. Len(argv) : IsLast("--port", p, n) /\ PortArg(n)
  /\ IsLast("--config", p, config)

\* The first k sections have been read, if there is a file to read.
SectionsRead(k) ==
  /\ cfg = [s \in 1 .. 7 |-> IF file.kind = "object" /\ s <= k /\ s \in file.given THEN "file" ELSE "default"]
  /\ port = IF file.kind = "object" /\ 1 <= k /\ 1 \in file.given THEN SectionPort ELSE DefaultPort
  /\ file.kind = "object" => \A s \in file.given : s <= k => file.wrong # s

\* What the port comes to when the last --port is the n-th argument.
PortFrom(n) ==
  IF n > 0 /\ (prog = "client" \/ argv[n + 1].num % PortMod > 0) THEN argv[n + 1].num % PortMod
  ELSE IF FromFile THEN SectionPort ELSE DefaultPort

\* What the command line and the file say.
PortTold == \E n \in 0 .. Len(argv) : IsLast("--port", Len(argv) + 1, n) /\ port = PortFrom(n)

CfgTold ==
  /\ cfg = [s \in 1 .. 7 |-> IF file.kind = "object" /\ s \in file.given THEN "file" ELSE "default"]
  /\ file.kind = "object" => file.wrong \notin file.given

PoolTold == IF FromFile THEN SectionPool ELSE DefaultPool

Inputs ==
  /\ prog \in {"server", "client"} /\ stress \in BOOLEAN /\ portSet \in BOOLEAN
  /\ prog = "server" => ~stress
  /\ Len(argv) \in Nat /\ \A n \in 1 .. Len(argv) : argv[n].num \in Int
  /\ file.given \subseteq 1 .. 7 /\ file.pool \in Int

\* The inductive invariant: what has been read, at each place.
BootInv ==
  /\ Inputs
  /\ bpc \in {"args", "load", "section", "override", "logger", "pool", "register", "started", "help", "threw"}
  /\ bpc = "args" => i \in 1 .. Len(argv) + 1 /\ OptionAt(i) /\ ArgsRead(i) /\ SectionsRead(0)
  /\ bpc \notin {"args", "help", "threw"} => ArgsRead(Len(argv) + 1)
  /\ bpc \in {"load", "section", "override", "logger", "pool", "register"} => ~stress
  /\ bpc = "load" => SectionsRead(0)
  /\ bpc = "section" => file.kind = "object" /\ i \in 1 .. 8 /\ SectionsRead(i - 1)
  /\ bpc = "override" => SectionsRead(7)
  /\ bpc \in {"logger", "pool", "register"} \/ (bpc = "started" /\ ~stress) => CfgTold
  /\ bpc \in {"logger", "pool", "register", "started"} => PortTold
  /\ bpc \in {"pool", "register"} => prog = "server"
  /\ bpc = "register" \/ (bpc = "started" /\ prog = "server") =>
       workers > 0 /\ (PoolTold # 0 => workers = PoolTold)

\* Record sets grow with the sets of their fields.
LEMMA MoreFiles ==
  ASSUME NEW k \in SUBSET FileKinds, NEW g \in SUBSET (SUBSET (1 .. 7)), NEW w \in SUBSET (0 .. 7),
         NEW h \in SUBSET (SUBSET ServerKeys), NEW p \in SUBSET Int, NEW n \in SUBSET Int,
         file \in Files(k, g, w, h, p, n)
  PROVE  file \in AnyFile
BY DEF Files, AnyFile

\* The starts that are model-checked are among them.
LEMMA Restricted ==
  ASSUME BootInit
  PROVE  AnyStart
<1>1. Begin
  BY DEF BootInit
<1>2. SomeArgs \subseteq AnyArg
  <2>1. PortMod \in Int /\ PortMod + 3 \in Int /\ -1 \in Int /\ 0 \in Int /\ 3 \in Int
    BY BootAssumption, SMTT(60)
  <2>2. \A k \in OptionNames \cup {"text"} : Arg(k) \in AnyArg
    BY <2>1 DEF Arg, AnyArg
  <2>3. \A n \in Int : NumArg(n) \in AnyArg
    BY DEF NumArg, AnyArg
  <2>4. \A n \in {-1, 0, 3, PortMod, PortMod + 3} : n \in Int
    BY <2>1
  <2>5. QED
    BY <2>2, <2>3, <2>4 DEF SomeArgs
<1>3. {Arg("--port"), Arg("--config"), NumArg(3)} \subseteq AnyArg
  <2>1. 3 \in Int /\ 0 \in Int
    BY SMTT(60)
  <2>2. QED
    BY <2>1 DEF Arg, NumArg, AnyArg, OptionNames
<1>4. PICK T : T = AnyArg
  OBVIOUS
<1>5. ASSUME NEW S \in SUBSET T, NEW n \in Nat, argv \in [1 .. n -> S] PROVE argv \in Seq(T)
  <2>1. argv \in [1 .. n -> T]
    BY <1>5
  <2>2. QED
    BY <2>1, SMTT(60)
<1>6. argv \in Seq(T)
  <2>1. CASE argv = <<>>
    BY <2>1, SMTT(60)
  <2>2. CASE \E n \in 1 .. 3 : argv \in [1 .. n -> SomeArgs]
    <3>1. PICK n \in 1 .. 3 : argv \in [1 .. n -> SomeArgs]
      BY <2>2
    <3>2. n \in Nat
      BY SMTT(60)
    <3>3. QED
      BY <1>2, <1>4, <1>5, <3>1, <3>2
  <2>3. CASE \E n \in 4 .. 5 : argv \in [1 .. n -> {Arg("--port"), Arg("--config"), NumArg(3)}]
    <3>1. PICK n \in 4 .. 5 : argv \in [1 .. n -> {Arg("--port"), Arg("--config"), NumArg(3)}]
      BY <2>3
    <3>2. n \in Nat
      BY SMTT(60)
    <3>3. QED
      BY <1>3, <1>4, <1>5, <3>1, <3>2
  <2>4. QED
    BY <2>1, <2>2, <2>3 DEF BootInit
<1>7. file \in AnyFile
  <2>1. PortMod + 3 \in Int /\ -1 \in Int /\ 0 \in Int /\ 2 \in Int /\ 1 \in 1 .. 7 /\ 0 \in 0 .. 7
    BY BootAssumption, SMTT(60)
  <2>2. PICK k, g, w : k = {"object"} /\ g = {{1}} /\ w = {0}
    OBVIOUS
  <2>6. PICK z \in SUBSET Int : z = {0}
    BY <2>1
  <2>7. k \subseteq FileKinds /\ g \subseteq SUBSET (1 .. 7) /\ w \subseteq 0 .. 7
    BY <2>1, <2>2 DEF FileKinds
  <2>3. CASE file \in Files({"object"}, SUBSET (1 .. 7), 0 .. 7, {{}}, {0}, {0})
    <3>1. PICK h \in SUBSET (SUBSET ServerKeys) : h = {{}}
      OBVIOUS
    <3>2. file \in Files(k, SUBSET (1 .. 7), 0 .. 7, h, z, z)
      BY <2>2, <2>3, <2>6, <3>1
    <3>3. QED
      BY <2>7, <3>2, MoreFiles
  <2>4. CASE file \in Files({"object"}, {{1}}, {0}, SUBSET ServerKeys, {-1, 2, PortMod + 3}, {-1, 0, 2})
    <3>1. PICK p \in SUBSET Int, n \in SUBSET Int : p = {-1, 2, PortMod + 3} /\ n = {-1, 0, 2}
      BY <2>1
    <3>2. file \in Files(k, g, w, SUBSET ServerKeys, p, n)
      BY <2>2, <2>4, <3>1
    <3>3. QED
      BY <2>7, <3>2, MoreFiles
  <2>5. CASE file \in Files(FileKinds, {{1}}, {0}, {{"port"}}, {2}, {0})
    <3>1. PICK h \in SUBSET (SUBSET ServerKeys), p \in SUBSET Int : h = {{"port"}} /\ p = {2}
      BY <2>1 DEF ServerKeys
    <3>2. file \in Files(FileKinds, g, w, h, p, z)
      BY <2>2, <2>5, <2>6, <3>1
    <3>3. QED
      BY <2>7, <3>2, MoreFiles
  <2>8. QED
    BY <2>3, <2>4, <2>5 DEF BootInit
<1>8. QED
  BY <1>1, <1>4, <1>6, <1>7 DEF AnyStart

\* main begins with nothing read.
LEMMA BootBegins ==
  ASSUME AnyStart
  PROVE  BootInv
<1>1. Begin /\ Len(argv) \in Nat /\ \A n \in 1 .. Len(argv) : argv[n].num \in Int
  <2>1. PICK T : T = AnyArg
    OBVIOUS
  <2>2. Begin /\ argv \in Seq(T)
    BY <2>1 DEF AnyStart
  <2>3. Len(argv) \in Nat /\ \A n \in 1 .. Len(argv) : argv[n] \in T
    BY <2>2, SMTT(60)
  <2>4. \A x \in T : x.num \in Int
    BY <2>1 DEF AnyArg
  <2>5. QED
    BY <2>2, <2>3, <2>4
<1>2. file.given \subseteq 1 .. 7 /\ file.pool \in Int
  BY DEF AnyStart, AnyFile, Files
<1>3. Inputs
  BY <1>1, <1>2 DEF Begin, Inputs
<1>4. ArgsRead(1)
  <2>1. 0 \in 0 .. Len(argv) /\ 1 .. 1 - 1 = {}
    BY <1>1, SMTT(60)
  <2>2. \A o : IsLast(o, 1, 0)
    BY <2>1 DEF IsLast
  <2>3. PortArg(0) /\ config = 0
    BY <1>1 DEF Begin, PortArg
  <2>4. QED
    BY <2>1, <2>2, <2>3 DEF ArgsRead
<1>5. SectionsRead(0)
  <2>1. cfg = [s \in 1 .. 7 |-> "default"]
    BY <1>1 DEF Begin, Sections
  <2>2. \A s \in 1 .. 7 : ~(s <= 0)
    BY SMTT(60)
  <2>3. ~(1 <= 0)
    BY SMTT(60)
  <2>4. QED
    BY <1>1, <1>2, <2>1, <2>2, <2>3 DEF Begin, SectionsRead
<1>6. bpc = "args" /\ i = 1 /\ i \in 1 .. Len(argv) + 1
  BY <1>1, SMTT(60) DEF Begin
<1>7. OptionAt(1)
  BY SMTT(60) DEF OptionAt
<1>8. QED
  BY <1>3, <1>4, <1>5, <1>6, <1>7 DEF BootInv

\* After an option comes the next one, and a value between them is none.
LEMMA NextOption ==
  ASSUME Len(argv) \in Nat, NEW p \in 1 .. Len(argv), OptionAt(p)
  PROVE  OptionAt(Past(p)) /\ (Takes(p) => ~OptionAt(p + 1))
<1>1. PICK m \in 0 .. p - 1, k \in 0 .. p :
        (m = 0 \/ ~Takes(m)) /\ (\A q \in m + 1 .. p - 1 : Takes(q)) /\ p = m + 1 + 2 * k
  BY DEF OptionAt
<1>2. ASSUME NEW q \in Nat, ~Takes(q) PROVE OptionAt(q + 1)
  <2>1. q \in 0 .. (q + 1) - 1 /\ q + 1 .. (q + 1) - 1 = {} /\ 0 \in 0 .. q + 1 /\ q + 1 = q + 1 + 2 * 0
    BY SMTT(60)
  <2>2. QED
    BY <1>2, <2>1 DEF OptionAt
<1>3. CASE ~Takes(p)
  <2>1. p \in Nat
    BY SMTT(60)
  <2>2. QED
    BY <1>2, <1>3, <2>1 DEF Past
<1>4. CASE Takes(p)
  <2>1. OptionAt(p + 2)
    <3>1. CASE Takes(p + 1)
      <4>1. \A q \in m + 1 .. (p + 2) - 1 : q \in m + 1 .. p - 1 \/ q = p \/ q = p + 1
        BY SMTT(60)
      <4>2. \A q \in m + 1 .. (p + 2) - 1 : Takes(q)
        BY <1>1, <1>4, <3>1, <4>1
      <4>3. m \in 0 .. (p + 2) - 1 /\ k + 1 \in 0 .. p + 2 /\ p + 2 = m + 1 + 2 * (k + 1)
        BY <1>1, SMTT(60)
      <4>4. QED
        BY <1>1, <4>2, <4>3 DEF OptionAt
    <3>2. CASE ~Takes(p + 1)
      <4>1. p + 1 \in Nat /\ (p + 1) + 1 = p + 2
        BY SMTT(60)
      <4>2. QED
        BY <1>2, <3>2, <4>1
    <3>3. QED
      BY <3>1, <3>2
  <2>2. ASSUME OptionAt(p + 1) PROVE FALSE
    <3>1. PICK l \in 0 .. (p + 1) - 1, j \in 0 .. p + 1 :
            (l = 0 \/ ~Takes(l)) /\ (\A q \in l + 1 .. (p + 1) - 1 : Takes(q)) /\ p + 1 = l + 1 + 2 * j
      BY <2>2 DEF OptionAt
    <3>2. l # p
      BY <1>4, <3>1, SMTT(60)
    <3>3. ~(m < l)
      <4>1. m < l => l \in m + 1 .. p - 1 /\ l # 0
        BY <3>2, SMTT(60)
      <4>2. QED
        BY <1>1, <3>1, <4>1
    <3>4. ~(l < m)
      <4>1. l < m => m \in l + 1 .. (p + 1) - 1 /\ m # 0
        BY SMTT(60)
      <4>2. QED
        BY <1>1, <3>1, <4>1
    <3>5. l = m
      BY <3>3, <3>4, SMTT(60)
    <3>6. QED
      BY <1>1, <3>1, <3>5, SMTT(60)
  <2>3. QED
    BY <1>4, <2>1, <2>2 DEF Past
<1>5. QED
  BY <1>3, <1>4

\* What the last one is, after one more is read.
LEMMA LastNext ==
  ASSUME Len(argv) \in Nat, NEW p \in 1 .. Len(argv), OptionAt(p), NEW o, NEW n, IsLast(o, p, n)
  PROVE  IsLast(o, Past(p), IF Given(o, p) THEN p ELSE n)
<1>1. \A q \in 1 .. Past(p) - 1 : q \in 1 .. p - 1 \/ q = p \/ (q = p + 1 /\ Takes(p))
  BY SMTT(60) DEF Past
<1>2. \A q \in 1 .. Past(p) - 1 : Given(o, q) => q \in 1 .. p - 1 \/ q = p
  BY <1>1, NextOption DEF Given
<1>3. CASE Given(o, p)
  <2>1. \A q \in 1 .. Past(p) - 1 : Given(o, q) => q <= p
    BY <1>2, SMTT(60)
  <2>2. p \in 0 .. Len(argv)
    BY SMTT(60)
  <2>3. QED
    BY <1>3, <2>1, <2>2 DEF IsLast
<1>4. CASE ~Given(o, p)
  BY <1>2, <1>4 DEF IsLast
<1>5. QED
  BY <1>3, <1>4

\* Reading depends on what is read and on what came of it.
LEMMA LastStays ==
  ASSUME UNCHANGED <<prog, argv>>
  PROVE  /\ \A p : OptionAt(p)' = OptionAt(p)
         /\ \A o, p, n : IsLast(o, p, n)' = IsLast(o, p, n)
<1>1. \A p : Takes(p)' = Takes(p)
  BY DEF Takes, Dashed
<1>2. \A p : OptionAt(p)' = OptionAt(p)
  BY <1>1 DEF OptionAt
<1>3. \A o, p : Given(o, p)' = Given(o, p)
  BY <1>2 DEF Given
<1>4. QED
  BY <1>2, <1>3 DEF IsLast

\* So do the port and the sections.
LEMMA ReadStays ==
  ASSUME UNCHANGED <<prog, argv, file, argPort, portSet, config>>
  PROVE  /\ \A p : ArgsRead(p)' = ArgsRead(p)
         /\ UNCHANGED <<cfg, port>> => \A k : SectionsRead(k)' = SectionsRead(k)
         /\ UNCHANGED cfg => CfgTold' = CfgTold
         /\ UNCHANGED <<stress, port>> => PortTold' = PortTold
         /\ UNCHANGED stress => PoolTold' = PoolTold
<1>1. \A o, p, n : IsLast(o, p, n)' = IsLast(o, p, n)
  BY LastStays
<1>2. \A n : PortArg(n)' = PortArg(n)
  BY DEF PortArg
<1>3. \A p : ArgsRead(p)' = ArgsRead(p)
  BY <1>1, <1>2 DEF ArgsRead
<1>4. SectionPort' = SectionPort /\ SectionPool' = SectionPool
  BY DEF SectionPort, SectionPool
<1>5. UNCHANGED stress => FromFile' = FromFile
  BY DEF FromFile
<1>6. UNCHANGED stress => \A n : PortFrom(n)' = PortFrom(n)
  BY <1>4, <1>5 DEF PortFrom
<1>7. UNCHANGED <<stress, port>> => PortTold' = PortTold
  BY <1>1, <1>6 DEF PortTold
<1>8. QED
  BY <1>3, <1>4, <1>5, <1>7 DEF SectionsRead, CfgTold, PoolTold

\* A step that only goes to the end of the program.
LEMMA ExitStep ==
  ASSUME BootInv, Exit("threw") \/ Exit("help"), UNCHANGED <<prog, argv, file>>
  PROVE  BootInv'
<1>1. bpc' \in {"threw", "help"} /\ UNCHANGED <<prog, argv, file, stress, portSet>>
  BY DEF Exit
<1>2. Inputs'
  BY <1>1 DEF BootInv, Inputs
<1>3. QED
  BY <1>1, <1>2 DEF BootInv

\* One argument read.
LEMMA OneArg ==
  ASSUME BootInv, bpc = "args", i <= Len(argv), UNCHANGED <<prog, argv, file, bpc, cfg, port, workers>>,
         i' = Past(i), stress' \in BOOLEAN, prog = "server" => ~stress',
         IF Given("--port", i) THEN portSet' = (prog = "client") /\ argPort' = argv[i + 1].num % PortMod
         ELSE UNCHANGED <<argPort, portSet>>,
         config' = IF Given("--config", i) THEN i ELSE config
  PROVE  BootInv'
<1>1. i \in 1 .. Len(argv) + 1 /\ OptionAt(i) /\ ArgsRead(i) /\ SectionsRead(0) /\ Inputs /\ Len(argv) \in Nat
  BY DEF BootInv, Inputs
<1>2. Inputs'
  BY <1>1 DEF Inputs
<1>3. SectionsRead(0)'
  BY <1>1 DEF SectionsRead, SectionPort
<1>4. i \in 1 .. Len(argv) /\ i # 0
  BY <1>1, SMTT(60)
<1>5. Past(i) \in 1 .. Len(argv) + 1
  BY <1>4, SMTT(60) DEF Past, Takes
<1>6. PICK p : p = Past(i)
  OBVIOUS
<1>7. OptionAt(p)'
  BY <1>1, <1>4, <1>6, NextOption, LastStays
<1>8. PICK c : c = (IF Given("--config", i) THEN i ELSE config) /\ c = config'
  OBVIOUS
<1>17. IsLast("--config", p, c)'
  <2>1. IsLast("--config", i, config)
    BY <1>1 DEF ArgsRead
  <2>2. IsLast("--config", p, c)
    BY <1>1, <1>4, <1>6, <1>8, <2>1, LastNext
  <2>3. QED
    BY <2>2, LastStays
<1>9. PICK n \in 0 .. Len(argv) : IsLast("--port", i, n) /\ PortArg(n)
  BY <1>1 DEF ArgsRead
<1>10. PICK l : l = IF Given("--port", i) THEN i ELSE n
  OBVIOUS
<1>11. IsLast("--port", p, l)' /\ l \in 0 .. Len(argv)
  <2>1. IsLast("--port", p, l)
    BY <1>1, <1>4, <1>6, <1>9, <1>10, LastNext
  <2>2. QED
    BY <2>1, LastStays DEF IsLast
<1>12. PortArg(l)'
  <2>1. CASE Given("--port", i)
    BY <1>4, <1>10, <2>1 DEF PortArg
  <2>2. CASE ~Given("--port", i)
    BY <1>9, <1>10, <2>2 DEF PortArg
  <2>3. QED
    BY <2>1, <2>2
<1>13. ArgsRead(p)'
  BY <1>8, <1>11, <1>12, <1>17 DEF ArgsRead
<1>14. i' = p /\ i' \in 1 .. Len(argv') + 1
  BY <1>5, <1>6
<1>15. OptionAt(i)' /\ ArgsRead(i)'
  BY <1>7, <1>13, <1>14 DEF OptionAt, ArgsRead, IsLast
<1>16. QED
  BY <1>2, <1>3, <1>14, <1>15 DEF BootInv

\* The command line.
LEMMA ArgStep ==
  ASSUME BootInv, ArgPort \/ ArgPath \/ ArgStress \/ ArgHelp \/ ArgIgnored
  PROVE  BootInv'
<1>1. bpc = "args" /\ UNCHANGED <<prog, argv, file>> /\ i <= Len(argv) /\ Inputs /\ OptionAt(i)
  BY DEF ArgPort, ArgPath, ArgStress, ArgHelp, ArgIgnored, ArgIs, Here, BootInv
<1>2. \A o \in {"--port", "--config"} : Given(o, i) <=> argv[i].kind = o /\ Takes(i)
  BY <1>1 DEF Given, Takes
<1>3. CASE ArgPort
  <2>1. CASE argv[i + 1].kind # "number"
    BY <1>1, <1>3, <2>1, ExitStep DEF ArgPort
  <2>2. CASE argv[i + 1].kind = "number"
    <3>1. Given("--port", i) /\ ~Given("--config", i)
      BY <1>2, <1>3 DEF ArgPort, ArgIs
    <3>2. /\ argPort' = argv[i + 1].num % PortMod /\ portSet' = (prog = "client") /\ i' = Past(i)
          /\ UNCHANGED <<bpc, stress, config, cfg, port, workers>>
      BY <1>3, <2>2 DEF ArgPort
    <3>3. QED
      BY <1>1, <3>1, <3>2, OneArg DEF Inputs
  <2>3. QED
    BY <2>1, <2>2
<1>4. CASE ArgPath
  <2>1. /\ config' = (IF argv[i].kind = "--config" THEN i ELSE config) /\ i' = Past(i) /\ Takes(i)
        /\ argv[i].kind # "--port" /\ UNCHANGED <<bpc, argPort, portSet, stress, cfg, port, workers>>
    BY <1>4 DEF ArgPath, ArgIs
  <2>2. ~Given("--port", i) /\ (Given("--config", i) <=> argv[i].kind = "--config")
    BY <1>2, <2>1
  <2>3. QED
    BY <1>1, <2>1, <2>2, OneArg DEF Inputs
<1>5. CASE ArgStress
  <2>1. CASE Takes(i) /\ argv[i + 1].kind # "number"
    BY <1>1, <1>5, <2>1, ExitStep DEF ArgStress
  <2>2. CASE ~(Takes(i) /\ argv[i + 1].kind # "number")
    <3>1. ~Given("--port", i) /\ ~Given("--config", i) /\ prog = "client"
      BY <1>2, <1>5 DEF ArgStress, ArgIs
    <3>2. stress' = TRUE /\ i' = Past(i) /\ UNCHANGED <<bpc, argPort, portSet, config, cfg, port, workers>>
      BY <1>5, <2>2 DEF ArgStress
    <3>3. QED
      BY <1>1, <3>1, <3>2, OneArg
  <2>3. QED
    BY <2>1, <2>2
<1>6. CASE ArgHelp
  BY <1>1, <1>6, ExitStep DEF ArgHelp
<1>7. CASE ArgIgnored
  <2>1. ~Given("--port", i) /\ ~Given("--config", i)
    BY <1>2, <1>7 DEF ArgIgnored
  <2>2. i' = Past(i) /\ UNCHANGED <<bpc, argPort, portSet, stress, config, cfg, port, workers>>
    BY <1>7 DEF ArgIgnored
  <2>3. QED
    BY <1>1, <2>1, <2>2, OneArg DEF Inputs
<1>8. QED
  BY <1>3, <1>4, <1>5, <1>6, <1>7

\* The command line is read; in stress mode it is all there is.
LEMMA ArgsDoneStep ==
  ASSUME BootInv, ArgsDone
  PROVE  BootInv'
<1>1. /\ bpc = "args" /\ i > Len(argv)
      /\ UNCHANGED <<prog, argv, file, i, argPort, portSet, stress, config, cfg, workers>>
  BY DEF ArgsDone, Here
<1>2. Inputs /\ ArgsRead(Len(argv) + 1) /\ SectionsRead(0)
  <2>1. Inputs /\ i \in 1 .. Len(argv) + 1 /\ ArgsRead(i) /\ SectionsRead(0)
    BY <1>1 DEF BootInv
  <2>2. i = Len(argv) + 1
    BY <1>1, <2>1, SMTT(60) DEF Inputs
  <2>3. QED
    BY <2>1, <2>2
<1>3. Inputs' /\ ArgsRead(Len(argv) + 1)'
  <2>1. Inputs'
    BY <1>1, <1>2 DEF Inputs
  <2>2. PICK l : l = Len(argv) + 1
    OBVIOUS
  <2>3. ArgsRead(l)'
    BY <1>1, <1>2, <2>2, ReadStays
  <2>4. QED
    BY <1>1, <2>1, <2>2, <2>3
<1>4. CASE stress
  <2>1. bpc' = "started" /\ port' = argPort
    BY <1>4 DEF ArgsDone
  <2>2. prog = "client" /\ prog' # "server"
    BY <1>1, <1>2, <1>4 DEF Inputs
  <2>3. PortTold'
    <3>1. PICK l : l = Len(argv) + 1
      OBVIOUS
    <3>2. PICK n \in 0 .. Len(argv) : IsLast("--port", l, n) /\ PortArg(n)
      BY <1>2, <3>1 DEF ArgsRead
    <3>3. n > 0 <=> n # 0
      BY <1>2, SMTT(60) DEF Inputs
    <3>4. port' = PortFrom(n)
      BY <1>4, <2>1, <2>2, <3>2, <3>3 DEF PortArg, PortFrom, FromFile
    <3>5. PortFrom(n)' = PortFrom(n)
      BY <1>1 DEF PortFrom, FromFile, SectionPort
    <3>6. IsLast("--port", l, n)'
      BY <1>1, <3>2, LastStays
    <3>7. QED
      BY <1>1, <3>1, <3>4, <3>5, <3>6 DEF PortTold
  <2>4. QED
    BY <1>1, <1>3, <1>4, <2>1, <2>2, <2>3 DEF BootInv
<1>5. CASE ~stress
  <2>1. bpc' = "load" /\ port' = port
    BY <1>5 DEF ArgsDone
  <2>2. SectionsRead(0)'
    BY <1>1, <1>2, <2>1, ReadStays
  <2>3. QED
    BY <1>1, <1>3, <1>5, <2>1, <2>2 DEF BootInv
<1>6. QED
  BY <1>4, <1>5

\* What stays when neither the command line nor the file is read on.
LEMMA LinesStay ==
  ASSUME Inputs, ArgsRead(Len(argv) + 1), UNCHANGED <<prog, argv, file, argPort, portSet, stress, config>>
  PROVE  Inputs' /\ ArgsRead(Len(argv) + 1)'
<1>1. Inputs'
  BY DEF Inputs
<1>2. PICK l : l = Len(argv) + 1
  OBVIOUS
<1>3. ArgsRead(l)'
  BY <1>2, ReadStays
<1>4. QED
  BY <1>1, <1>2, <1>3

\* The file is read, section after section, or not at all.
LEMMA LoadFileStep ==
  ASSUME BootInv, LoadFile
  PROVE  BootInv'
<1>1. /\ bpc = "load" /\ i' = 1 /\ bpc' = IF file.kind = "object" THEN "section" ELSE "override"
      /\ UNCHANGED <<prog, argv, file, argPort, portSet, stress, config, cfg, port, workers>>
  BY DEF LoadFile, Here
<1>2. Inputs /\ ~stress /\ ArgsRead(Len(argv) + 1) /\ SectionsRead(0)
  BY <1>1 DEF BootInv
<1>3. Inputs' /\ ArgsRead(Len(argv) + 1)'
  BY <1>1, <1>2, LinesStay
<1>4. SectionsRead(0)'
  BY <1>1, <1>2, ReadStays
<1>5. file.kind # "object" => SectionsRead(7)'
  BY <1>1, <1>2 DEF SectionsRead
<1>6. i' - 1 = 0 /\ i' \in 1 .. 8
  BY <1>1, SMTT(60)
<1>7. QED
  BY <1>1, <1>2, <1>3, <1>4, <1>5, <1>6 DEF BootInv

\* One section more is read, or the loading ends.
LEMMA LoadSectionStep ==
  ASSUME BootInv, LoadSection
  PROVE  BootInv'
<1>1. bpc = "section" /\ UNCHANGED <<prog, argv, file, argPort, portSet, stress, config, workers>>
  BY DEF LoadSection, Here
<1>2. Inputs /\ ~stress /\ ArgsRead(Len(argv) + 1) /\ file.kind = "object" /\ i \in 1 .. 8 /\ SectionsRead(i - 1)
  BY <1>1 DEF BootInv
<1>3. Inputs' /\ ArgsRead(Len(argv) + 1)'
  BY <1>1, <1>2, LinesStay
<1>4. PICK k \in 0 .. 7 : k = i - 1 /\ k + 1 = i
  BY <1>2, SMTT(60)
<1>5. Len(Sections) = 7
  BY DEF Sections
<1>6. CASE i > 7 /\ bpc' = "override" /\ UNCHANGED <<i, cfg, port>>
  <2>1. SectionsRead(7)
    <3>1. i - 1 = 7
      BY <1>2, <1>6, SMTT(60)
    <3>2. QED
      BY <1>2, <3>1
  <2>2. SectionsRead(7)'
    BY <1>1, <1>6, <2>1, ReadStays
  <2>3. QED
    BY <1>1, <1>2, <1>3, <1>6, <2>2 DEF BootInv
<1>7. CASE bpc' = "threw" /\ UNCHANGED <<i, cfg, port>>
  BY <1>1, <1>3, <1>7 DEF BootInv
<1>8. CASE i <= 7 /\ i \notin file.given /\ i' = i + 1 /\ UNCHANGED <<bpc, cfg, port>>
  <2>1. \A s \in 1 .. 7 : s <= k + 1 /\ s \in file.given <=> s <= k /\ s \in file.given
    BY <1>4, <1>8, SMTT(60)
  <2>2. (1 <= k + 1 /\ 1 \in file.given) <=> (1 <= k /\ 1 \in file.given)
    BY <1>4, <1>8, SMTT(60)
  <2>3. SectionsRead(k) /\ file.given \subseteq 1 .. 7
    BY <1>2, <1>4 DEF Inputs
  <2>4. SectionsRead(k + 1)
    BY <2>1, <2>2, <2>3 DEF SectionsRead
  <2>5. SectionsRead(k + 1)'
    BY <1>1, <1>8, <2>4, ReadStays
  <2>6. i' - 1 = k + 1 /\ i' \in 1 .. 8
    BY <1>4, <1>8, SMTT(60)
  <2>7. QED
    BY <1>1, <1>2, <1>3, <1>8, <2>5, <2>6 DEF BootInv
<1>9. CASE /\ i \in file.given /\ file.wrong # i /\ cfg' = [cfg EXCEPT ![i] = "file"]
           /\ port' = (IF i = 1 THEN SectionPort ELSE port) /\ i' = i + 1 /\ UNCHANGED bpc
  <2>1. SectionsRead(k) /\ k + 1 \in 1 .. 7 /\ file.given \subseteq 1 .. 7
    BY <1>2, <1>4, <1>9 DEF Inputs
  <2>2. cfg' = [s \in 1 .. 7 |-> IF s <= k + 1 /\ s \in file.given THEN "file" ELSE "default"]
    <3>1. cfg = [s \in 1 .. 7 |-> IF s <= k /\ s \in file.given THEN "file" ELSE "default"]
      BY <1>2, <2>1 DEF SectionsRead
    <3>2. cfg' = [cfg EXCEPT ![k + 1] = "file"] /\ k + 1 \in file.given
      BY <1>4, <1>9
    <3>3. cfg' = [s \in 1 .. 7 |-> IF s = k + 1 THEN "file" ELSE cfg[s]]
      BY <3>1, <3>2
    <3>4. \A s \in 1 .. 7 : (IF s = k + 1 THEN "file" ELSE cfg[s])
                            = IF s <= k + 1 /\ s \in file.given THEN "file" ELSE "default"
      BY <1>4, <3>1, <3>2, SMTT(60)
    <3>5. QED
      BY <3>3, <3>4
  <2>3. port' = IF 1 <= k + 1 /\ 1 \in file.given THEN SectionPort ELSE DefaultPort
    BY <1>2, <1>4, <1>9, <2>1, SMTT(60) DEF SectionsRead
  <2>4. \A s \in file.given : s <= k + 1 => file.wrong # s
    <3>1. \A s \in 1 .. 7 : s <= k + 1 => s <= k \/ s = i
      BY <1>4, SMTT(60)
    <3>2. QED
      BY <1>2, <1>9, <2>1, <3>1 DEF SectionsRead
  <2>5. SectionsRead(k + 1)'
    BY <1>1, <1>2, <2>2, <2>3, <2>4 DEF SectionsRead, SectionPort
  <2>6. i' - 1 = k + 1 /\ i' \in 1 .. 8
    BY <1>4, <1>9, <2>1, SMTT(60)
  <2>7. QED
    BY <1>1, <1>2, <1>3, <1>9, <2>5, <2>6 DEF BootInv
<1>10. QED
  BY <1>5, <1>6, <1>7, <1>8, <1>9 DEF LoadSection

\* The command line's port goes before the file's.
LEMMA OverrideStep ==
  ASSUME BootInv, Override
  PROVE  BootInv'
<1>1. /\ bpc = "override" /\ bpc' = "logger"
      /\ port' = IF (IF prog = "server" THEN argPort > 0 ELSE portSet) THEN argPort ELSE port
      /\ UNCHANGED <<prog, argv, file, i, argPort, portSet, stress, config, cfg, workers>>
  BY DEF Override, Here
<1>2. Inputs /\ ~stress /\ ArgsRead(Len(argv) + 1) /\ SectionsRead(7)
  BY <1>1 DEF BootInv
<1>3. Inputs' /\ ArgsRead(Len(argv) + 1)'
  BY <1>1, <1>2, LinesStay
<1>4. CfgTold'
  <2>1. \A s \in 1 .. 7 : s <= 7
    BY SMTT(60)
  <2>2. CfgTold
    BY <1>2, <2>1 DEF SectionsRead, CfgTold, Inputs
  <2>3. QED
    BY <1>1, <2>2, ReadStays
<1>5. PortTold'
  <2>1. PICK l : l = Len(argv) + 1
    OBVIOUS
  <2>2. PICK n \in 0 .. Len(argv) : IsLast("--port", l, n) /\ PortArg(n)
    BY <1>2, <2>1 DEF ArgsRead
  <2>3. (n > 0 <=> n # 0) /\ ~(0 > 0) /\ 1 <= 7
    BY <1>2, SMTT(60) DEF Inputs
  <2>4. port = IF FromFile THEN SectionPort ELSE DefaultPort
    BY <1>2, <2>3 DEF SectionsRead, FromFile
  <2>5. prog \in {"server", "client"}
    BY <1>2 DEF Inputs
  <2>6. port' = PortFrom(n)
    <3>1. CASE n = 0
      BY <1>1, <2>2, <2>3, <2>4, <2>5, <3>1 DEF PortArg, PortFrom
    <3>2. CASE n # 0
      BY <1>1, <2>2, <2>3, <2>4, <2>5, <3>2 DEF PortArg, PortFrom
    <3>3. QED
      BY <3>1, <3>2
  <2>7. PortFrom(n)' = PortFrom(n)
    BY <1>1 DEF PortFrom, FromFile, SectionPort
  <2>8. IsLast("--port", l, n)'
    BY <1>1, <2>2, LastStays
  <2>9. QED
    BY <1>1, <2>1, <2>6, <2>7, <2>8 DEF PortTold
<1>6. QED
  BY <1>1, <1>2, <1>3, <1>4, <1>5 DEF BootInv

\* A server makes its pool, of at least one worker, and registers its service.
LEMMA ServeStep ==
  ASSUME BootInv, InitLogger \/ MakePool \/ Register
  PROVE  BootInv'
<1>1. UNCHANGED <<prog, argv, file>> /\ bpc \in {"logger", "pool", "register"}
  BY DEF InitLogger, MakePool, Register, Here
<1>2. CASE Exit("threw")
  BY <1>1, <1>2, ExitStep
<1>3. CASE ~Exit("threw")
  <2>1. UNCHANGED <<i, argPort, portSet, stress, config, cfg, port>>
    BY <1>3 DEF InitLogger, MakePool, Register, Exit
  <2>2. Inputs /\ ~stress /\ ArgsRead(Len(argv) + 1) /\ CfgTold /\ PortTold
    BY <1>1 DEF BootInv
  <2>3. Inputs' /\ ArgsRead(Len(argv) + 1)'
    BY <1>1, <2>1, <2>2, LinesStay
  <2>4. CfgTold' /\ PortTold' /\ PoolTold' = PoolTold
    BY <1>1, <2>1, <2>2, ReadStays
  <2>5. CASE InitLogger
    <3>1. bpc' = (IF prog = "server" THEN "pool" ELSE "started") /\ workers' = workers
      BY <1>3, <2>5 DEF InitLogger, Exit
    <3>2. QED
      BY <1>1, <2>1, <2>2, <2>3, <2>4, <3>1 DEF BootInv, Inputs
  <2>6. CASE MakePool
    <3>1. PICK n : n = IF cfg[1] = "file" THEN SectionPool ELSE DefaultPool
      OBVIOUS
    <3>2. n \in Int
      BY <2>2, <3>1, SMTT(60) DEF Inputs, SectionPool, DefaultPool
    <3>3. /\ bpc = "pool" /\ bpc' = "register" /\ ~(n < 0)
          /\ \E hw \in {0, 2} : workers' = IF n > 0 THEN n ELSE IF hw > 0 THEN hw ELSE 4
      BY <1>3, <2>6, <3>1 DEF MakePool, Here
    <3>4. workers' > 0 /\ (n # 0 => workers' = n)
      BY <3>2, <3>3, SMTT(60)
    <3>5. prog = "server"
      BY <3>3 DEF BootInv
    <3>6. n = PoolTold
      <4>1. 1 \in 1 .. 7
        BY SMTT(60)
      <4>2. cfg[1] = IF file.kind = "object" /\ 1 \in file.given THEN "file" ELSE "default"
        BY <2>2, <4>1 DEF CfgTold
      <4>3. QED
        BY <2>2, <3>1, <4>2 DEF PoolTold, FromFile
    <3>7. workers' > 0 /\ (PoolTold' # 0 => workers' = PoolTold')
      BY <2>4, <3>4, <3>6
    <3>8. QED
      BY <1>1, <2>1, <2>2, <2>3, <2>4, <3>3, <3>5, <3>7 DEF BootInv
  <2>7. CASE Register
    <3>1. bpc = "register" /\ bpc' = "started" /\ workers' = workers
      BY <2>7 DEF Register, Exit, Here
    <3>2. workers > 0 /\ (PoolTold # 0 => workers = PoolTold)
      BY <3>1 DEF BootInv
    <3>3. workers' > 0 /\ (PoolTold' # 0 => workers' = PoolTold')
      BY <2>4, <3>1, <3>2
    <3>4. QED
      BY <1>1, <2>1, <2>2, <2>3, <2>4, <3>1, <3>3 DEF BootInv
  <2>8. QED
    BY <2>5, <2>6, <2>7
<1>4. QED
  BY <1>2, <1>3

\* There is one last place.
LEMMA LastIs ==
  ASSUME Len(argv) \in Nat, NEW o, NEW n, IsLast(o, Len(argv) + 1, n)
  PROVE  n = Last(o)
<1>1. (Len(argv) + 1) - 1 = Len(argv)
  BY SMTT(60)
<1>2. n \in 0 .. Len(argv) /\ (n = 0 \/ Given(o, n)) /\ \A q \in 1 .. Len(argv) : Given(o, q) => q <= n
  BY <1>1 DEF IsLast
<1>3. PICK l : l = Last(o)
  OBVIOUS
<1>4. l \in 0 .. Len(argv) /\ (l = 0 \/ Given(o, l)) /\ \A q \in 1 .. Len(argv) : Given(o, q) => q <= l
  BY <1>2, <1>3 DEF Last
<1>5. n <= l
  BY <1>2, <1>4, SMTT(60)
<1>6. l <= n
  BY <1>2, <1>4, SMTT(60)
<1>7. QED
  BY <1>2, <1>3, <1>4, <1>5, <1>6, SMTT(60)

\* The invariant says that the program starts as it is told.
LEMMA BootImplies ==
  ASSUME BootInv
  PROVE  StartsAsTold
<1>1. Inputs /\ Len(argv) \in Nat
  BY DEF BootInv, Inputs
<1>2. ASSUME bpc = "started" PROVE PortChosen
  <2>1. ArgsRead(Len(argv) + 1) /\ PortTold
    BY <1>2 DEF BootInv
  <2>2. config = Last("--config")
    BY <1>1, <2>1, LastIs DEF ArgsRead
  <2>3. PICK n : IsLast("--port", Len(argv) + 1, n) /\ port = PortFrom(n)
    BY <2>1 DEF PortTold
  <2>4. n = Last("--port")
    BY <1>1, <2>3, LastIs
  <2>5. QED
    BY <2>2, <2>3, <2>4 DEF PortChosen, PortFrom
<1>3. PortChosen
  BY <1>2 DEF PortChosen
<1>4. SectionsLoaded
  <2> SUFFICES ASSUME bpc \in {"override", "logger", "pool", "register"} \/ (bpc = "started" /\ ~stress)
               PROVE  CfgTold
    BY DEF SectionsLoaded, CfgTold
  <2>1. CASE bpc = "override"
    <3>1. SectionsRead(7) /\ \A s \in 1 .. 7 : s <= 7
      BY <2>1, SMTT(60) DEF BootInv
    <3>2. QED
      BY <1>1, <3>1 DEF SectionsRead, CfgTold, Inputs
  <2>2. QED
    BY <2>1 DEF BootInv
<1>5. SomeWorker
  BY DEF BootInv, SomeWorker, PoolTold
<1>6. QED
  BY <1>3, <1>4, <1>5 DEF StartsAsTold

\* Whatever the command line and the file, the program starts as they tell it to.
THEOREM ProgramsStart == AnyStart /\ [][BootNext]_bootVars => []StartsAsTold
<1>1. BootInv /\ UNCHANGED bootVars => BootInv'
  <2> SUFFICES ASSUME BootInv, UNCHANGED bootVars PROVE BootInv'
    OBVIOUS
  <2>1. UNCHANGED <<prog, argv, file, bpc, i, argPort, portSet, stress, config, cfg, port, workers>>
    BY DEF bootVars
  <2>2. Inputs'
    BY <2>1 DEF BootInv, Inputs
  <2>3. \A k : ArgsRead(k)' = ArgsRead(k) /\ SectionsRead(k)' = SectionsRead(k)
    BY <2>1, ReadStays
  <2>4. PortTold' = PortTold /\ CfgTold' = CfgTold /\ PoolTold' = PoolTold
    BY <2>1, ReadStays
  <2>5. \A p : OptionAt(p)' = OptionAt(p)
    BY <2>1, LastStays
  <2>6. PICK l, j, h : l = Len(argv) + 1 /\ j = i /\ h = i - 1
    OBVIOUS
  <2>7. l = Len(argv') + 1 /\ j = i' /\ h = i' - 1
    BY <2>1, <2>6
  <2>8. ArgsRead(l)' = ArgsRead(l) /\ ArgsRead(j)' = ArgsRead(j) /\ OptionAt(j)' = OptionAt(j)
        /\ SectionsRead(h)' = SectionsRead(h) /\ SectionsRead(0)' = SectionsRead(0) /\ SectionsRead(7)' = SectionsRead(7)
    BY <2>3, <2>5
  <2>9. QED
    BY <2>1, <2>2, <2>4, <2>6, <2>7, <2>8 DEF BootInv
<1>2. BootInv /\ [BootNext]_bootVars => BootInv'
  BY <1>1, ArgStep, ArgsDoneStep, LoadFileStep, LoadSectionStep, OverrideStep, ServeStep DEF BootNext
<1>3. QED
  BY <1>2, BootBegins, BootImplies, PTL, ZenonT(60)

-------------------------------------------------------------------------------
(* The parts together *)

\* A behaviour of the library is one of each of its parts.
LEMMA LibraryParts == LibSpec => WireSpec /\ PaySpec /\ GlobSpec /\ AnyStart /\ [][BootNext]_bootVars
<1>1. LibInit => WireInit /\ PayInit /\ GlobInit /\ BootInit
  BY DEF LibInit
<1>2. [LibNext]_libVars =>
        [WireNext]_wireVars /\ [PayNext]_payVars /\ [GlobNext]_globVars /\ [BootNext]_bootVars
  BY DEF LibNext, libVars
<1>3. QED
  BY <1>1, <1>2, Restricted, PTL DEF LibSpec, WireSpec, PaySpec, GlobSpec

\* Whatever the library's parts do, a message comes back, a context is released, a
\* global is usable and a program starts as it is told.
THEOREM LibrarySafe ==
  LibSpec => [](Recovers /\ ContextReleased /\ GotUsable /\ StartsAsTold)
  BY LibraryParts, LayersRecover, LayersRelease, GlobalsUsable, ProgramsStart, PTL
===============================================================================
