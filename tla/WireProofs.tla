------------------------------ MODULE WireProofs ------------------------------
(***************************************************************************)
(* What is written for a peer is read back by it, and what it has read it  *)
(* does not take twice.                                                    *)
(*                                                                         *)
(* API objects.  A codec is regular when nothing it writes makes its       *)
(* reader throw, and carries a field when it writes it under the one key   *)
(* it reads it from, in a form it reads.  That the tables of ModelCodecs   *)
(* are so is CodecsAreRegular, which TLC evaluates; everything here holds  *)
(* of any table that is, and of any object that can be held.               *)
(*                                                                         *)
(* Requests.  The paths and the fields of the builders are such a table    *)
(* (BuildersAreRegular, ChoosersAreRegular); what a builder makes of its   *)
(* options, its uploads and the attachments it keeps is proved of each.    *)
(*                                                                         *)
(* Media frames.  A frame is read back whatever its codec, its units and   *)
(* the number of its ranges.  The loops of the model are recursive         *)
(* functions: that such a function exists, and what it computes, is shown  *)
(* by induction on the number of steps (Induction, Loop, Agree), an        *)
(* integer or a list of ranges after the other.  The argument is Layout:   *)
(* clear bytes, other bytes and the whole frame grow together, and every   *)
(* range marks where a run of clear bytes lies in the whole.               *)
(*                                                                         *)
(* Encrypted frames.  ReplayWindow holds for every number of ratchets and  *)
(* nonces, every size of the window and every number of generations.  It   *)
(* is not inductive: that no frame opens twice needs that the newest nonce *)
(* was played and nothing above it was, and that a missing nonce is found  *)
(* again by its frame needs that generations do not leave the byte that    *)
(* carries them (CursorInv, KeyInv).                                       *)
(***************************************************************************)
EXTENDS Wire, SequenceTheorems, WellFoundedInduction, TLAPS

-----------------------------------------------------------------------------
(* to_json and from_json, of any regular codec.                            *)

Written(c, o) == {k \in DOMAIN c.writes : serialize(c, o, k) # {}}
Typed(c) == IF c.type = 0 THEN {} ELSE {"type"}
Start(c, o) == IF c.raw THEN o.raw ELSE NoDocument

\* An object a program may hold: only optional fields are unset, only nested
\* optional ones empty, none holds what its type cannot, and the document it was read from could be read.
Holds(c, o) ==
  /\ \A f \in DOMAIN c.fields :
       /\ o.fields[f] = Unset => c.fields[f].optional
       /\ o.fields[f] = Default => ~c.fields[f].optional
       /\ o.fields[f] = Empty => c.fields[f].optional
       /\ o.fields[f] # Huge
  /\ \A k \in DOMAIN c.reads \intersect DOMAIN o.raw :
       o.raw[k].form \notin c.fields[c.reads[k]].throws

\* What the peer must find in a field.
MeantBy(c, o, f) ==
  IF \/ o.fields[f] = Unset /\ c.raw
     \/ f \in c.kept \intersect DOMAIN o.raw
  THEN deserialize(c, o.raw, f)
  ELSE IF o.fields[f] = Unset /\ f \in c.fills THEN Filler
  ELSE IF o.fields[f] = Empty THEN Unset ELSE o.fields[f]

\* The markers of values are different.
LEMMA Markers ==
  /\ Unset # Default /\ Unset # Empty /\ Default # Empty
  /\ \A x, n : <<x, n>> \notin {Unset, Default, Empty, Huge, NoNumber}
  /\ {Narrowed, Renewed} \intersect {Unset, Default, Empty, Huge} = {}
  /\ Huge \notin {Unset, Default, Empty, Filler}
  BY DEF Unset, Default, Empty, Huge, NoNumber, Narrowed, Renewed, Filler

\* The forms of what serialize writes.
LEMMA SerializedForm ==
  ASSUME NEW c, NEW o, NEW k \in DOMAIN c.writes, NEW v \in serialize(c, o, k)
  PROVE  v.form \in {"own", "null", c.fields[c.writes[k]].form}
  BY DEF serialize, Json, Null

\* What to_json makes: the type, what is written, and what was there.
LEMMA ToJsonOf ==
  ASSUME NEW c, NEW o
  PROVE  /\ DOMAIN to_json(c, o) = DOMAIN Start(c, o) \union Written(c, o) \union Typed(c)
         /\ \A k \in Typed(c) : to_json(c, o)[k].form = "number"
         /\ \A k \in Written(c, o) \ Typed(c) : to_json(c, o)[k] \in serialize(c, o, k)
         /\ \A k \in DOMAIN Start(c, o) \ (Written(c, o) \union Typed(c)) :
              to_json(c, o)[k] = Start(c, o)[k]
  <1> DEFINE D == DOMAIN Start(c, o) \union Written(c, o) \union Typed(c)
             V(k) == IF k \in Typed(c) THEN Json("number", <<"type", c.type>>)
                     ELSE IF k \in Written(c, o)
                     THEN CHOOSE v \in serialize(c, o, k) : TRUE
                     ELSE Start(c, o)[k]
  <1>1. to_json(c, o) = [k \in D |-> V(k)]
    BY Zenon DEF to_json, Written, Typed, Start
  <1>2. ASSUME NEW k \in Written(c, o) PROVE (CHOOSE v \in serialize(c, o, k) : TRUE) \in serialize(c, o, k)
    BY <1>2 DEF Written
  <1>3. \A k \in Typed(c) : V(k).form = "number"
    BY DEF Json
  <1>4. \A k \in Written(c, o) \ Typed(c) : V(k) \in serialize(c, o, k)
    BY <1>2
  <1>5. \A k \in DOMAIN Start(c, o) \ (Written(c, o) \union Typed(c)) : V(k) = Start(c, o)[k]
    OBVIOUS
  <1> HIDE DEF V
  <1> QED
    BY <1>1, <1>3, <1>4, <1>5

\* The peer reads what to_json made without an exception.
LEMMA PeerReads ==
  ASSUME NEW c, NEW o, Regular(c), Holds(c, o)
  PROVE  /\ \A f \in DOMAIN c.fields :
              from_json(c, to_json(c, o)).fields[f] = deserialize(c, to_json(c, o), f)
         /\ "thrown" \notin DOMAIN o.raw => "thrown" \notin DOMAIN to_json(c, o)
  <1> DEFINE doc == to_json(c, o)
  <1>1. /\ DOMAIN doc = DOMAIN Start(c, o) \union Written(c, o) \union Typed(c)
        /\ \A k \in Typed(c) : doc[k].form = "number"
        /\ \A k \in Written(c, o) \ Typed(c) : doc[k] \in serialize(c, o, k)
        /\ \A k \in DOMAIN Start(c, o) \ (Written(c, o) \union Typed(c)) : doc[k] = Start(c, o)[k]
    BY ToJsonOf
  <1> HIDE DEF doc
  <1>2. ASSUME NEW k \in DOMAIN c.reads \intersect DOMAIN doc
        PROVE  doc[k].form \notin c.fields[c.reads[k]].throws
    <2>1. CASE k \in Typed(c)
      BY <1>1, <2>1 DEF Typed, Regular
    <2>2. CASE k \in Written(c, o) \ Typed(c)
      <3>1. k \in DOMAIN c.writes /\ doc[k].form \in {"own", "null", c.fields[c.writes[k]].form}
        BY <1>1, <2>2, SerializedForm DEF Written
      <3> QED BY <3>1 DEF Regular
    <2>3. CASE k \in DOMAIN Start(c, o) \ (Written(c, o) \union Typed(c))
      <3>1. k \in DOMAIN o.raw /\ doc[k] = o.raw[k]
        BY <1>1, <2>3 DEF Start, NoDocument
      <3> QED BY <3>1 DEF Holds
    <2> QED BY <1>1, <2>1, <2>2, <2>3
  <1>3. \A f \in DOMAIN c.fields : from_json(c, doc).fields[f] = deserialize(c, doc, f)
    BY <1>2 DEF from_json
  <1>4. "thrown" \notin DOMAIN o.raw => "thrown" \notin DOMAIN doc
    BY <1>1 DEF Start, NoDocument, Written, Typed, Regular
  <1> QED BY <1>3, <1>4 DEF doc

\* What a reader finds under the one key of a field.
LEMMA DeserializeOf ==
  ASSUME NEW c, NEW doc, NEW f, NEW k, CarriedUnder(c, f, k),
         f \in DOMAIN c.needs => not_null_all(doc, c.needs[f])
  PROVE  deserialize(c, doc, f) =
           IF not_null_all(doc, k) /\ Takes(c.fields[f], doc[k])
           THEN Taken(c.fields[f], doc[k]) ELSE Fresh(c).fields[f]
  <1> DEFINE keys == {j \in DOMAIN c.reads : c.reads[j] = f
                        /\ not_null_all(doc, j) /\ Takes(c.fields[f], doc[j])
                        /\ (f \in DOMAIN c.needs => not_null_all(doc, c.needs[f]))}
  <1>1. deserialize(c, doc, f) = IF keys = {} THEN Fresh(c).fields[f]
                                 ELSE Taken(c.fields[f], doc[CHOOSE j \in keys : TRUE])
    BY Zenon DEF deserialize
  <1>2. keys \subseteq {k}
    BY DEF CarriedUnder
  <1>3. k \in keys <=> not_null_all(doc, k) /\ Takes(c.fields[f], doc[k])
    BY DEF CarriedUnder
  <1> HIDE DEF keys
  <1>4. keys # {} => (CHOOSE j \in keys : TRUE) = k
    BY <1>2
  <1> QED
    BY <1>1, <1>2, <1>3, <1>4

\* A key that is always written is there, and not null.
LEMMA NeedIsWritten ==
  ASSUME NEW c, NEW o, Holds(c, o), NEW k, AlwaysWritten(c, k)
  PROVE  not_null_all(to_json(c, o), k)
  <1> DEFINE f == c.writes[k]
  <1>1. o.fields[f] \notin {Unset, Empty} /\ f \notin c.omits /\ ~c.fields[f].sparse
    BY DEF AlwaysWritten, Holds
  <1>2. serialize(c, o, k) = {Json(c.fields[f].form, o.fields[f])}
    BY <1>1, Markers DEF serialize, AlwaysWritten
  <1>3. k \in Written(c, o) \ Typed(c)
    BY <1>2 DEF Written, Typed, AlwaysWritten
  <1>4. k \in DOMAIN to_json(c, o) /\ to_json(c, o)[k] = Json(c.fields[f].form, o.fields[f])
    BY <1>2, <1>3, ToJsonOf
  <1>5. Json(c.fields[f].form, o.fields[f]) # Null
    BY DEF Json, Null, AlwaysWritten
  <1> QED
    BY <1>4, <1>5 DEF not_null_all

\* Every structure with a regular codec, every object a program may hold of it,
\* and every field the codec carries: what the peer reads from what was written
\* is what was meant.  Keys that are renamed, values that are left out, filled
\* in, null or kept in a raw object are all covered.
THEOREM CodecReadsBack ==
  ASSUME NEW c, NEW o, Regular(c), Holds(c, o),
         NEW f, NEW k, CarriedUnder(c, f, k)
  PROVE  from_json(c, to_json(c, o)).fields[f] = MeantBy(c, o, f)
  <1> DEFINE doc == to_json(c, o)
             value == o.fields[f]
             kind == c.fields[f]
  <1>f. f \in DOMAIN c.fields /\ k \in DOMAIN c.writes /\ c.writes[k] = f
    BY DEF CarriedUnder, Regular
  <1>d. /\ DOMAIN doc = DOMAIN Start(c, o) \union Written(c, o) \union Typed(c)
        /\ \A j \in Written(c, o) \ Typed(c) : doc[j] \in serialize(c, o, j)
        /\ \A j \in DOMAIN Start(c, o) \ (Written(c, o) \union Typed(c)) : doc[j] = Start(c, o)[j]
    BY ToJsonOf
  <1>t. k \notin Typed(c)
    BY DEF CarriedUnder, Typed
  <1>n. f \in DOMAIN c.needs => ~c.raw /\ not_null_all(doc, c.needs[f])
    <2>1. f \in DOMAIN c.needs => AlwaysWritten(c, c.needs[f])
      BY DEF CarriedUnder
    <2>2. c.raw => f \notin DOMAIN c.needs
      BY DEF Regular
    <2> QED BY <2>1, <2>2, NeedIsWritten
  <1>h. /\ value = Unset => kind.optional
        /\ value = Default => ~kind.optional
        /\ value = Empty => kind.optional
        /\ value # Huge
    BY <1>f DEF Holds
  <1>r. SUFFICES deserialize(c, doc, f) = MeantBy(c, o, f)
    BY <1>f, PeerReads
  <1> HIDE DEF doc
  <1>e. deserialize(c, doc, f) =
          IF not_null_all(doc, k) /\ Takes(kind, doc[k])
          THEN Taken(kind, doc[k]) ELSE Fresh(c).fields[f]
    BY <1>n, DeserializeOf
  <1>z. Fresh(c).fields[f] = IF kind.optional THEN Unset ELSE Default
    BY <1>f DEF Fresh
  \* A key that is not written shows what the raw object has.
  <1>1. ASSUME serialize(c, o, k) = {}, c.raw
        PROVE  deserialize(c, doc, f) = deserialize(c, o.raw, f)
    <2>1. k \notin Written(c, o) /\ Start(c, o) = o.raw
      BY <1>1 DEF Written, Start
    <2>2. (k \in DOMAIN doc <=> k \in DOMAIN o.raw) /\ (k \in DOMAIN o.raw => doc[k] = o.raw[k])
      BY <1>d, <1>t, <2>1
    <2>3. f \notin DOMAIN c.needs
      BY <1>n, <1>1
    <2>4. deserialize(c, o.raw, f) =
            IF not_null_all(o.raw, k) /\ Takes(kind, o.raw[k])
            THEN Taken(kind, o.raw[k]) ELSE Fresh(c).fields[f]
      BY <2>3, DeserializeOf
    <2> QED
      BY <1>e, <2>2, <2>4 DEF not_null_all
  \* Without a raw object it is not there, and the field is as new.
  <1>2. ASSUME serialize(c, o, k) = {}, ~c.raw
        PROVE  deserialize(c, doc, f) = Fresh(c).fields[f]
    <2>1. k \notin DOMAIN doc
      BY <1>2, <1>d, <1>t DEF Written, Start, NoDocument
    <2> QED BY <1>e, <2>1 DEF not_null_all
  \* Null leaves the field as new, a value in a form the reader takes is taken.
  <1>3. ASSUME NEW v, serialize(c, o, k) = {v}
        PROVE  /\ v = Null => deserialize(c, doc, f) = Fresh(c).fields[f]
               /\ v # Null /\ v.form \in kind.reads /\ v.form \in {kind.form, "own"} /\ v.value # Huge
                    => deserialize(c, doc, f) = v.value
    <2>1. k \in DOMAIN doc /\ doc[k] = v
      BY <1>3, <1>d, <1>t, <1>f DEF Written
    <2>2. ~kind.loses /\ (kind.integral => kind.form # "string")
      BY DEF CarriedUnder
    <2>3. v.form \in kind.reads /\ v.form \in {kind.form, "own"} /\ v.value # Huge =>
            Takes(kind, v) /\ Taken(kind, v) = v.value
      BY <2>2 DEF Takes, Taken
    <2> QED BY <1>e, <2>1, <2>3 DEF not_null_all
  <1>4. CASE k \in c.kept /\ k \in DOMAIN o.raw
    <2>1. serialize(c, o, k) = {} /\ c.raw /\ k = f
      BY <1>4 DEF serialize, CarriedUnder
    <2> QED BY <1>4, <1>1, <2>1 DEF MeantBy
  <1>5. CASE ~(k \in c.kept /\ k \in DOMAIN o.raw)
    <2>k. f \notin c.kept \intersect DOMAIN o.raw
      BY <1>5 DEF CarriedUnder
    <2>1. CASE value = Unset /\ c.raw
      <3>1. serialize(c, o, k) = {}
        BY <1>f, <1>5, <2>1 DEF serialize, CarriedUnder
      <3> QED BY <1>1, <2>1, <3>1 DEF MeantBy
    <2>2. CASE value = Unset /\ ~c.raw /\ f \in c.fills
      <3>1. serialize(c, o, k) = {Json("own", Filler)}
        BY <1>f, <1>5, <2>2 DEF serialize
      <3>2. /\ Json("own", Filler) # Null /\ Json("own", Filler).form \in kind.reads
            /\ Json("own", Filler).form = "own" /\ Json("own", Filler).value # Huge
        BY <2>2, Markers DEF Json, Null, CarriedUnder
      <3>3. deserialize(c, doc, f) = Json("own", Filler).value
        BY <1>3, <3>1, <3>2
      <3>4. MeantBy(c, o, f) = Filler
        BY <2>k, <2>2 DEF MeantBy
      <3> QED BY <3>3, <3>4 DEF Json
    <2>3. CASE value = Unset /\ ~c.raw /\ f \notin c.fills
      <3>1. serialize(c, o, k) = {Null} \/ serialize(c, o, k) = {}
        BY <1>f, <1>5, <2>3 DEF serialize
      <3>2. deserialize(c, doc, f) = Unset
        BY <1>2, <1>3, <1>h, <1>z, <2>3, <3>1
      <3>3. MeantBy(c, o, f) = Unset
        BY <2>k, <2>3, Markers DEF MeantBy
      <3> QED BY <3>2, <3>3
    <2>4. CASE value = Empty
      <3>1. serialize(c, o, k) = {Null}
        BY <1>f, <1>5, <2>4, Markers DEF serialize
      <3>2. deserialize(c, doc, f) = Unset
        BY <1>3, <1>h, <1>z, <2>4, <3>1
      <3>3. MeantBy(c, o, f) = Unset
        BY <2>k, <2>4, Markers DEF MeantBy
      <3> QED BY <3>2, <3>3
    <2>5. CASE value = Default /\ (f \in c.omits \/ kind.sparse)
      <3>1. serialize(c, o, k) = {Null} \/ (serialize(c, o, k) = {} /\ ~c.raw)
        BY <1>f, <1>5, <2>5, Markers DEF serialize, CarriedUnder
      <3>2. deserialize(c, doc, f) = Default
        BY <1>2, <1>3, <1>h, <1>z, <2>5, <3>1
      <3>3. MeantBy(c, o, f) = Default
        BY <2>k, <2>5, Markers DEF MeantBy
      <3> QED BY <3>2, <3>3
    <2>6. CASE value \notin {Unset, Empty} /\ ~(value = Default /\ (f \in c.omits \/ kind.sparse))
      <3>1. serialize(c, o, k) = {Json(kind.form, value)}
        BY <1>f, <1>5, <2>6 DEF serialize
      <3>2. /\ Json(kind.form, value) # Null /\ Json(kind.form, value).form \in kind.reads
            /\ Json(kind.form, value).form = kind.form /\ Json(kind.form, value).value # Huge
        BY <1>h DEF Json, Null, CarriedUnder
      <3>3. deserialize(c, doc, f) = Json(kind.form, value).value
        BY <1>3, <3>1, <3>2
      <3>4. MeantBy(c, o, f) = value
        BY <2>k, <2>6 DEF MeantBy
      <3> QED BY <3>3, <3>4 DEF Json
    <2> QED BY <2>1, <2>2, <2>3, <2>4, <2>5, <2>6
  <1> QED BY <1>4, <1>5

-----------------------------------------------------------------------------
(* The life of one object, of any structure.                               *)

\* What a document of the server may hold for a field.
FromServer(c, d) ==
  /\ "thrown" \notin DOMAIN d
  /\ \A k \in DOMAIN c.reads \intersect DOMAIN d :
       \/ d[k] = Null
       \/ d[k].value \in {<<c.reads[k], 1>>, Huge}
       \/ d[k].value = NoNumber /\ c.fields[c.reads[k]].integral /\ d[k].form = "string"
       \/ d[k].value = Empty /\ c.fields[c.reads[k]].optional

\* An object that was read from a document and perhaps edited.
HeldFrom(c, o, d) ==
  /\ o = [fields |-> o.fields, raw |-> IF c.raw THEN d ELSE NoDocument]
  /\ DOMAIN o.fields = DOMAIN c.fields
  /\ Holds(c, o)

StructureInv ==
  subject \in DOMAIN Codecs =>
    /\ focus \in DOMAIN Codec_.fields
    /\ FromServer(Codec_, document)
    /\ phase = "failed" => subject = "ApplicationCommandOptionChoice"
    /\ phase = "held" => object = from_json(Codec_, document) /\ object # Thrown
    /\ phase \in {"held", "edited", "sent"} => HeldFrom(Codec_, object, document)
    /\ phase = "sent" => sent = to_json(Codec_, object)

Alternative ==
  ReadAlternative(IF focus = "variant" THEN Unions[subject] ELSE Names[subject], document)

VariantInv ==
  subject \notin DOMAIN Codecs =>
    /\ \/ focus = "variant" /\ subject \in DOMAIN Unions
       \/ focus = "name" /\ subject \in DOMAIN Names
          /\ document \in DOMAIN Names[subject].cases \union {"a new name"}
    /\ phase \in {"new", "sent"}
    /\ phase = "sent" =>
         sent = IF focus = "variant" THEN WriteAlternative(Alternative)
                ELSE [tag |-> Alternative.alternative, content |-> TRUE]

DInv == StructureInv /\ VariantInv

\* Every document the server sends is one.
LEMMA DocumentsOfServer ==
  ASSUME NEW c, Regular(c), NEW f \in DOMAIN c.fields, NEW d \in Documents(c, f)
  PROVE  FromServer(c, d)
  <1> DEFINE all == DOMAIN c.reads \union Around(c)
             mine == Keys(c, f)
  <1>1. \A v \in ValuesOf(c, f) :
          \/ v = Null \/ v.value \in {<<f, 1>>, Huge} \/ (v.value = Empty /\ c.fields[f].optional)
          \/ v.value = NoNumber /\ c.fields[f].integral /\ v.form = "string"
    BY DEF ValuesOf, Json
  <1>2. \A k \in DOMAIN c.reads : Canonical(c, k).value = <<c.reads[k], 1>>
    BY DEF Canonical, Json
  <1>3. "thrown" \notin all
    BY DEF Around, Regular
  <1>4. mine \subseteq all /\ \A k \in mine : c.reads[k] = f
    BY DEF Keys
  <1>5. ASSUME NEW keys \in SUBSET all, NEW v,
               mine \intersect keys # {} => v \in ValuesOf(c, f),
               d = [k \in keys |-> IF k \in mine THEN v ELSE Canonical(c, k)]
        PROVE  FromServer(c, d)
    <2> HIDE DEF all, mine
    <2>1. \A k \in keys : k \in mine => c.reads[k] = f /\ v \in ValuesOf(c, f)
      BY <1>4, <1>5
    <2>2. \A k \in DOMAIN c.reads \intersect keys :
            \/ d[k] = Null \/ d[k].value \in {<<c.reads[k], 1>>, Huge}
            \/ d[k].value = NoNumber /\ c.fields[c.reads[k]].integral /\ d[k].form = "string"
            \/ d[k].value = Empty /\ c.fields[c.reads[k]].optional
      BY <1>1, <1>2, <1>5, <2>1
    <2> QED BY <1>3, <1>5, <2>2 DEF FromServer
  <1>6. \/ \E v \in ValuesOf(c, f) : d = [k \in mine |-> IF k \in mine THEN v ELSE Canonical(c, k)]
        \/ \E v \in ValuesOf(c, f) : d = [k \in all |-> IF k \in mine THEN v ELSE Canonical(c, k)]
        \/ d = [k \in all \ mine |-> IF k \in mine THEN Null ELSE Canonical(c, k)]
        \/ d = NoDocument
    BY Zenon DEF Documents
  <1>7. d = NoDocument => FromServer(c, d)
    BY DEF NoDocument, FromServer
  <1> HIDE DEF all, mine
  <1> QED BY <1>4, <1>5, <1>6, <1>7

\* What from_json makes of such a document can be held.
LEMMA ReadsAreHeld ==
  ASSUME NEW c, Regular(c), NEW d, FromServer(c, d)
  PROVE  IF \E k \in DOMAIN c.reads \intersect DOMAIN d :
               d[k].form \in c.fields[c.reads[k]].throws
         THEN from_json(c, d) = Thrown
         ELSE from_json(c, d) # Thrown /\ HeldFrom(c, from_json(c, d), d)
  <1> DEFINE throws == \E k \in DOMAIN c.reads \intersect DOMAIN d :
                         d[k].form \in c.fields[c.reads[k]].throws
             o == from_json(c, d)
  <1>1. throws => o = Thrown
    BY DEF from_json
  <1>2. ASSUME ~throws PROVE o # Thrown /\ HeldFrom(c, o, d)
    <2>1. o = [fields |-> [f \in DOMAIN c.fields |-> deserialize(c, d, f)],
               raw |-> IF c.raw THEN d ELSE NoDocument]
      BY <1>2, Zenon DEF from_json
    <2> HIDE DEF o
    <2>2. DOMAIN o = {"fields", "raw"} /\ DOMAIN Thrown = {"thrown"}
      BY <2>1 DEF Thrown
    <2>3. ASSUME NEW f \in DOMAIN c.fields
          PROVE  \/ o.fields[f] \in {<<f, 1>>, Narrowed, Renewed}
                 \/ o.fields[f] = Empty /\ c.fields[f].optional
                 \/ o.fields[f] = IF c.fields[f].optional THEN Unset ELSE Default
      <3> DEFINE keys == {k \in DOMAIN c.reads : c.reads[k] = f
                            /\ not_null_all(d, k) /\ Takes(c.fields[f], d[k])
                            /\ (f \in DOMAIN c.needs => not_null_all(d, c.needs[f]))}
      <3>1. o.fields[f] = deserialize(c, d, f)
        BY <2>1
      <3>2. deserialize(c, d, f) = IF keys = {} THEN Fresh(c).fields[f]
                                   ELSE Taken(c.fields[f], d[CHOOSE k \in keys : TRUE])
        BY Zenon DEF deserialize
      <3>3. \A k \in keys : \/ Taken(c.fields[f], d[k]) \in {<<f, 1>>, Narrowed, Renewed}
                            \/ Taken(c.fields[f], d[k]) = Empty /\ c.fields[f].optional
        BY DEF FromServer, not_null_all, Takes, Taken
      <3>4. Fresh(c).fields[f] = IF c.fields[f].optional THEN Unset ELSE Default
        BY DEF Fresh
      <3> HIDE DEF keys
      <3>5. keys # {} => (CHOOSE k \in keys : TRUE) \in keys
        OBVIOUS
      <3> QED BY <3>1, <3>2, <3>3, <3>4, <3>5
    <2>4. Holds(c, o)
      <3>1. \A f \in DOMAIN c.fields :
              /\ o.fields[f] = Unset => c.fields[f].optional
              /\ o.fields[f] = Default => ~c.fields[f].optional
              /\ o.fields[f] = Empty => c.fields[f].optional
              /\ o.fields[f] # Huge
        BY <2>3, Markers
      <3>2. o.raw = d \/ o.raw = NoDocument
        BY <2>1
      <3>3. \A k \in DOMAIN c.reads \intersect DOMAIN o.raw :
              o.raw[k].form \notin c.fields[c.reads[k]].throws
        BY <1>2, <3>2 DEF NoDocument
      <3> QED BY <3>1, <3>3 DEF Holds
    <2> QED BY <2>1, <2>2, <2>4 DEF HeldFrom
  <1> QED BY <1>1, <1>2

\* The object stays one that can be held when a setter changes a field.
LEMMA EditsAreHeld ==
  ASSUME NEW c, NEW d, NEW o, HeldFrom(c, o, d), NEW f \in DOMAIN c.fields, NEW v,
         \/ v = <<f, 2>> \/ (v \in {Unset, Empty} /\ c.fields[f].optional)
  PROVE  HeldFrom(c, [o EXCEPT !.fields[f] = v], d)
  <1> DEFINE p == [o EXCEPT !.fields[f] = v]
  <1>1. p = [fields |-> [o.fields EXCEPT ![f] = v], raw |-> IF c.raw THEN d ELSE NoDocument]
    BY DEF HeldFrom
  <1> HIDE DEF p
  <1>2. /\ p = [fields |-> p.fields, raw |-> IF c.raw THEN d ELSE NoDocument]
        /\ p.fields = [o.fields EXCEPT ![f] = v] /\ p.raw = o.raw
    BY <1>1 DEF HeldFrom
  <1>3. DOMAIN p.fields = DOMAIN c.fields
    BY <1>2 DEF HeldFrom
  <1>4. \A g \in DOMAIN c.fields : p.fields[g] = IF g = f THEN v ELSE o.fields[g]
    BY <1>2 DEF HeldFrom
  <1>5. Holds(c, p)
    BY <1>2, <1>4, Markers DEF HeldFrom, Holds
  <1>6. HeldFrom(c, p, d)
    BY <1>2, <1>3, <1>5 DEF HeldFrom
  <1> QED BY <1>6 DEF p

\* No two keys are read into one field: the reader takes the one value there is.
LEMMA OneKey ==
  ASSUME NEW c, Regular(c), NEW d, NEW k \in DOMAIN c.reads, not_null_all(d, k),
         Takes(c.fields[c.reads[k]], d[k]),
         c.reads[k] \in DOMAIN c.needs => not_null_all(d, c.needs[c.reads[k]])
  PROVE  deserialize(c, d, c.reads[k]) = Taken(c.fields[c.reads[k]], d[k])
  <1> DEFINE f == c.reads[k]
             keys == {j \in DOMAIN c.reads : c.reads[j] = f
                        /\ not_null_all(d, j) /\ Takes(c.fields[f], d[j])
                        /\ (f \in DOMAIN c.needs => not_null_all(d, c.needs[f]))}
  <1>1. deserialize(c, d, f) = IF keys = {} THEN Fresh(c).fields[f]
                               ELSE Taken(c.fields[f], d[CHOOSE j \in keys : TRUE])
    BY Zenon DEF deserialize
  <1>2. keys = {k}
    BY DEF Regular
  <1> HIDE DEF keys
  <1>3. (CHOOSE j \in keys : TRUE) = k
    BY <1>2
  <1> QED BY <1>1, <1>2, <1>3

LEMMA DocumentInit ==
  DInit => DInv
  <1> SUFFICES ASSUME DInit PROVE DInv
    OBVIOUS
  <1>1. phase = "new"
    BY DEF DInit
  <1>2. ASSUME subject \in DOMAIN Codecs PROVE StructureInv
    <2>1. focus \in DOMAIN Codec_.fields /\ document \in Documents(Codec_, focus)
      BY <1>2, VariantsAreRegular DEF DInit
    <2>2. Regular(Codec_)
      BY <1>2, CodecsAreRegular DEF Codec_
    <2> QED BY <1>1, <2>1, <2>2, DocumentsOfServer DEF StructureInv
  <1>3. VariantInv
    BY <1>1 DEF DInit, VariantInv
  <1> QED BY <1>2, <1>3 DEF DInv, StructureInv

LEMMA DocumentStep ==
  DInv /\ [DNext]_docvars => DInv'
  <1> SUFFICES ASSUME DInv, [DNext]_docvars PROVE DInv'
    OBVIOUS
  <1>1. CASE Receive
    <2>1. /\ subject \in DOMAIN Codecs /\ object' = from_json(Codec_, document)
          /\ phase' = (IF object' = Thrown THEN "failed" ELSE "held")
          /\ subject' = subject /\ focus' = focus /\ document' = document /\ sent' = sent
      BY <1>1 DEF Receive
    <2>2. /\ focus \in DOMAIN Codec_.fields /\ FromServer(Codec_, document)
          /\ Regular(Codec_) /\ Codec_' = Codec_
      BY <2>1, CodecsAreRegular DEF DInv, StructureInv, Codec_
    <2>3. object' # Thrown => HeldFrom(Codec_, object', document)
      BY <2>1, <2>2, ReadsAreHeld
    <2>4. ASSUME object' = Thrown PROVE subject = "ApplicationCommandOptionChoice"
      <3>1. PICK k \in DOMAIN Codec_.reads \intersect DOMAIN document :
              document[k].form \in Codec_.fields[Codec_.reads[k]].throws
        BY <2>1, <2>2, <2>4, ReadsAreHeld
      <3>2. Codec_.reads[k] \in DOMAIN Codec_.fields
        BY <2>2 DEF Regular
      <3> QED BY <2>1, <3>1, <3>2, CodecsAreRegular DEF Codec_
    <2>5. StructureInv'
      BY <2>1, <2>2, <2>3, <2>4 DEF StructureInv
    <2> QED BY <2>1, <2>5 DEF DInv, VariantInv
  <1>2. CASE Edit
    <2>1. /\ phase = "held" /\ phase' = "edited"
          /\ subject' = subject /\ focus' = focus /\ document' = document /\ sent' = sent
      BY <1>2 DEF Edit
    <2>2. subject \in DOMAIN Codecs /\ Codec_' = Codec_
      BY <2>1 DEF DInv, VariantInv, Codec_
    <2>3. focus \in DOMAIN Codec_.fields /\ FromServer(Codec_, document)
          /\ HeldFrom(Codec_, object, document)
      BY <2>1, <2>2 DEF DInv, StructureInv
    <2>4. PICK v : /\ v = <<focus, 2>> \/ (v \in {Unset, Empty} /\ Codec_.fields[focus].optional)
                   /\ object' = [object EXCEPT !.fields[focus] = v]
      BY <1>2 DEF Edit, Settable
    <2>5. HeldFrom(Codec_, object', document)
      BY <2>3, <2>4, EditsAreHeld
    <2>6. StructureInv'
      BY <2>1, <2>2, <2>3, <2>5 DEF StructureInv
    <2> QED BY <2>1, <2>2, <2>6 DEF DInv, VariantInv
  <1>3. CASE Send
    <2>1. /\ phase \in {"held", "edited"} /\ phase' = "sent" /\ sent' = to_json(Codec_, object)
          /\ subject' = subject /\ focus' = focus /\ document' = document /\ object' = object
      BY <1>3 DEF Send
    <2>2. subject \in DOMAIN Codecs /\ Codec_' = Codec_
      BY <2>1 DEF DInv, VariantInv, Codec_
    <2>3. StructureInv'
      BY <2>1, <2>2 DEF DInv, StructureInv
    <2> QED BY <2>1, <2>2, <2>3 DEF DInv, VariantInv
  <1>4. CASE PassOn
    <2>1. /\ subject \notin DOMAIN Codecs /\ phase' = "sent" /\ object' = Alternative
          /\ sent' = (IF focus = "variant" THEN WriteAlternative(object')
                      ELSE [tag |-> object'.alternative, content |-> TRUE])
          /\ subject' = subject /\ focus' = focus /\ document' = document
      BY <1>4 DEF PassOn, Alternative
    <2>2. Alternative' = Alternative
      BY <2>1 DEF Alternative
    <2>3. VariantInv'
      BY <2>1, <2>2 DEF DInv, VariantInv
    <2> QED BY <2>1, <2>3 DEF DInv, StructureInv
  <1>5. CASE UNCHANGED docvars
    <2>1. /\ Codec_' = Codec_ /\ Alternative' = Alternative
          /\ subject' = subject /\ focus' = focus /\ document' = document /\ object' = object
          /\ sent' = sent /\ phase' = phase
      BY <1>5 DEF docvars, Codec_, Alternative
    <2> QED BY <2>1 DEF DInv, StructureInv, VariantInv
  <1> QED BY <1>1, <1>2, <1>3, <1>4, <1>5 DEF DNext

LEMMA DocumentsFollow ==
  DInv => DocumentsReadBack
  <1>0. ASSUME DInv, subject \in DOMAIN Codecs, phase = "held", NEW k \in DOMAIN Codec_.reads,
               Holdable(Codec_, document, k), ~Codec_.fields[Codec_.reads[k]].loses,
               ~UnknownForm(Codec_, Codec_.reads[k], document[k].form)
        PROVE  object.fields[Codec_.reads[k]] = document[k].value
    <2> DEFINE f == Codec_.reads[k]
    <2>1. /\ object = from_json(Codec_, document) /\ object # Thrown
          /\ Regular(Codec_)
      BY <1>0, CodecsAreRegular DEF DInv, StructureInv, Codec_
    <2>2. f \in DOMAIN Codec_.fields
      BY <2>1 DEF Regular
    <2>3. /\ k \in DOMAIN document /\ document[k].form \in Codec_.fields[f].wire
          /\ document[k].value \notin {Huge, NoNumber}
      BY <1>0 DEF Holdable, not_null_all
    <2>4. document[k].form \notin Codec_.fields[f].throws
      BY <2>1, <2>3, <1>0, ReadsAreHeld DEF DInv, StructureInv
    <2>5. document[k].form \in Codec_.fields[f].reads
      BY <1>0, <2>2, <2>3, <2>4, CodecsAreRegular DEF Codec_
    <2>6. Takes(Codec_.fields[f], document[k]) /\ Taken(Codec_.fields[f], document[k]) = document[k].value
      BY <1>0, <2>3, <2>5 DEF Takes, Taken
    <2>7. object.fields[f] = deserialize(Codec_, document, f)
      BY <2>1, <2>2 DEF from_json
    <2> HIDE DEF f
    <2>8. deserialize(Codec_, document, f) = Taken(Codec_.fields[f], document[k])
      BY <1>0, <2>1, <2>6, OneKey DEF f, Holdable
    <2> QED BY <2>6, <2>7, <2>8 DEF f
  <1> SUFFICES ASSUME DInv, subject \in DOMAIN Codecs, phase = "sent"
               PROVE  Finds(from_json(Codec_, sent), Codec_)
    BY <1>0 DEF DInv, StructureInv, VariantInv, DocumentsReadBack, HoldsDocument
  <1>1. /\ sent = to_json(Codec_, object) /\ HeldFrom(Codec_, object, document)
        /\ FromServer(Codec_, document) /\ Regular(Codec_)
    BY CodecsAreRegular DEF DInv, StructureInv, Codec_
  <1>2. /\ Holds(Codec_, object)
        /\ object.raw = IF Codec_.raw THEN document ELSE NoDocument
    BY <1>1 DEF HeldFrom
  <1>3. ASSUME NEW f \in Carried PROVE from_json(Codec_, sent).fields[f] = Meant(Codec_, f)
    <2>1. PICK k : CarriedUnder(Codec_, f, k)
      BY CodecsAreRegular DEF Carried, Codec_
    <2>2. from_json(Codec_, sent).fields[f] = MeantBy(Codec_, object, f)
      BY <1>1, <1>2, <2>1, CodecReadsBack
    <2> QED BY <2>2 DEF MeantBy, Meant
  <1>4. ASSUME Codec_.raw, "unknown_key" \in DOMAIN document
        PROVE  "unknown_key" \in DOMAIN sent /\ sent["unknown_key"] = document["unknown_key"]
    <2>1. Start(Codec_, object) = document
      BY <1>2, <1>4 DEF Start
    <2>2. "unknown_key" \notin Written(Codec_, object) \union Typed(Codec_)
      BY <1>1 DEF Regular, Written, Typed
    <2> QED BY <1>1, <1>4, <2>1, <2>2, ToJsonOf
  <1> QED BY <1>3, <1>4 DEF Finds

LEMMA VariantsFollow ==
  DInv => VariantsReadBack
  <1> SUFFICES ASSUME DInv, subject \notin DOMAIN Codecs, phase = "sent"
               PROVE  IF focus = "variant"
                      THEN document \in Survives(subject) =>
                             sent = [tag |-> document, content |-> TRUE]
                      ELSE document # "a new name" => sent.tag = document
    BY DEF VariantsReadBack
  <1>1. ASSUME focus = "variant", document \in Survives(subject)
        PROVE  sent = [tag |-> document, content |-> TRUE]
    <2> DEFINE union == Unions[subject]
               found == {a \in DOMAIN union.cases : document \in union.cases[a]}
               chosen == IF found = {} THEN union.otherwise ELSE CHOOSE a \in found : TRUE
               type == IF chosen \in DOMAIN Codecs THEN Codecs[chosen].type ELSE 0
    <2>1. subject \in DOMAIN Unions /\ sent = WriteAlternative(ReadAlternative(union, document))
      BY <1>1 DEF DInv, VariantInv, Alternative
    <2>2. /\ sent.tag = IF type # 0 THEN type ELSE document
          /\ sent = [tag |-> sent.tag, content |-> union.keeps \/ found # {}]
      BY <2>1 DEF WriteAlternative, ReadAlternative
    <2>3. /\ \A a \in found : (IF a \in DOMAIN Codecs THEN Codecs[a].type ELSE 0) \in {0, document}
          /\ (IF union.otherwise \in DOMAIN Codecs THEN Codecs[union.otherwise].type ELSE 0) = 0
             \/ ~union.keeps
          /\ ~union.keeps => found # {}
      BY <1>1, <2>1, VariantsAreRegular DEF Survives
    <2>4. found # {} => chosen \in found
      OBVIOUS
    <2>5. type \in {0, document} /\ (union.keeps \/ found # {}) = TRUE
      BY <2>3, <2>4
    <2> HIDE DEF type, union, found
    <2> QED BY <2>2, <2>5
  <1>2. ASSUME focus # "variant", document # "a new name"
        PROVE  sent.tag = document
    <2> DEFINE cases == Names[subject].cases
               found == {a \in DOMAIN cases : document \in cases[a]}
    <2>1. /\ subject \in DOMAIN Names /\ document \in DOMAIN cases
          /\ sent = [tag |-> Alternative.alternative, content |-> TRUE]
      BY <1>2 DEF DInv, VariantInv
    <2>2. found = {document}
      BY <2>1, VariantsAreRegular
    <2>3. Alternative.alternative =
            IF found = {} THEN Names[subject].otherwise ELSE CHOOSE a \in found : TRUE
      <3>1. Alternative = ReadAlternative(Names[subject], document)
        BY <1>2 DEF Alternative
      <3>2. \A u, t : ReadAlternative(u, t).alternative =
              LET f == {a \in DOMAIN u.cases : t \in u.cases[a]}
              IN  IF f = {} THEN u.otherwise ELSE CHOOSE a \in f : TRUE
        BY DEF ReadAlternative
      <3> QED BY <3>1, <3>2
    <2> QED BY <2>1, <2>2, <2>3
  <1> QED BY <1>1, <1>2

\* The life of one API object keeps DInv.
THEOREM DocumentsInductive == DSpec => []DInv
  BY DocumentInit, DocumentStep, PTL DEF DSpec

\* Whatever structure, variant or named value an API object is, whichever
\* document it came from and however the program edited it, from_json of the
\* peer finds in what to_json wrote what the sender held.
THEOREM ObjectsReadBack == DSpec => [](DocumentsReadBack /\ VariantsReadBack)
  <1>1. DInv => DocumentsReadBack /\ VariantsReadBack
    BY DocumentsFollow, VariantsFollow
  <1> QED BY <1>1, DocumentsInductive, PTL

-----------------------------------------------------------------------------
(* Request builders.                                                       *)

CallFields == {"method", "path", "ids", "thrown", "query", "codec", "json", "raw",
               "attachments", "files", "answer"}

\* What a builder may have been told: its setters, each with a value it takes.
Told(name) ==
  CASE name = "CreateResponseWithResponse" -> {"with_response"}
    [] name = "GetChannelMessagesConfigured" -> {"limit"} \union Directions
    [] OTHER -> IF name \in DOMAIN Setters THEN Setters[name] ELSE {}

Legal(name, o) ==
  /\ DOMAIN o \subseteq Told(name)
  /\ \A k \in DOMAIN o : o[k] \in Given(k)
  /\ name = "CreateResponseWithResponse" => DOMAIN o = {"with_response"}
  /\ name = "GetChannelMessagesConfigured" =>
       \E t \in Directions : t \in DOMAIN o /\ DOMAIN o \subseteq {t, "limit"}

\* The query says what was set.
QuerySays(q, o) ==
  /\ \A i \in DOMAIN q : q[i].separator = IF i = 1 THEN "?" ELSE "&"
  /\ \A i, j \in DOMAIN q : q[i].key = q[j].key => i = j
  /\ {q[i].key : i \in DOMAIN q} = DOMAIN o \intersect InQuery

\* The body says what was set.
BodySays(name, call, o) == call.raw = Has(o, "payload_json") /\ call.json = BodyKeys(name, o)

\* The attachments and the files go together.
FilesSay(call, o) ==
  LET a == call.attachments IN
  /\ \A i, j \in DOMAIN a : a[i].id = a[j].id => i = j
  /\ {[part |-> a[i].id, filename |-> a[i].filename] : i \in DOMAIN a} =
       {call.files[i] : i \in DOMAIN call.files}
         \union IF ~call.raw
                THEN {[part |-> Kept(o)[i], filename |-> NoName] : i \in DOMAIN Kept(o)}
                ELSE IF GivenJson(o) = "with attachments" /\ Uploads(o) = <<>>
                THEN {[part |-> MaxUploads, filename |-> NoName]} ELSE {}
  /\ Len(call.files) = Len(Uploads(o))

NoOthers(name, call) ==
  /\ call.ids \subseteq {call.path[k] : k \in DOMAIN call.path}
  /\ \A other \in {n \in DOMAIN Plain : ~Plain[n].thrown} :
       Endpoint(Plain[other]) = Endpoint(call) => Family(other) = Family(name)

Says(name, call, o) ==
  IF call.thrown THEN Cracks(name, o)
  ELSE /\ QuerySays(call.query, o) /\ BodySays(name, call, o) /\ FilesSay(call, o)
       /\ NoOthers(name, call)

\* A call has every part; each of the operators changes one.
LEMMA CallParts ==
  ASSUME NEW m, NEW t, NEW a
  PROVE  /\ DOMAIN Call(m, t, a) = CallFields
         /\ Call(m, t, a).query = <<>> /\ Call(m, t, a).raw = FALSE /\ Call(m, t, a).json = {}
         /\ Call(m, t, a).attachments = <<>> /\ Call(m, t, a).files = <<>>
  BY DEF Call, CallFields

\* Two calls to the same endpoint.
SameTarget(c, d) ==
  c.method = d.method /\ c.path = d.path /\ c.ids = d.ids

LEMMA SameTargetNames ==
  ASSUME NEW c, NEW d, SameTarget(c, d), NEW name, Bare(name, d)
  PROVE  NoOthers(name, c)
  BY DEF NoOthers, Bare, SameTarget, Endpoint

\* Queries of at most two parameters.
LEMMA QueryForms ==
  ASSUME NEW a, NEW b
  PROVE  /\ \A o : DOMAIN o \intersect InQuery = {} => QuerySays(<<>>, o)
         /\ \A o : DOMAIN o \intersect InQuery = {a} => QuerySays(<<Param("?", a)>>, o)
         /\ a # b => \A o : DOMAIN o \intersect InQuery = {a, b} =>
              QuerySays(<<Param("?", a), Param("&", b)>>, o)
  <1>1. Param("?", a) = [separator |-> "?", key |-> a] /\ Param("&", b) = [separator |-> "&", key |-> b]
    BY DEF Param
  <1>2. \A o : DOMAIN o \intersect InQuery = {} => QuerySays(<<>>, o)
    BY DEF QuerySays
  <1>3. \A o : DOMAIN o \intersect InQuery = {a} => QuerySays(<<Param("?", a)>>, o)
    <2> DEFINE q == <<Param("?", a)>>
    <2>1. DOMAIN q = {1} /\ q[1].key = a /\ q[1].separator = "?"
      BY <1>1
    <2> HIDE DEF q
    <2>2. {q[i].key : i \in DOMAIN q} = {a}
      BY <2>1
    <2> QED BY <2>1, <2>2 DEF QuerySays, q
  <1>4. ASSUME a # b
        PROVE  \A o : DOMAIN o \intersect InQuery = {a, b} =>
                 QuerySays(<<Param("?", a), Param("&", b)>>, o)
    <2> DEFINE q == <<Param("?", a), Param("&", b)>>
    <2>1. /\ DOMAIN q = {1, 2} /\ q[1].key = a /\ q[1].separator = "?"
          /\ q[2].key = b /\ q[2].separator = "&"
      BY <1>1
    <2> HIDE DEF q
    <2>2. {q[i].key : i \in DOMAIN q} = {a, b}
      BY <2>1
    <2> QED BY <1>4, <2>1, <2>2 DEF QuerySays, q
  <1> QED BY <1>2, <1>3, <1>4

\* Two parameters, either of which may be missing.
Params(a, b, o) ==
  IF Has(o, a) THEN IF Has(o, b) THEN <<Param("?", a), Param("&", b)>> ELSE <<Param("?", a)>>
  ELSE IF Has(o, b) THEN <<Param("?", b)>> ELSE <<>>

LEMMA ParamsSay ==
  ASSUME NEW a, NEW b, a # b, NEW o, DOMAIN o \subseteq {a, b}, {a, b} \subseteq InQuery
  PROVE  QuerySays(Params(a, b, o), o)
  <1>1. DOMAIN o \intersect InQuery =
          (IF Has(o, a) THEN {a} ELSE {}) \union (IF Has(o, b) THEN {b} ELSE {})
    BY DEF Has
  <1>2. CASE Has(o, a) /\ Has(o, b)
    <2>1. DOMAIN o \intersect InQuery = {a, b}
      BY <1>1, <1>2
    <2> QED BY <1>2, <2>1, QueryForms DEF Params
  <1>3. CASE Has(o, a) /\ ~Has(o, b)
    <2>1. DOMAIN o \intersect InQuery = {a}
      BY <1>1, <1>3
    <2> QED BY <1>3, <2>1, QueryForms DEF Params
  <1>4. CASE ~Has(o, a) /\ Has(o, b)
    <2>1. DOMAIN o \intersect InQuery = {b}
      BY <1>1, <1>4
    <2> QED BY <1>4, <2>1, QueryForms DEF Params
  <1>5. CASE ~Has(o, a) /\ ~Has(o, b)
    <2>1. DOMAIN o \intersect InQuery = {}
      BY <1>1, <1>5
    <2> QED BY <1>5, <2>1, QueryForms DEF Params
  <1> QED BY <1>2, <1>3, <1>4, <1>5

\* A sequence is its elements.
LEMMA ShortSequences ==
  ASSUME NEW S, NEW s \in Seq(S), NEW x \in S, NEW y \in S
  PROVE  /\ Len(s) = 1 /\ s[1] = x => s = <<x>>
         /\ Len(s) = 2 /\ s[1] = x /\ s[2] = y => s = <<x, y>>
  <1>1. <<x>> \in Seq(S) /\ Len(<<x>>) = 1 /\ <<x>>[1] = x
    OBVIOUS
  <1>2. <<x, y>> \in Seq(S) /\ Len(<<x, y>>) = 2 /\ <<x, y>>[1] = x /\ <<x, y>>[2] = y
    OBVIOUS
  <1>3. ASSUME Len(s) = 1, s[1] = x PROVE s = <<x>>
    <2> DEFINE t == <<x>>
    <2>1. t \in Seq(S) /\ Len(t) = 1 /\ t[1] = x
      BY <1>1
    <2> HIDE DEF t
    <2>2. s = t
      <3>1. \A i \in 1..Len(s) : s[i] = t[i]
        BY <1>3, <2>1
      <3> QED BY <1>3, <2>1, <3>1, SeqEqual
    <2> QED BY <2>2 DEF t
  <1>4. ASSUME Len(s) = 2, s[1] = x, s[2] = y PROVE s = <<x, y>>
    <2> DEFINE t == <<x, y>>
    <2>1. t \in Seq(S) /\ Len(t) = 2 /\ t[1] = x /\ t[2] = y
      BY <1>2
    <2> HIDE DEF t
    <2>2. s = t
      <3>1. \A i \in 1..Len(s) : s[i] = t[i]
        <4>1. \A i \in 1..2 : i = 1 \/ i = 2
          OBVIOUS
        <4> QED BY <1>4, <2>1, <4>1
      <3> QED BY <1>4, <2>1, <3>1, SeqEqual
    <2> QED BY <2>2 DEF t
  <1> QED BY <1>3, <1>4

\* Sequences of one and two.
LEMMA Short ==
  ASSUME NEW x, NEW y
  PROVE  /\ <<x>> # <<>> /\ Append(<<>>, x) = <<x>> /\ Append(<<x>>, y) = <<x, y>>
         /\ <<x>> \o <<y>> = <<x, y>> /\ <<x>> \o <<>> = <<x>> /\ <<>> \o <<x>> = <<x>>
         /\ <<>> \o <<>> = <<>>
  <1> DEFINE S == {x, y}
  <1>1. <<>> \in Seq(S) /\ <<x>> \in Seq(S) /\ <<y>> \in Seq(S) /\ <<x, y>> \in Seq(S)
    OBVIOUS
  <1>2. /\ Len(<<>>) = 0 /\ Len(<<x>>) = 1 /\ Len(<<y>>) = 1 /\ Len(<<x, y>>) = 2
        /\ <<x>>[1] = x /\ <<y>>[1] = y /\ <<x, y>>[1] = x /\ <<x, y>>[2] = y
    OBVIOUS
  <1> HIDE DEF S
  <1>3. <<x>> \o <<y>> = <<x, y>>
    <2> DEFINE c == <<x>> \o <<y>>
    <2>1. c \in Seq(S) /\ Len(c) = 2 /\ c[1] = x /\ c[2] = y
      BY <1>1, <1>2, ConcatProperties
    <2>2. x \in S /\ y \in S
      BY DEF S
    <2> HIDE DEF c
    <2>3. c = <<x, y>>
      BY <2>1, <2>2, ShortSequences
    <2> QED BY <2>3 DEF c
  <1>4. <<x>> \o <<>> = <<x>> /\ <<>> \o <<x>> = <<x>> /\ <<>> \o <<>> = <<>>
    BY <1>1, ConcatEmptySeq
  <1>5. Append(<<x>>, y) = <<x, y>> /\ Append(<<>>, x) = <<x>> /\ <<x>> # <<>>
    <2>1. y \in S /\ x \in S
      BY DEF S
    <2>2. /\ Append(<<x>>, y) \in Seq(S) /\ Len(Append(<<x>>, y)) = 2
          /\ Append(<<x>>, y)[1] = x /\ Append(<<x>>, y)[2] = y
          /\ Append(<<>>, x) \in Seq(S) /\ Len(Append(<<>>, x)) = 1 /\ Append(<<>>, x)[1] = x
      BY <1>1, <1>2, <2>1, AppendProperties
    <2> QED BY <1>2, <2>1, <2>2, ShortSequences
  <1> QED BY <1>3, <1>4, <1>5

\* The two ways the builders put them together.
LEMMA JoinsAreParams ==
  ASSUME NEW a, NEW b, NEW o
  PROVE  /\ Join(<<>>, a, o) = IF Has(o, a) THEN <<Param("?", a)>> ELSE <<>>
         /\ Join(Join(<<>>, a, o), b, o) = Params(a, b, o)
         /\ Join(IF Has(o, a) THEN <<Param("?", a)>> ELSE <<>>, b, o) = Params(a, b, o)
         /\ Two(a, b, o) = Params(a, b, o)
  <1>1. /\ <<Param("?", a)>> # <<>> /\ Append(<<>>, Param("?", a)) = <<Param("?", a)>>
        /\ Append(<<>>, Param("?", b)) = <<Param("?", b)>>
        /\ Append(<<Param("?", a)>>, Param("&", b)) = <<Param("?", a), Param("&", b)>>
    BY Short
  <1>2. /\ <<Param("?", a)>> \o <<Param("&", b)>> = <<Param("?", a), Param("&", b)>>
        /\ <<Param("?", a)>> \o <<>> = <<Param("?", a)>> /\ <<>> \o <<Param("?", b)>> = <<Param("?", b)>>
        /\ <<>> \o <<>> = <<>>
    BY Short
  <1>5. Join(<<>>, a, o) = IF Has(o, a) THEN <<Param("?", a)>> ELSE <<>>
    BY <1>1 DEF Join
  <1>6. Join(IF Has(o, a) THEN <<Param("?", a)>> ELSE <<>>, b, o) = Params(a, b, o)
    BY <1>1 DEF Join, Params
  <1>7. Two(a, b, o) = Params(a, b, o)
    BY <1>2 DEF Two, Params
  <1> QED BY <1>5, <1>6, <1>7

\* A codec without exceptions writes the fields that are set and the ones that
\* cannot be unset.
LEMMA KeysOfFields ==
  ASSUME NEW codec, Straight(codec), NEW o
  PROVE  FieldKeys(codec, o) =
           {k \in DOMAIN Codecs[codec].writes :
              k \in {FieldOf(j) : j \in DOMAIN o} \/ ~Codecs[codec].fields[k].optional}
  <1> DEFINE c == Codecs[codec]
             set == {FieldOf(j) : j \in DOMAIN o}
             obj == [Fresh(c) EXCEPT !.fields =
                       [g \in DOMAIN @ |-> IF g \in set THEN <<g, 1>> ELSE @[g]]]
             written == {j \in DOMAIN c.writes : serialize(c, obj, j) # {}}
  <1>1. FieldKeys(codec, o) = DOMAIN to_json(c, obj)
    BY DEF FieldKeys, KeysOf
  <1>2. /\ DOMAIN c.writes \subseteq DOMAIN c.fields
        /\ \A k \in DOMAIN c.writes : c.writes[k] = k
        /\ c.kept = {} /\ c.fills = {} /\ c.nulls = {} /\ c.omits = {} /\ c.type = 0 /\ ~c.raw
    BY DEF Straight
  <1>3. \A f \in DOMAIN c.fields :
          obj.fields[f] = IF f \in set THEN <<f, 1>>
                          ELSE IF c.fields[f].optional THEN Unset ELSE Default
    BY DEF Fresh
  <1>4. \A f : <<f, 1>> # Unset /\ Default # Unset
    BY DEF Unset, Default
  <1> HIDE DEF obj, set, c
  <1>5. ASSUME NEW k \in DOMAIN c.writes
        PROVE  serialize(c, obj, k) # {} <=> (k \in set \/ ~c.fields[k].optional)
    <2>1. c.writes[k] = k /\ k \in DOMAIN c.fields
      BY <1>2, <1>5
    <2>2. obj.fields[k] = Unset <=> ~(k \in set \/ ~c.fields[k].optional)
      BY <1>3, <1>4, <2>1
    <2>3. serialize(c, obj, k) # {} <=> obj.fields[k] # Unset
      BY <1>2, <2>1 DEF serialize
    <2> QED BY <2>2, <2>3
  <1>6. DOMAIN to_json(c, obj) = written
    <2>1. DOMAIN NoDocument = {}
      BY DEF NoDocument
    <2> QED BY <1>2, <2>1 DEF to_json
  <1>7. written = {k \in DOMAIN c.writes : k \in set \/ ~c.fields[k].optional}
    BY <1>5
  <1> QED BY <1>1, <1>6, <1>7 DEF c, set

\* The body of fields: what it always has and what was told.
LEMMA KeysThatWereTold ==
  ASSUME NEW codec, Straight(codec), NEW o
  PROVE  /\ FieldKeys(codec, o) =
              FieldKeys(codec, NoOptions)
                \union ({FieldOf(j) : j \in DOMAIN o} \intersect DOMAIN Codecs[codec].writes)
         /\ Optional(codec) => FieldKeys(codec, NoOptions) = {}
  <1> DEFINE c == Codecs[codec]
             set == {FieldOf(j) : j \in DOMAIN o}
  <1>1. FieldKeys(codec, o) = {k \in DOMAIN c.writes : k \in set \/ ~c.fields[k].optional}
    BY KeysOfFields
  <1>2. {FieldOf(j) : j \in DOMAIN NoOptions} = {}
    BY DEF NoOptions
  <1>3. FieldKeys(codec, NoOptions) = {k \in DOMAIN c.writes : ~c.fields[k].optional}
    BY <1>2, KeysOfFields
  <1>4. Optional(codec) => \A k \in DOMAIN c.writes : c.fields[k].optional
    BY DEF Optional
  <1> HIDE DEF c, set
  <1> QED BY <1>1, <1>3, <1>4 DEF c, set

\* A call without files.
NothingOf(call, o) ==
  IF call.raw THEN GivenJson(o) # "with attachments" ELSE Kept(o) = <<>>

LEMMA NothingAttached ==
  ASSUME NEW call, call.attachments = <<>>, call.files = <<>>, NEW o, Uploads(o) = <<>>,
         NothingOf(call, o)
  PROVE  FilesSay(call, o)
  <1>0. DOMAIN <<>> = {}
    OBVIOUS
  <1>1. DOMAIN call.attachments = {} /\ DOMAIN call.files = {}
    BY <1>0, Zenon
  <1>2. ~call.raw => DOMAIN Kept(o) = {}
    BY <1>0, Zenon DEF NothingOf
  <1>3. Len(call.files) = Len(Uploads(o))
    OBVIOUS
  <1> DEFINE a == call.attachments
             f == call.files
             k == Kept(o)
  <1>4. /\ {[part |-> a[i].id, filename |-> a[i].filename] : i \in DOMAIN a} = {}
        /\ {f[i] : i \in DOMAIN f} = {}
        /\ ~call.raw => {[part |-> k[i], filename |-> NoName] : i \in DOMAIN k} = {}
    <2> HIDE DEF a, f, k
    <2> QED BY <1>1, <1>2, Zenon DEF a, f, k
  <1>5. CASE call.raw
    BY <1>1, <1>3, <1>4, <1>5, Zenon DEF FilesSay, NothingOf
  <1>6. CASE ~call.raw
    BY <1>1, <1>3, <1>4, <1>6, Zenon DEF FilesSay
  <1> QED BY <1>5, <1>6

LEMMA NoFiles ==
  ASSUME NEW call, call.attachments = <<>>, call.files = <<>>, NEW o,
         call.raw = FALSE, Uploads(o) = <<>>, "keep_attachment_ids" \notin DOMAIN o
  PROVE  FilesSay(call, o)
  <1>1. Kept(o) = <<>> /\ ~call.raw
    BY DEF Kept, Has
  <1>2. NothingOf(call, o)
    BY <1>1, Zenon DEF NothingOf
  <1> QED BY <1>2, NothingAttached

\* A body without a list of attachments.
LEMMA NothingListed ==
  ASSUME NEW name, NEW o, NoField \intersect DOMAIN o = {}
  PROVE  /\ Has(o, "payload_json") = FALSE /\ Uploads(o) = <<>>
         /\ "keep_attachment_ids" \notin DOMAIN o
         /\ BodyKeys(name, o) = Always(name) \union ToldFields(name, o)
  <1>1. /\ Has(o, "payload_json") = FALSE /\ Has(o, "attachments") = FALSE
        /\ Has(o, "keep_attachment_ids") = FALSE /\ "keep_attachment_ids" \notin DOMAIN o
    BY DEF Has, NoField
  <1>2. Uploads(o) = <<>> /\ GivenJson(o) = "none"
    BY <1>1 DEF Uploads, GivenJson
  <1>3. ~Listed(o)
    BY <1>1, <1>2 DEF Listed
  <1> QED BY <1>1, <1>2, <1>3 DEF BodyKeys

\* A call that only has a query.
LEMMA OnlyQuery ==
  ASSUME NEW name, NEW call, NEW o, DOMAIN o \subseteq InQuery, call.json = Always(name),
         call.raw = FALSE, call.attachments = <<>>, call.files = <<>>
  PROVE  BodySays(name, call, o) /\ FilesSay(call, o)
  <1>1. NoField \intersect DOMAIN o = {}
    BY DEF InQuery, NoField
  <1>2. ToldFields(name, o) = {}
    <2>1. DOMAIN o \ (InQuery \union {"attachments", "keep_attachment_ids"}) = {}
      OBVIOUS
    <2> QED BY <2>1 DEF ToldFields
  <1>3. BodySays(name, call, o)
    BY <1>1, <1>2, NothingListed DEF BodySays
  <1>4. FilesSay(call, o)
    BY <1>1, NothingListed, NoFiles
  <1> QED BY <1>3, <1>4

\* The builders with a choice have no key of their own.
LEMMA ChoosersHaveNoBody ==
  ASSUME NEW name \in Choosing
  PROVE  Always(name) = {}
  BY DEF Always

\* A call that differs from another in its query.
Asks(call, base) ==
  /\ SameTarget(call, base) /\ call.thrown = base.thrown /\ call.json = {}
  /\ call.raw = FALSE /\ call.attachments = <<>> /\ call.files = <<>>

LEMMA Get ==
  ASSUME NEW t, NEW a, NEW T, NEW base, base = Reads(Call("get", t, a), T)
  PROVE  /\ DOMAIN base = CallFields /\ base.query = <<>> /\ Asks(base, base)
         /\ \A q : Asks([base EXCEPT !.query = q], base) /\ [base EXCEPT !.query = q].query = q
  <1> DEFINE c == Call("get", t, a)
  <1>1. /\ DOMAIN c = CallFields /\ c.query = <<>> /\ c.raw = FALSE /\ c.json = {}
        /\ c.attachments = <<>> /\ c.files = <<>>
    BY CallParts
  <1>2. base = [c EXCEPT !.answer = T]
    BY DEF Reads
  <1> HIDE DEF c
  <1>3. /\ DOMAIN base = CallFields /\ base.query = <<>> /\ base.raw = FALSE /\ base.json = {}
        /\ base.attachments = <<>> /\ base.files = <<>>
    BY <1>1, <1>2 DEF CallFields
  <1>4. \A q : Asks([base EXCEPT !.query = q], base) /\ [base EXCEPT !.query = q].query = q
    BY <1>3 DEF CallFields, SameTarget, Asks
  <1> QED BY <1>3, <1>4 DEF Asks, SameTarget

\* A builder that asks for one thing, with the query it makes of its options.
LEMMA Getting ==
  ASSUME NEW name \in Choosing, NEW base, NEW call, NEW sample, Asks(call, base), Asks(sample, base),
         Bare(name, sample), ~sample.thrown,
         NEW o, DOMAIN o \subseteq InQuery, QuerySays(call.query, o)
  PROVE  Says(name, call, o)
  <1>1. SameTarget(call, sample) /\ ~call.thrown
    BY DEF SameTarget, Asks
  <1>2. NoOthers(name, call)
    BY <1>1, SameTargetNames
  <1>3. BodySays(name, call, o) /\ FilesSay(call, o)
    BY OnlyQuery, ChoosersHaveNoBody DEF Asks
  <1> QED BY <1>1, <1>2, <1>3 DEF Says

\* Which builder makes the request.
LEMMA Dispatch ==
  ASSUME NEW o
  PROVE  /\ HttpRequest("GetGuild", o) = GetGuild(o)
         /\ HttpRequest("GetGuildBans", o) = GetGuildBans(o)
         /\ HttpRequest("GetReactions", o) = GetReactions(o)
         /\ HttpRequest("ListGuildMembers", o) = ListGuildMembers(o)
         /\ HttpRequest("SearchGuildMembers", o) = SearchGuildMembers(o)
         /\ HttpRequest("GetChannelMessages", o) = GetChannelMessages(o)
         /\ HttpRequest("GetChannelMessagesConfigured", o) = GetChannelMessagesConfigured(o)
         /\ HttpRequest("EditOriginalResponse", o) = EditOriginalResponse(o)
         /\ HttpRequest("CreateMessage", o) = CreateMessage(o)
         /\ HttpRequest("EditMessage", o) = EditMessage(o)
         /\ \A name : name \notin Choosing => HttpRequest(name, o) =
              IF Plain[name].codec = "" THEN Plain[name]
              ELSE [Plain[name] EXCEPT !.json = FieldKeys(Plain[name].codec, o)]
  BY DEF HttpRequest, Choosing, Filled

LEMMA GetGuildSays ==
  ASSUME NEW o, DOMAIN o \subseteq {"with_counts"}
  PROVE  Says("GetGuild", GetGuild(o), o)
  <1> DEFINE base == Reads(Call("get", guild, G), "Guild")
             Query(p) == IF Has(p, "with_counts") THEN <<Param("?", "with_counts")>> ELSE base.query
  <1>1. DOMAIN o \subseteq InQuery
    BY DEF InQuery
  <1>2. /\ "GetGuild" \in Choosing
        /\ Bare("GetGuild", GetGuild(NoOptions)) /\ ~GetGuild(NoOptions).thrown
    BY ChoosersAreRegular, Dispatch DEF Choosing, Sample
  <1>3. \A p : GetGuild(p) = [base EXCEPT !.query = Query(p)]
    BY Zenon DEF GetGuild
  <1>4. /\ base.query = <<>>
        /\ \A q : Asks([base EXCEPT !.query = q], base) /\ [base EXCEPT !.query = q].query = q
    BY Get
  <1> HIDE DEF base
  <1>5. DOMAIN o \intersect InQuery = IF Has(o, "with_counts") THEN {"with_counts"} ELSE {}
    BY <1>1 DEF Has
  <1>6. QuerySays(Query(o), o)
    BY <1>4, <1>5, QueryForms
  <1> HIDE DEF Query
  <1>7. \A p : Asks(GetGuild(p), base) /\ GetGuild(p).query = Query(p)
    BY <1>3, <1>4
  <1> QED BY <1>1, <1>2, <1>6, <1>7, Getting

LEMMA GetReactionsSays ==
  ASSUME NEW o, DOMAIN o \subseteq {"after", "limit"}
  PROVE  Says("GetReactions", GetReactions(o), o)
  <1> DEFINE template == message \o <<"reactions", "{}">>
             args == CM \o <<"emoji">>
             base == Reads(Call("get", template, args), "User")
  <1>1. {"after", "limit"} \subseteq InQuery
    BY DEF InQuery
  <1>2. /\ "GetReactions" \in Choosing
        /\ Bare("GetReactions", GetReactions(NoOptions)) /\ ~GetReactions(NoOptions).thrown
    BY ChoosersAreRegular, Dispatch DEF Choosing, Sample
  <1>3. \A p : GetReactions(p) = [base EXCEPT !.query = Params("after", "limit", p)]
    BY JoinsAreParams, Zenon DEF GetReactions
  <1> HIDE DEF template, args
  <1>4. \A q : Asks([base EXCEPT !.query = q], base) /\ [base EXCEPT !.query = q].query = q
    BY Get
  <1> HIDE DEF base
  <1>5. QuerySays(Params("after", "limit", o), o)
    BY <1>1, ParamsSay
  <1>6. \A p : Asks(GetReactions(p), base) /\ GetReactions(p).query = Params("after", "limit", p)
    BY <1>3, <1>4
  <1> QED BY <1>1, <1>2, <1>5, <1>6, Getting

LEMMA ListGuildMembersSays ==
  ASSUME NEW o, DOMAIN o \subseteq {"limit", "after"}
  PROVE  Says("ListGuildMembers", ListGuildMembers(o), o)
  <1> DEFINE template == guild \o <<"members">>
             args == G
             base == Reads(Call("get", template, args), "GuildMember")
  <1>1. {"limit", "after"} \subseteq InQuery
    BY DEF InQuery
  <1>2. /\ "ListGuildMembers" \in Choosing
        /\ Bare("ListGuildMembers", ListGuildMembers(NoOptions)) /\ ~ListGuildMembers(NoOptions).thrown
    BY ChoosersAreRegular, Dispatch DEF Choosing, Sample
  <1>3. \A p : ListGuildMembers(p) = [base EXCEPT !.query = Params("limit", "after", p)]
    BY JoinsAreParams, Zenon DEF ListGuildMembers
  <1> HIDE DEF template, args
  <1>4. \A q : Asks([base EXCEPT !.query = q], base) /\ [base EXCEPT !.query = q].query = q
    BY Get
  <1> HIDE DEF base
  <1>5. QuerySays(Params("limit", "after", o), o)
    BY <1>1, ParamsSay
  <1>6. \A p : Asks(ListGuildMembers(p), base) /\ ListGuildMembers(p).query = Params("limit", "after", p)
    BY <1>3, <1>4
  <1> QED BY <1>1, <1>2, <1>5, <1>6, Getting

LEMMA SearchGuildMembersSays ==
  ASSUME NEW o, DOMAIN o \subseteq {"query", "limit"}
  PROVE  Says("SearchGuildMembers", SearchGuildMembers(o), o)
  <1> DEFINE template == guild \o <<"members", "search">>
             args == G
             base == Reads(Call("get", template, args), "GuildMember")
  <1>1. {"query", "limit"} \subseteq InQuery
    BY DEF InQuery
  <1>2. /\ "SearchGuildMembers" \in Choosing
        /\ Bare("SearchGuildMembers", SearchGuildMembers(NoOptions)) /\ ~SearchGuildMembers(NoOptions).thrown
    BY ChoosersAreRegular, Dispatch DEF Choosing, Sample
  <1>3. \A p : SearchGuildMembers(p) = [base EXCEPT !.query = Params("query", "limit", p)]
    BY JoinsAreParams, Zenon DEF SearchGuildMembers
  <1> HIDE DEF template, args
  <1>4. \A q : Asks([base EXCEPT !.query = q], base) /\ [base EXCEPT !.query = q].query = q
    BY Get
  <1> HIDE DEF base
  <1>5. QuerySays(Params("query", "limit", o), o)
    BY <1>1, ParamsSay
  <1>6. \A p : Asks(SearchGuildMembers(p), base) /\ SearchGuildMembers(p).query = Params("query", "limit", p)
    BY <1>3, <1>4
  <1> QED BY <1>1, <1>2, <1>5, <1>6, Getting

LEMMA GetChannelMessagesSays ==
  ASSUME NEW o, DOMAIN o \subseteq {"limit"}
  PROVE  Says("GetChannelMessages", GetChannelMessages(o), o)
  <1> DEFINE template == channel \o <<"messages">>
             base == Reads(Call("get", template, C), "Message")
             Query(p) == IF Has(p, "limit") THEN <<Param("?", "limit")>> ELSE <<>>
  <1>1. DOMAIN o \subseteq InQuery
    BY DEF InQuery
  <1>2. /\ "GetChannelMessages" \in Choosing
        /\ Bare("GetChannelMessages", GetChannelMessages(NoOptions)) /\ ~GetChannelMessages(NoOptions).thrown
    BY ChoosersAreRegular, Dispatch DEF Choosing, Sample
  <1>3. \A p : GetChannelMessages(p) = [base EXCEPT !.query = Query(p)]
    BY Zenon DEF GetChannelMessages
  <1> HIDE DEF template
  <1>4. \A q : Asks([base EXCEPT !.query = q], base) /\ [base EXCEPT !.query = q].query = q
    BY Get
  <1> HIDE DEF base
  <1>5. DOMAIN o \intersect InQuery = IF Has(o, "limit") THEN {"limit"} ELSE {}
    BY <1>1 DEF Has
  <1>6. QuerySays(Query(o), o)
    BY <1>5, QueryForms
  <1> HIDE DEF Query
  <1>7. \A p : Asks(GetChannelMessages(p), base) /\ GetChannelMessages(p).query = Query(p)
    BY <1>3, <1>4
  <1> QED BY <1>1, <1>2, <1>6, <1>7, Getting

\* around(), before() or after(), and perhaps a limit.
LEMMA GetChannelMessagesConfiguredSays ==
  ASSUME NEW o, NEW t \in Directions, t \in DOMAIN o, DOMAIN o \subseteq {t, "limit"}
  PROVE  Says("GetChannelMessagesConfigured", GetChannelMessagesConfigured(o), o)
  <1> DEFINE template == channel \o <<"messages">>
             base == Reads(Call("get", template, C), "Message")
             Type(p) == CHOOSE d \in Directions : Has(p, d)
             Query(p) == IF Has(p, "limit") THEN <<Param("?", "limit"), Param("&", Type(p))>>
                         ELSE <<Param("?", Type(p))>>
             First(p) == IF Has(p, "limit") THEN <<Param("?", "limit")>> ELSE <<>>
  <1>1. DOMAIN o \subseteq InQuery /\ t # "limit"
    BY DEF InQuery, Directions
  <1>2. /\ "GetChannelMessagesConfigured" \in Choosing
        /\ Bare("GetChannelMessagesConfigured", GetChannelMessagesConfigured(Telling(NoOptions, "around", "value")))
        /\ ~GetChannelMessagesConfigured(Telling(NoOptions, "around", "value")).thrown
    BY ChoosersAreRegular, Dispatch DEF Choosing, Sample
  <1>3. \A p : GetChannelMessages(p) = [base EXCEPT !.query = First(p)]
    BY Zenon DEF GetChannelMessages
  <1>4. \A p : GetChannelMessagesConfigured(p) = [GetChannelMessages(p) EXCEPT !.query = Query(p)]
    BY Zenon DEF GetChannelMessagesConfigured
  <1> HIDE DEF template
  <1>5. /\ DOMAIN base = CallFields /\ Asks(base, base)
        /\ \A q : Asks([base EXCEPT !.query = q], base) /\ [base EXCEPT !.query = q].query = q
    BY Get
  <1> HIDE DEF base
  <1>6. Type(o) = t
    BY <1>1 DEF Directions, Has
  <1>7. QuerySays(Query(o), o)
    <2>1. DOMAIN o \intersect InQuery = IF Has(o, "limit") THEN {"limit", t} ELSE {t}
      BY <1>1 DEF Has
    <2> QED BY <1>1, <1>6, <2>1, QueryForms
  <1> HIDE DEF Query, First
  <1>8. \A p : [[base EXCEPT !.query = First(p)] EXCEPT !.query = Query(p)] = [base EXCEPT !.query = Query(p)]
    BY <1>5
  <1>9. \A p : Asks(GetChannelMessagesConfigured(p), base) /\ GetChannelMessagesConfigured(p).query = Query(p)
    BY <1>3, <1>4, <1>5, <1>8
  <1> QED BY <1>1, <1>2, <1>7, <1>9, Getting

LEMMA GetGuildBansSays ==
  ASSUME NEW o, DOMAIN o \subseteq {"limit", "before", "after"}
  PROVE  Says("GetGuildBans", GetGuildBans(o), o)
  <1> DEFINE template == guild \o <<"bans">>
             base == Reads(Call("get", template, G), "Ban")
             sample == GetGuildBans(NoOptions)
             call == GetGuildBans(o)
  <1>1. DOMAIN o \subseteq InQuery /\ {"before", "after"} \subseteq InQuery
    BY DEF InQuery
  <1>2. Bare("GetGuildBans", sample) /\ Always("GetGuildBans") = {}
    BY ChoosersAreRegular, ChoosersHaveNoBody, Dispatch DEF Choosing, Sample
  <1>3. \A p : GetGuildBans(p) = [base EXCEPT !.thrown = Has(p, "limit"),
                                              !.query = Params("before", "after", p)]
    BY JoinsAreParams, Zenon DEF GetGuildBans
  <1> HIDE DEF template
  <1>4. DOMAIN base = CallFields /\ Asks(base, base)
    BY Get
  <1> HIDE DEF base
  <1>5. \A p : LET c == GetGuildBans(p) IN
          /\ c.thrown = Has(p, "limit") /\ c.query = Params("before", "after", p) /\ c.json = {}
          /\ SameTarget(c, base) /\ c.raw = FALSE /\ c.attachments = <<>> /\ c.files = <<>>
    BY <1>3, <1>4 DEF CallFields, Asks, SameTarget
  <1>6. CASE Has(o, "limit")
    BY <1>5, <1>6 DEF Says, Cracks
  <1>7. CASE ~Has(o, "limit")
    <2>1. QuerySays(call.query, o)
      <3>1. DOMAIN o \subseteq {"before", "after"}
        BY <1>7 DEF Has
      <3> QED BY <1>1, <1>5, <3>1, ParamsSay
    <2>2. SameTarget(call, sample)
      BY <1>5 DEF SameTarget
    <2>3. NoOthers("GetGuildBans", call)
      BY <1>2, <2>2, SameTargetNames
    <2>4. BodySays("GetGuildBans", call, o) /\ FilesSay(call, o)
      BY <1>1, <1>2, <1>5, OnlyQuery
    <2> QED BY <1>5, <1>7, <2>1, <2>3, <2>4 DEF Says
  <1> QED BY <1>6, <1>7

\* The body of an edited response is what was set.
LEMMA EditOriginalResponseSays ==
  ASSUME NEW o, DOMAIN o \subseteq EditOriginalResponse_setters
  PROVE  Says("EditOriginalResponse", EditOriginalResponse(o), o)
  <1> DEFINE name == "EditOriginalResponse"
             template == <<"webhooks", "{}", "{}", "messages", "@original">>
             args == <<"application_id", "interaction_token">>
             base == Call("patch", template, args)
             sample == EditOriginalResponse(NoOptions)
             call == EditOriginalResponse(o)
  <1>1. Bare(name, sample) /\ ~sample.thrown /\ Always(name) = {} /\ LostBy(name) = {}
    BY ChoosersAreRegular, ChoosersHaveNoBody, Dispatch DEF Choosing, Sample, LostBy
  <1>2. \A p : EditOriginalResponse(p) = [[base EXCEPT !.json = DOMAIN p] EXCEPT !.answer = "Message"]
    BY Zenon DEF EditOriginalResponse, Reads, Carries
  <1> HIDE DEF template, args
  <1>3. /\ DOMAIN base = CallFields /\ base.query = <<>> /\ base.raw = FALSE
        /\ base.attachments = <<>> /\ base.files = <<>>
    BY CallParts
  <1> HIDE DEF base
  <1>4. \A p : LET c == EditOriginalResponse(p) IN
          /\ c.thrown = base.thrown /\ c.query = <<>> /\ c.json = DOMAIN p
          /\ SameTarget(c, base) /\ c.raw = FALSE /\ c.attachments = <<>> /\ c.files = <<>>
    BY <1>2, <1>3 DEF CallFields, SameTarget
  <1>5. /\ NoField \intersect DOMAIN o = {} /\ DOMAIN o \intersect InQuery = {}
        /\ \A k \in DOMAIN o : FieldOf(k) = k
    BY DEF EditOriginalResponse_setters, InQuery, FieldOf, NoField
  <1>6. QuerySays(call.query, o)
    BY <1>4, <1>5, QueryForms
  <1>7. BodySays(name, call, o)
    <2>1. call.raw = FALSE /\ call.json = DOMAIN o
      BY <1>4
    <2>2. DOMAIN o \ (InQuery \union {"attachments", "keep_attachment_ids"}) = DOMAIN o
      BY <1>5 DEF NoField
    <2>3. ToldFields(name, o) = DOMAIN o
      BY <1>1, <1>5, <2>2 DEF ToldFields
    <2>4. Has(o, "payload_json") = FALSE /\ BodyKeys(name, o) = Always(name) \union ToldFields(name, o)
      BY <1>5, NothingListed
    <2>5. BodyKeys(name, o) = DOMAIN o
      BY <1>1, <2>3, <2>4
    <2> HIDE DEF call, name
    <2> QED BY <2>1, <2>4, <2>5 DEF BodySays
  <1>8. FilesSay(call, o)
    BY <1>4, <1>5, NothingListed, NoFiles
  <1>9. SameTarget(call, sample) /\ ~call.thrown
    BY <1>1, <1>4 DEF SameTarget
  <1>10. NoOthers(name, call)
    BY <1>1, <1>9, SameTargetNames
  <1> QED BY <1>6, <1>7, <1>8, <1>9, <1>10 DEF Says

\* The builders without a choice.
LEMMA PlainSays ==
  ASSUME NEW name \in DOMAIN Plain, NEW o, Legal(name, o)
  PROVE  Says(name, HttpRequest(name, o), o)
  <1> DEFINE p == Plain[name]
             call == HttpRequest(name, o)
  <1>1. /\ name \notin Choosing /\ Bare(name, p) /\ (p.thrown => name = "DeleteAllReactions")
        /\ p.query = IF name = "CreateResponseWithResponse"
                     THEN <<Param("?", "with_response")>> ELSE <<>>
    BY BuildersAreRegular
  <1>2. call = IF p.codec = "" THEN p ELSE [p EXCEPT !.json = FieldKeys(p.codec, o)]
    BY <1>1, Dispatch
  <1>3. DOMAIN p = CallFields
    BY <1>1, CallParts DEF Bare, NoRequest
  <1>4. name \in DOMAIN Setters =>
          /\ name # "CreateResponseWithResponse" /\ p.codec # "" /\ Straight(p.codec)
          /\ Setters[name] \intersect (InQuery \union NoField \union {"reply"}) = {}
          /\ Setters[name] \intersect DOMAIN Codecs[p.codec].writes = Setters[name] \ LostBy(name)
    BY BuildersAreRegular
  <1>5. name # "GetChannelMessagesConfigured"
    BY <1>1 DEF Choosing
  <1>6. \/ name = "CreateResponseWithResponse" /\ DOMAIN o = {"with_response"}
        \/ name # "CreateResponseWithResponse" /\ name \in DOMAIN Setters /\ DOMAIN o \subseteq Setters[name]
        \/ name # "CreateResponseWithResponse" /\ DOMAIN o = {}
    BY <1>5 DEF Legal, Told
  <1>13. /\ p.codec # "" => Straight(p.codec)
         /\ name = "CreateResponseWithResponse" => p.codec = ""
    <2>1. (p.codec # "") = (name \in DOMAIN Setters)
      BY BuildersAreRegular
    <2> QED BY <1>4, <2>1
  <1> HIDE DEF p, call
  <1>7. /\ SameTarget(call, p) /\ call.thrown = p.thrown /\ call.query = p.query
        /\ call.raw = FALSE /\ call.attachments = <<>> /\ call.files = <<>>
        /\ p.codec # "" => call.json = FieldKeys(p.codec, o) /\ Straight(p.codec)
    BY <1>1, <1>2, <1>3, <1>13 DEF CallFields, SameTarget, Bare
  <1>14. /\ p.codec = "" => call.json = Always(name)
         /\ p.codec # "" => Always(name) = FieldKeys(p.codec, NoOptions)
    <2>1. Always(name) =
            (IF p.codec = "" THEN p
             ELSE [p EXCEPT !.json = FieldKeys(p.codec, NoOptions)]).json
      BY <1>1 DEF Always, Filled, p
    <2> QED BY <1>2, <1>3, <2>1 DEF CallFields
  <1>15. DOMAIN o = {} => call.json = Always(name)
    <2>1. DOMAIN o = {} => {FieldOf(j) : j \in DOMAIN o} = {}
      OBVIOUS
    <2>2. ASSUME DOMAIN o = {}, p.codec # ""
          PROVE  FieldKeys(p.codec, o) = FieldKeys(p.codec, NoOptions)
      <3> DEFINE set == {FieldOf(j) : j \in DOMAIN o}
                 w == DOMAIN Codecs[p.codec].writes
      <3>1. FieldKeys(p.codec, o) = FieldKeys(p.codec, NoOptions) \union (set \intersect w)
        BY <1>7, <2>2, KeysThatWereTold
      <3>2. set = {}
        BY <2>1, <2>2
      <3> HIDE DEF set, w
      <3> QED BY <3>1, <3>2
    <2> QED BY <1>7, <1>14, <2>2
  <1>8. NoOthers(name, call)
    BY <1>1, <1>7, SameTargetNames
  <1>9. call.thrown => Cracks(name, o)
    BY <1>1, <1>7 DEF Cracks
  <1>10. CASE name = "CreateResponseWithResponse" /\ DOMAIN o = {"with_response"}
    <2>1. DOMAIN o \subseteq InQuery /\ DOMAIN o \intersect InQuery = {"with_response"}
      BY <1>10 DEF InQuery
    <2>2. QuerySays(call.query, o)
      BY <1>1, <1>7, <1>10, <2>1, QueryForms
    <2>3. BodySays(name, call, o) /\ FilesSay(call, o)
      BY <1>7, <1>10, <1>13, <1>14, <2>1, OnlyQuery
    <2> QED BY <1>8, <1>9, <2>2, <2>3 DEF Says, call
  <1>11. CASE name # "CreateResponseWithResponse" /\ DOMAIN o = {}
    <2>1. QuerySays(call.query, o)
      BY <1>1, <1>7, <1>11, QueryForms
    <2>2. BodySays(name, call, o) /\ FilesSay(call, o)
      BY <1>7, <1>11, <1>15, OnlyQuery
    <2> QED BY <1>8, <1>9, <2>1, <2>2 DEF Says, call
  <1>12. CASE name \in DOMAIN Setters /\ DOMAIN o \subseteq Setters[name]
    <2>1. /\ DOMAIN o \intersect InQuery = {} /\ NoField \intersect DOMAIN o = {}
          /\ "reply" \notin DOMAIN o
      BY <1>4, <1>12
    <2>2. QuerySays(call.query, o)
      BY <1>1, <1>4, <1>7, <1>12, <2>1, QueryForms
    <2>3. FilesSay(call, o)
      BY <1>7, <2>1, NothingListed, NoFiles
    <2>4. \A k \in DOMAIN o : FieldOf(k) = k
      BY <2>1 DEF FieldOf, NoField
    <2>5. {FieldOf(k) : k \in DOMAIN o} = DOMAIN o /\ ToldFields(name, o) = DOMAIN o \ LostBy(name)
      <3>1. DOMAIN o \ (InQuery \union {"attachments", "keep_attachment_ids"}) = DOMAIN o
        BY <2>1 DEF NoField
      <3> QED BY <2>4, <3>1 DEF ToldFields
    <2>6. DOMAIN o \intersect DOMAIN Codecs[p.codec].writes = DOMAIN o \ LostBy(name)
      BY <1>4, <1>12
    <2>7. call.json = Always(name) \union ToldFields(name, o)
      <3> DEFINE set == {FieldOf(j) : j \in DOMAIN o}
                 w == DOMAIN Codecs[p.codec].writes
      <3>1. FieldKeys(p.codec, o) = FieldKeys(p.codec, NoOptions) \union (set \intersect w)
        BY <1>4, <1>12, KeysThatWereTold
      <3>2. set \intersect w = ToldFields(name, o)
        BY <2>5, <2>6
      <3> HIDE DEF set, w
      <3> QED BY <1>4, <1>7, <1>12, <1>14, <3>1, <3>2
    <2>8. BodySays(name, call, o)
      BY <1>7, <2>1, <2>7, NothingListed DEF BodySays
    <2> QED BY <1>8, <1>9, <2>2, <2>3, <2>8 DEF Says, call
  <1> QED BY <1>6, <1>10, <1>11, <1>12

-----------------------------------------------------------------------------
(* Messages with files.                                                    *)

\* The fields of a codec are what its setters set.
Sets(codec, setters) ==
  /\ Straight(codec) /\ Optional(codec) /\ InQuery \intersect setters = {}
  /\ \A k \in setters \ NoField : FieldOf(k) \in DOMAIN Codecs[codec].writes
  /\ {"m_upload_attachments", "m_keep_attachment_ids"} \intersect DOMAIN Codecs[codec].writes = {}

LEMMA MessagesSet ==
  /\ Sets("CreateMessageFields", CreateMessage_setters)
  /\ Sets("EditMessageFields", EditMessage_setters)
  /\ "keep_attachment_ids" \notin CreateMessage_setters
  <1> DEFINE pairs == {<<CreateMessage_setters, "CreateMessageFields">>,
                       <<EditMessage_setters, "EditMessageFields">>}
  <1>1. ASSUME NEW m \in pairs PROVE Sets(m[2], m[1])
    BY BuildersAreRegular DEF Sets
  <1>2. /\ <<CreateMessage_setters, "CreateMessageFields">> \in pairs
        /\ <<EditMessage_setters, "EditMessageFields">> \in pairs
    OBVIOUS
  <1> HIDE DEF pairs
  <1>3. Sets("CreateMessageFields", CreateMessage_setters)
    BY <1>1, <1>2
  <1>4. Sets("EditMessageFields", EditMessage_setters)
    BY <1>1, <1>2
  <1> QED BY <1>3, <1>4, BuildersAreRegular

\* The two builders of messages.
Messages == {"CreateMessage", "EditMessage"}

LEMMA MessagesAreChosen ==
  ASSUME NEW name \in Messages
  PROVE  name \in Choosing /\ Always(name) = {} /\ LostBy(name) = {}
  <1>1. name \in Choosing
    BY DEF Messages, Choosing
  <1>2. LostBy(name) = {}
    BY DEF Messages, LostBy
  <1> QED BY <1>1, <1>2, ChoosersHaveNoBody

\* What the fields of a message write is what was told.
LEMMA MessageFields ==
  ASSUME NEW name \in Messages, NEW codec, NEW setters, Sets(codec, setters),
         NEW o, DOMAIN o \subseteq setters, ~Has(o, "payload_json")
  PROVE  /\ FieldKeys(codec, o) \ {"payload_json", "attachments"} = ToldFields(name, o)
         /\ FieldKeys(codec, o) = {} => DOMAIN o \subseteq {"attachments", "keep_attachment_ids"}
  <1> DEFINE w == DOMAIN Codecs[codec].writes
             keys == FieldKeys(codec, o)
             rest == DOMAIN o \ {"attachments", "keep_attachment_ids"}
  <1>1. keys = {FieldOf(j) : j \in DOMAIN o} \intersect w
    BY KeysThatWereTold DEF Sets
  <1>2. /\ FieldOf("attachments") = "m_upload_attachments"
        /\ FieldOf("keep_attachment_ids") = "m_keep_attachment_ids"
    BY DEF FieldOf
  <1>3. FieldOf("attachments") \notin w /\ FieldOf("keep_attachment_ids") \notin w
    BY <1>2 DEF Sets
  <1>4. ASSUME NEW k \in rest PROVE FieldOf(k) \in w /\ FieldOf(k) \notin {"payload_json", "attachments"}
    <2>1. k \notin NoField
      BY <1>4 DEF Has, NoField
    <2>2. FieldOf(k) \notin {"payload_json", "attachments"}
      BY <2>1 DEF FieldOf, NoField
    <2> QED BY <1>4, <2>1, <2>2 DEF Sets
  <1>5. keys = {FieldOf(k) : k \in rest}
    <2> HIDE DEF w, keys
    <2>1. ASSUME NEW f \in keys PROVE f \in {FieldOf(k) : k \in rest}
      <3>1. PICK k \in DOMAIN o : f = FieldOf(k)
        BY <1>1, <2>1
      <3>2. k \in rest
        BY <1>1, <1>3, <2>1, <3>1
      <3> QED BY <3>1, <3>2
    <2>2. ASSUME NEW k \in rest PROVE FieldOf(k) \in keys
      BY <1>1, <1>4, <2>2
    <2> QED BY <2>1, <2>2
  <1>6. ToldFields(name, o) = {FieldOf(k) : k \in rest}
    <2>1. DOMAIN o \ (InQuery \union {"attachments", "keep_attachment_ids"}) = rest
      BY DEF Sets
    <2>2. LostBy(name) = {}
      BY MessagesAreChosen
    <2> QED BY <2>1, <2>2 DEF ToldFields
  <1>7. keys \ {"payload_json", "attachments"} = keys
    <2> HIDE DEF w, keys
    <2> QED BY <1>4, <1>5
  <1>8. keys = {} => rest = {}
    BY <1>5
  <1> QED BY <1>5, <1>6, <1>7, <1>8

\* A call with the body of a message; the list is the caller's own.
OwnList(o) == GivenJson(o) = "with attachments"

WithBody(name, b, base, o) ==
  /\ DOMAIN b = CallFields /\ SameTarget(b, base) /\ b.query = base.query
  /\ b.files = base.files /\ b.raw = Has(o, "payload_json")
  /\ b.json = (IF b.raw THEN {} ELSE ToldFields(name, o))
                \union (IF OwnList(o) THEN {"attachments"} ELSE {})
  /\ b.attachments = IF OwnList(o) THEN PayloadList ELSE <<>>
  /\ base.thrown => b.thrown
  /\ b.thrown => base.thrown \/ Cracks(name, o)

LEMMA MessageBodySays ==
  ASSUME NEW name \in Messages, NEW base, DOMAIN base = CallFields, base.raw = FALSE,
         base.json = {}, base.attachments = <<>>,
         NEW codec, NEW setters, Sets(codec, setters), NEW o, DOMAIN o \subseteq setters
  PROVE  WithBody(name, MessageBody(base, FieldKeys(codec, o), o), base, o)
  <1> DEFINE b == MessageBody(base, FieldKeys(codec, o), o)
             raw == [base EXCEPT !.raw = TRUE]
             keys == FieldKeys(codec, o)
  <1>1. /\ Has(o, "payload_json") \in BOOLEAN
        /\ OwnList(o) => Has(o, "payload_json")
    <2>1. Has(o, "payload_json") \in BOOLEAN
      BY DEF Has
    <2>2. OwnList(o) => Has(o, "payload_json")
      BY DEF OwnList, GivenJson
    <2> QED BY <2>1, <2>2
  <1>2. CASE OwnList(o)
    <2>1. b = [raw EXCEPT !.json = raw.json \union {"attachments"}, !.attachments = PayloadList]
      BY <1>2, Zenon DEF MessageBody, Listing, OwnList
    <2> HIDE DEF b
    <2>2. DOMAIN raw = CallFields /\ raw.json = {}
      BY DEF CallFields
    <2>3. /\ DOMAIN b = CallFields /\ SameTarget(b, base) /\ b.query = base.query
          /\ b.files = base.files /\ b.raw = TRUE /\ b.thrown = base.thrown
          /\ b.json = {"attachments"} /\ b.attachments = PayloadList
      BY <2>1, <2>2 DEF CallFields, SameTarget
    <2> QED BY <1>1, <1>2, <2>3 DEF WithBody, b
  <1>3. CASE ~OwnList(o) /\ Has(o, "payload_json")
    <2>1. b = raw
      BY <1>3 DEF MessageBody, OwnList
    <2> HIDE DEF b
    <2>2. /\ DOMAIN b = CallFields /\ SameTarget(b, base) /\ b.query = base.query
          /\ b.files = base.files /\ b.raw = TRUE /\ b.thrown = base.thrown
          /\ b.json = {} /\ b.attachments = <<>>
      BY <2>1 DEF CallFields, SameTarget
    <2> QED BY <1>1, <1>3, <2>2 DEF WithBody, b
  <1>4. CASE ~Has(o, "payload_json")
    <2>1. b = [base EXCEPT !.json = keys \ {"payload_json", "attachments"},
                           !.thrown = base.thrown \/ keys = {}]
      BY <1>1, <1>4, Zenon DEF MessageBody, OwnList
    <2>2. keys \ {"payload_json", "attachments"} = ToldFields(name, o)
      BY <1>4, MessageFields
    <2>3. keys = {} => Cracks(name, o)
      <3>1. keys = {} => DOMAIN o \subseteq {"attachments", "keep_attachment_ids"}
        BY <1>4, MessageFields
      <3> QED BY <3>1 DEF Cracks, Messages
    <2> HIDE DEF b, keys
    <2>4. /\ DOMAIN b = CallFields /\ SameTarget(b, base) /\ b.query = base.query
          /\ b.files = base.files /\ b.raw = FALSE /\ b.thrown = (base.thrown \/ keys = {})
          /\ b.json = ToldFields(name, o) /\ b.attachments = <<>>
      BY <2>1, <2>2 DEF CallFields, SameTarget
    <2>5. Has(o, "payload_json") = FALSE /\ ~OwnList(o)
      BY <1>1, <1>4
    <2> QED BY <2>3, <2>4, <2>5 DEF WithBody, b
  <1> QED BY <1>2, <1>3, <1>4

\* A message without files, and without attachments to keep.
LEMMA BodyAloneSays ==
  ASSUME NEW name \in Messages, NEW base, base.files = <<>>, NEW b, NEW o,
         WithBody(name, b, base, o),
         Uploads(o) = <<>>, Has(o, "keep_attachment_ids") => Has(o, "payload_json")
  PROVE  BodySays(name, b, o) /\ FilesSay(b, o)
  <1>1. Listed(o) <=> OwnList(o)
    BY DEF Listed, OwnList
  <1>2. BodySays(name, b, o)
    BY <1>1, MessagesAreChosen DEF WithBody, BodySays, BodyKeys
  <1>3. CASE OwnList(o)
    <2>1. Has(o, "payload_json") /\ b.raw
      BY <1>3 DEF OwnList, GivenJson, WithBody
    <2> DEFINE x == [id |-> MaxUploads, filename |-> NoName]
               a == b.attachments
    <2>2. x.id = MaxUploads /\ x.filename = NoName
      OBVIOUS
    <2>3. a = <<x>>
      BY <1>3 DEF WithBody, PayloadList
    <2> HIDE DEF a, x
    <2>4. DOMAIN a = {1} /\ a[1] = x
      BY <2>3
    <2>5. {[part |-> a[i].id, filename |-> a[i].filename] : i \in DOMAIN a}
            = {[part |-> MaxUploads, filename |-> NoName]}
      BY <2>2, <2>4
    <2>6. b.files = <<>>
      BY DEF WithBody
    <2>7. /\ {b.files[i] : i \in DOMAIN b.files} = {} /\ Len(b.files) = Len(Uploads(o))
      BY <2>6
    <2>8. \A i, j \in DOMAIN a : a[i].id = a[j].id => i = j
      BY <2>4
    <2>9. GivenJson(o) = "with attachments"
      BY <1>3 DEF OwnList
    <2> DEFINE shown == {[part |-> a[i].id, filename |-> a[i].filename] : i \in DOMAIN a}
               parts == {b.files[i] : i \in DOMAIN b.files}
               kept == {[part |-> Kept(o)[i], filename |-> NoName] : i \in DOMAIN Kept(o)}
               own == {[part |-> MaxUploads, filename |-> NoName]}
    <2> HIDE DEF shown, parts, kept, own
    <2>10. shown = parts \union IF ~b.raw THEN kept
                               ELSE IF GivenJson(o) = "with attachments" /\ Uploads(o) = <<>>
                               THEN own ELSE {}
      <3>1. parts = {} /\ shown = own
        BY <2>5, <2>7 DEF shown, parts, own
      <3> QED BY <2>1, <2>9, <3>1, Zenon
    <2> QED BY <1>2, <2>7, <2>8, <2>10, Zenon DEF FilesSay, a, shown, parts, kept, own
  <1>4. CASE ~OwnList(o)
    <2>1. b.attachments = <<>> /\ b.files = <<>> /\ b.raw = Has(o, "payload_json")
      BY <1>4 DEF WithBody
    <2>2. ~b.raw => Kept(o) = <<>>
      BY <2>1 DEF Kept
    <2>3. GivenJson(o) # "with attachments"
      BY <1>4 DEF OwnList
    <2>4. NothingOf(b, o)
      BY <2>2, <2>3, Zenon DEF NothingOf
    <2> QED BY <1>2, <2>1, <2>4, NothingAttached
  <1> QED BY <1>2, <1>3, <1>4

Shown(x) == [part |-> x.id, filename |-> x.filename]
Keeps(id) == [part |-> id, filename |-> NoName]

\* n attachments to keep and m files, and the list of both.
KeepList(ids, n, limit) ==
  /\ \A i \in 1..n : ids[i] \in Nat /\ ids[i] >= limit
  /\ \A i, j \in 1..n : ids[i] = ids[j] => i = j
FileList(files, u, m) ==
  \A i \in 1..m : files[i] = [part |-> i - 1, filename |-> u[i]]
BothListed(a, ids, n, u, m) ==
  /\ DOMAIN a = 1..(n + m)
  /\ \A i \in 1..n : a[i] = [id |-> ids[i], filename |-> NoName]
  /\ \A i \in 1..m : a[n + i] = [id |-> i - 1, filename |-> u[i]]

\* The list has each of them once.
EachOnce(a, ids, n, files, m) ==
  /\ \A i, j \in DOMAIN a : a[i].id = a[j].id => i = j
  /\ {Shown(a[i]) : i \in DOMAIN a} =
       {files[i] : i \in 1..m} \union {Keeps(ids[i]) : i \in 1..n}

LEMMA ListedOnce ==
  ASSUME NEW n \in Nat, NEW m \in Nat, NEW limit \in Nat, m <= limit,
         NEW ids, KeepList(ids, n, limit), NEW u, NEW files, FileList(files, u, m),
         NEW a, BothListed(a, ids, n, u, m)
  PROVE  EachOnce(a, ids, n, files, m)
  <1>0. DOMAIN a = 1..(n + m)
    BY DEF BothListed
  <1>1. ASSUME NEW i \in 1..n PROVE a[i].id = ids[i] /\ Shown(a[i]) = Keeps(ids[i])
    <2>1. a[i] = [id |-> ids[i], filename |-> NoName]
      BY DEF BothListed
    <2> QED BY <2>1 DEF Shown, Keeps
  <1>2. ASSUME NEW i \in 1..m PROVE a[n + i].id = i - 1 /\ Shown(a[n + i]) = files[i]
    <2>1. a[n + i] = [id |-> i - 1, filename |-> u[i]] /\ files[i] = [part |-> i - 1, filename |-> u[i]]
      BY DEF BothListed, FileList
    <2> QED BY <2>1 DEF Shown
  <1>3. \A i \in 1..(n + m) : i \in 1..n \/ \E k \in 1..m : i = n + k
    <2> TAKE i \in 1..(n + m)
    <2>1. i > n => i - n \in 1..m /\ i = n + (i - n)
      OBVIOUS
    <2> QED BY <2>1
  <1>4. \A i \in 1..n : i \in 1..(n + m)
    OBVIOUS
  <1>5. \A i \in 1..m : n + i \in 1..(n + m)
    OBVIOUS
  <1>6. ASSUME NEW i \in 1..(n + m), NEW j \in 1..(n + m), a[i].id = a[j].id
        PROVE  i = j
    <2>1. CASE i \in 1..n /\ j \in 1..n
      BY <1>1, <1>6, <2>1 DEF KeepList
    <2>2. ASSUME i \in 1..n, NEW k \in 1..m, j = n + k PROVE FALSE
      <3>1. ids[i] = k - 1
        BY <1>1, <1>2, <1>6, <2>2
      <3>2. ids[i] \in Nat /\ ids[i] >= limit
        BY <2>2 DEF KeepList
      <3> QED BY <3>1, <3>2
    <2>3. ASSUME j \in 1..n, NEW k \in 1..m, i = n + k PROVE FALSE
      <3>1. ids[j] = k - 1
        BY <1>1, <1>2, <1>6, <2>3
      <3>2. ids[j] \in Nat /\ ids[j] >= limit
        BY <2>3 DEF KeepList
      <3> QED BY <3>1, <3>2
    <2>4. ASSUME NEW k \in 1..m, NEW l \in 1..m, i = n + k, j = n + l PROVE i = j
      <3>1. k - 1 = l - 1
        BY <1>2, <1>6, <2>4
      <3> QED BY <2>4, <3>1
    <2> QED BY <1>3, <2>1, <2>2, <2>3, <2>4
  <1> DEFINE listed == {Shown(a[i]) : i \in DOMAIN a}
             parts == {files[i] : i \in 1..m}
             keeps == {Keeps(ids[i]) : i \in 1..n}
  <1>7. ASSUME NEW x \in listed PROVE x \in parts \union keeps
    <2>1. PICK i \in 1..(n + m) : x = Shown(a[i])
      BY <1>0
    <2>2. CASE i \in 1..n
      BY <1>1, <2>1, <2>2
    <2>3. ASSUME NEW k \in 1..m, i = n + k PROVE x \in parts
      BY <1>2, <2>1, <2>3
    <2> QED BY <1>3, <2>2, <2>3
  <1>8. ASSUME NEW x \in parts PROVE x \in listed
    <2>1. PICK k \in 1..m : x = files[k]
      OBVIOUS
    <2> QED BY <1>0, <1>2, <1>5, <2>1
  <1>9. ASSUME NEW x \in keeps PROVE x \in listed
    <2>1. PICK k \in 1..n : x = Keeps(ids[k])
      OBVIOUS
    <2> QED BY <1>0, <1>1, <1>4, <2>1
  <1>10. listed = parts \union keeps
    BY <1>7, <1>8, <1>9
  <1> QED BY <1>0, <1>6, <1>10 DEF EachOnce

\* The elements of a concatenation.
LEMMA Concatenated ==
  ASSUME NEW n \in Nat, NEW m \in Nat, NEW s, NEW t, NEW S,
         s \in [1..n -> S], t \in [1..m -> S]
  PROVE  /\ DOMAIN (s \o t) = 1..(n + m)
         /\ \A i \in 1..n : (s \o t)[i] = s[i]
         /\ \A i \in 1..m : (s \o t)[n + i] = t[i]
  <1>1. s \in Seq(S) /\ Len(s) = n /\ t \in Seq(S) /\ Len(t) = m
    OBVIOUS
  <1> DEFINE c == s \o t
  <1>2. /\ c \in Seq(S) /\ Len(c) = n + m
        /\ \A i \in 1..(n + m) : c[i] = IF i <= n THEN s[i] ELSE t[i - n]
    BY <1>1, ConcatProperties
  <1>3. DOMAIN c = 1..(n + m)
    BY <1>2, LenProperties
  <1> HIDE DEF c
  <1>4. ASSUME NEW i \in 1..n PROVE c[i] = s[i]
    BY <1>2
  <1>5. ASSUME NEW i \in 1..m PROVE c[n + i] = t[i]
    <2>1. n + i \in 1..(n + m) /\ ~(n + i <= n) /\ (n + i) - n = i
      OBVIOUS
    <2> QED BY <1>2, <2>1
  <1> QED BY <1>3, <1>4, <1>5 DEF c

\* The attachments that are kept, then the ones of the files.
Attaches(call, o, ids, u) ==
  /\ u \in Seq(STRING) /\ u = Uploads(o) /\ Len(u) <= MaxUploads
  /\ call.raw => u # <<>>
  /\ ids \in Seq(Nat) /\ ids = IF call.raw THEN <<>> ELSE Kept(o)
  /\ KeepList(ids, Len(ids), MaxUploads)
  /\ call.files = [i \in DOMAIN u |-> [part |-> i - 1, filename |-> u[i]]]
  /\ call.attachments = attachments_json_from_keep_ids(ids) \o attachments_json_from_uploads(u)

LEMMA AttachedInOrder ==
  ASSUME NEW o, NEW call, NEW u, NEW ids, Attaches(call, o, ids, u)
  PROVE  FilesSay(call, o)
  <1>0. u \in Seq(STRING) /\ ids \in Seq(Nat)
    BY DEF Attaches
  <1>1. PICK n \in Nat : n = Len(ids) /\ DOMAIN ids = 1..n
    BY <1>0, LenProperties
  <1>2. PICK m \in Nat : m = Len(u) /\ DOMAIN u = 1..m
    BY <1>0, LenProperties
  <1> DEFINE S == [id : Nat, filename : STRING \union {NoName}]
             kept == [i \in 1..n |-> [id |-> ids[i], filename |-> NoName]]
             new == [i \in 1..m |-> [id |-> i - 1, filename |-> u[i]]]
             a == call.attachments
             files == call.files
  <1>3. kept \in [1..n -> S]
    <2>1. \A i \in 1..n : ids[i] \in Nat 
      BY <1>0, <1>1, ElementOfSeq
    <2> QED BY <2>1
  <1>4. new \in [1..m -> S]
    <2>1. \A i \in 1..m : u[i] \in STRING /\ i - 1 \in Nat
      BY <1>0, <1>2, ElementOfSeq
    <2> QED BY <2>1
  <1>5. a = kept \o new
    BY <1>1, <1>2 DEF Attaches, attachments_json_from_keep_ids, attachments_json_from_uploads
  <1>6. files = [i \in 1..m |-> [part |-> i - 1, filename |-> u[i]]]
    BY <1>2 DEF Attaches
  <1>7. DOMAIN files = 1..m /\ Len(files) = m /\ FileList(files, u, m)
    <2> HIDE DEF files
    <2> QED BY <1>6 DEF FileList
  <1> HIDE DEF S, a, files
  <1>8. BothListed(a, ids, n, u, m)
    <2>1. (\A i \in 1..n : kept[i] = [id |-> ids[i], filename |-> NoName])
          /\ \A i \in 1..m : new[i] = [id |-> i - 1, filename |-> u[i]]
      OBVIOUS
    <2> HIDE DEF kept, new
    <2>2. /\ DOMAIN a = 1..(n + m) /\ \A i \in 1..n : a[i] = kept[i]
          /\ \A i \in 1..m : a[n + i] = new[i]
      <3>1. /\ DOMAIN (kept \o new) = 1..(n + m)
            /\ \A i \in 1..n : (kept \o new)[i] = kept[i]
            /\ \A i \in 1..m : (kept \o new)[n + i] = new[i]
        BY <1>3, <1>4, Concatenated
      <3> QED BY <1>5, <3>1
    <2> QED BY <2>1, <2>2 DEF BothListed
  <1>9. MaxUploads \in Nat /\ m <= MaxUploads /\ KeepList(ids, n, MaxUploads)
    BY <1>1, <1>2, RequestConstants DEF Attaches
  <1>10. EachOnce(a, ids, n, files, m)
    BY <1>7, <1>8, <1>9, ListedOnce
  <1>11. {Keeps(ids[i]) : i \in 1..n} =
           IF ~call.raw THEN {Keeps(Kept(o)[i]) : i \in DOMAIN Kept(o)}
           ELSE IF GivenJson(o) = "with attachments" /\ Uploads(o) = <<>>
           THEN {Keeps(MaxUploads)} ELSE {}
    <2>1. CASE call.raw
      <3>1. n = 0 /\ Uploads(o) # <<>>
        BY <1>1, <2>1 DEF Attaches
      <3> QED BY <2>1, <3>1
    <2>2. CASE ~call.raw
      <3>1. ids = Kept(o)
        BY <2>2 DEF Attaches
      <3> QED BY <1>1, <2>2, <3>1
    <2> QED BY <2>1, <2>2
  <1>12. Len(Uploads(o)) = m
    BY <1>2 DEF Attaches
  <1> QED BY <1>7, <1>10, <1>11, <1>12 DEF FilesSay, EachOnce, a, files, Shown, Keeps

\* The files and identifiers a message may have been given.
LEMMA Lists ==
  ASSUME NEW name, NEW o, Legal(name, o), Acceptable(o)
  PROVE  /\ Uploads(o) \in Seq(STRING) /\ Len(Uploads(o)) <= MaxUploads
         /\ Kept(o) \in Seq(Nat) /\ KeepList(Kept(o), Len(Kept(o)), MaxUploads)
         /\ KeepList(<<>>, Len(<<>>), MaxUploads)
  <1>1. MaxUploads \in Nat /\ Len(<<>>) = 0
    BY RequestConstants
  <1>2. Uploads(o) \in Seq(STRING) /\ Len(Uploads(o)) <= MaxUploads
    <2>1. CASE Has(o, "attachments")
      <3>1. o["attachments"] \in UploadLists
        BY <2>1 DEF Has, Legal, Given
      <3>2. Uploads(o) \in Seq(STRING)
        BY <2>1, <3>1, RequestConstants DEF Uploads
      <3>3. Uploads(o) # <<>> => Len(Uploads(o)) <= MaxUploads
        BY DEF Acceptable
      <3>4. Uploads(o) = <<>> => Len(Uploads(o)) <= MaxUploads
        BY <1>1
      <3> QED BY <3>2, <3>3, <3>4
    <2>2. CASE ~Has(o, "attachments")
      <3>1. Uploads(o) = <<>>
        BY <2>2 DEF Uploads
      <3> QED BY <1>1, <3>1
    <2> QED BY <2>1, <2>2
  <1>3. KeepList(<<>>, Len(<<>>), MaxUploads)
    <2>1. 1..0 = {}
      OBVIOUS
    <2> QED BY <1>1, <2>1 DEF KeepList
  <1>4. Kept(o) \in Seq(Nat) /\ KeepList(Kept(o), Len(Kept(o)), MaxUploads)
    <2>1. CASE Has(o, "keep_attachment_ids")
      <3> DEFINE ids == Kept(o)
      <3>1. ids \in KeptIds
        <4>1. o["keep_attachment_ids"] \in KeptIds
          BY <2>1 DEF Has, Legal, Given
        <4> QED BY <2>1, <4>1 DEF Kept
      <3> HIDE DEF ids
      <3>2. ids \in Seq(Nat)
        BY <3>1, RequestConstants
      <3>3. \A i, j \in DOMAIN ids : ids[i] >= MaxUploads /\ (ids[i] = ids[j] => i = j)
        BY <3>1, RequestConstants
      <3>4. DOMAIN ids = 1..Len(ids) /\ \A i \in 1..Len(ids) : ids[i] \in Nat
        BY <3>2, LenProperties, ElementOfSeq
      <3>5. KeepList(ids, Len(ids), MaxUploads)
        BY <3>3, <3>4 DEF KeepList
      <3> QED BY <3>2, <3>5 DEF ids
    <2>2. CASE ~Has(o, "keep_attachment_ids")
      <3>1. Kept(o) = <<>>
        BY <2>2 DEF Kept
      <3> QED BY <1>3, <3>1
    <2> QED BY <2>1, <2>2
  <1> QED BY <1>2, <1>3, <1>4

\* What becomes of the list of attachments.
LEMMA ListingSays ==
  ASSUME NEW call, DOMAIN call = CallFields, NEW attachments
  PROVE  LET c == Listing(call, attachments) IN
         /\ DOMAIN c = CallFields /\ SameTarget(c, call) /\ c.query = call.query
         /\ c.raw = call.raw /\ c.thrown = call.thrown /\ c.files = call.files
         /\ c.json = call.json \union {"attachments"} /\ c.attachments = attachments
  <1> DEFINE json == call.json \union {"attachments"}
             c == [call EXCEPT !.json = json, !.attachments = attachments]
  <1>1. Listing(call, attachments) = c
    BY Zenon DEF Listing
  <1> HIDE DEF json
  <1>2. /\ DOMAIN c = CallFields /\ SameTarget(c, call) /\ c.query = call.query
        /\ c.raw = call.raw /\ c.thrown = call.thrown /\ c.files = call.files
        /\ c.json = json /\ c.attachments = attachments
    BY DEF CallFields, SameTarget
  <1> HIDE DEF c
  <1> QED BY <1>1, <1>2 DEF json

\* A message that lists attachments says so.
LEMMA ListedBodySays ==
  ASSUME NEW name \in Messages, NEW base, NEW b, NEW o, WithBody(name, b, base, o), Listed(o),
         NEW call, call.raw = b.raw, call.json = b.json \union {"attachments"}
  PROVE  BodySays(name, call, o)
  BY MessagesAreChosen DEF WithBody, BodySays, BodyKeys

\* What encode_multipart_form_data adds to a body.
Multipart(name, call, body, o, attachments) ==
  /\ SameTarget(call, body) /\ call.query = body.query /\ call.raw = body.raw
  /\ BodySays(name, call, o) /\ (call.thrown => body.thrown \/ Cracks(name, o))
  /\ call.attachments = attachments
  /\ call.files = [i \in DOMAIN Uploads(o) |-> [part |-> i - 1, filename |-> Uploads(o)[i]]]

LEMMA MultipartSays ==
  ASSUME NEW name \in Messages, NEW base, NEW body, NEW o, NEW attachments,
         WithBody(name, body, base, o), Uploads(o) # <<>>
  PROVE  Multipart(name, encode_multipart_form_data(body, o, attachments), body, o, attachments)
  <1> DEFINE files == [i \in DOMAIN Uploads(o) |-> [part |-> i - 1, filename |-> Uploads(o)[i]]]
             list == Listing(body, attachments)
             thrown == list.thrown \/ GivenJson(o) = "no object"
             call == encode_multipart_form_data(body, o, attachments)
  <1>1. call = [list EXCEPT !.files = files, !.thrown = thrown]
    BY Zenon DEF encode_multipart_form_data
  <1>2. GivenJson(o) = "no object" => Cracks(name, o)
    BY DEF Cracks
  <1>3. /\ DOMAIN list = CallFields /\ SameTarget(list, body) /\ list.query = body.query
        /\ list.raw = body.raw /\ list.thrown = body.thrown
        /\ list.json = body.json \union {"attachments"} /\ list.attachments = attachments
    BY ListingSays DEF WithBody
  <1> HIDE DEF call, files, list
  <1>4. /\ SameTarget(call, body) /\ call.query = body.query /\ call.raw = body.raw
        /\ call.json = body.json \union {"attachments"} /\ call.thrown = thrown
        /\ call.attachments = attachments /\ call.files = files
    <2> HIDE DEF thrown
    <2> QED BY <1>1, <1>3 DEF CallFields, SameTarget
  <1>5. Listed(o)
    BY DEF Listed
  <1>6. BodySays(name, call, o)
    BY <1>4, <1>5, ListedBodySays
  <1> QED BY <1>2, <1>3, <1>4, <1>6 DEF Multipart, call, files

LEMMA FunIsSeq ==
  ASSUME NEW n \in Nat, NEW S, NEW f \in [1..n -> S]
  PROVE  f \in Seq(S)
  BY SeqDef

\* Nothing before and nothing after.
LEMMA NoneListed ==
  /\ attachments_json_from_keep_ids(<<>>) = <<>> /\ attachments_json_from_uploads(<<>>) = <<>>
  /\ \A u \in Seq(STRING) : <<>> \o attachments_json_from_uploads(u) = attachments_json_from_uploads(u)
  /\ \A ids \in Seq(Nat) : attachments_json_from_keep_ids(ids) \o <<>> = attachments_json_from_keep_ids(ids)
  <1>1. attachments_json_from_keep_ids(<<>>) = <<>> /\ attachments_json_from_uploads(<<>>) = <<>>
    BY DEF attachments_json_from_keep_ids, attachments_json_from_uploads
  <1> DEFINE S == [id : Nat, filename : STRING \union {NoName}]
  <1>2. ASSUME NEW u \in Seq(STRING) PROVE attachments_json_from_uploads(u) \in Seq(S)
    <2>1. PICK m \in Nat : DOMAIN u = 1..m /\ \A i \in 1..m : u[i] \in STRING /\ i - 1 \in Nat
      BY LenProperties, ElementOfSeq
    <2>2. attachments_json_from_uploads(u) = [i \in 1..m |-> [id |-> i - 1, filename |-> u[i]]]
      BY <2>1 DEF attachments_json_from_uploads
    <2>3. attachments_json_from_uploads(u) \in [1..m -> S]
      BY <2>1, <2>2
    <2> QED BY <2>3, FunIsSeq
  <1>3. ASSUME NEW ids \in Seq(Nat) PROVE attachments_json_from_keep_ids(ids) \in Seq(S)
    <2>1. PICK n \in Nat : DOMAIN ids = 1..n /\ \A i \in 1..n : ids[i] \in Nat
      BY LenProperties, ElementOfSeq
    <2>2. attachments_json_from_keep_ids(ids) = [i \in 1..n |-> [id |-> ids[i], filename |-> NoName]]
      BY <2>1 DEF attachments_json_from_keep_ids
    <2>3. attachments_json_from_keep_ids(ids) \in [1..n -> S]
      BY <2>1, <2>2
    <2> QED BY <2>3, FunIsSeq
  <1> HIDE DEF S
  <1> QED BY <1>1, <1>2, <1>3, ConcatEmptySeq

\* A message to be created has no attachments to keep.
LEMMA CreateMessageSays ==
  ASSUME NEW o, Legal("CreateMessage", o), DOMAIN o \subseteq CreateMessage_setters, Acceptable(o)
  PROVE  Says("CreateMessage", CreateMessage(o), o)
  <1> DEFINE name == "CreateMessage"
             template == channel \o <<"messages">>
             base == Reads(Call("post", template, C), "Message")
             Msg(p) == MessageBody(base, FieldKeys("CreateMessageFields", p), p)
             told == Telling(NoOptions, "content", "value")
             sample == CreateMessage(told)
  <1>1. \A p : CreateMessage(p) =
          IF Uploads(p) = <<>> THEN Msg(p)
          ELSE encode_multipart_form_data(Msg(p), p, attachments_json_from_uploads(Uploads(p)))
    BY Zenon DEF CreateMessage
  <1>2. Bare(name, sample) /\ ~sample.thrown /\ name \in Messages
    BY ChoosersAreRegular, Dispatch DEF Choosing, Sample, Messages
  <1> HIDE DEF template
  <1>3. /\ DOMAIN base = CallFields /\ base.query = <<>> /\ base.raw = FALSE /\ base.json = {}
        /\ base.attachments = <<>> /\ base.files = <<>>
    BY CallParts DEF Reads, CallFields
  <1> HIDE DEF base
  <1>4. ASSUME NEW p, DOMAIN p \subseteq CreateMessage_setters
        PROVE  WithBody(name, Msg(p), base, p)
    BY <1>2, <1>3, <1>4, MessagesSet, MessageBodySays
  <1>5. DOMAIN told \subseteq CreateMessage_setters /\ Uploads(told) = <<>>
    BY DEF Telling, NoOptions, Uploads, Has, CreateMessage_setters, CreateMessageFields
  <1> HIDE DEF Msg, told
  <1>6. ~base.thrown /\ SameTarget(sample, base)
    <2>1. sample = Msg(told)
      BY <1>1, <1>5
    <2>2. WithBody(name, Msg(told), base, told)
      BY <1>4, <1>5
    <2> QED BY <1>2, <2>1, <2>2 DEF WithBody
  <1> DEFINE call == CreateMessage(o)
             body == Msg(o)
  <1>7. SameTarget(call, base) => NoOthers(name, call)
    <2>1. SameTarget(call, base) => SameTarget(call, sample)
      BY <1>6 DEF SameTarget
    <2> QED BY <1>2, <2>1, SameTargetNames
  <1>8. QuerySays(<<>>, o)
    <2>1. DOMAIN o \intersect InQuery = {}
      BY MessagesSet DEF Sets
    <2> QED BY <2>1, QueryForms
  <1>9. Kept(o) = <<>> /\ Has(o, "keep_attachment_ids") = FALSE
    BY MessagesSet DEF Kept, Has
  <1>10. WithBody(name, body, base, o)
    BY <1>4
  <1>11. /\ SameTarget(body, base) /\ body.query = <<>>
         /\ body.thrown => Cracks(name, o)
    BY <1>3, <1>6, <1>10 DEF WithBody
  <1>12. CASE Uploads(o) = <<>>
    <2>1. call = body
      BY <1>1, <1>12
    <2>2. BodySays(name, call, o) /\ FilesSay(call, o)
      BY <1>2, <1>3, <1>9, <1>10, <1>12, <2>1, BodyAloneSays
    <2> HIDE DEF call, body
    <2> QED BY <1>7, <1>8, <1>11, <2>1, <2>2 DEF Says, call
  <1>13. CASE Uploads(o) # <<>>
    <2> DEFINE u == Uploads(o)
    <2>1. call = encode_multipart_form_data(body, o, attachments_json_from_uploads(u))
      BY <1>1, <1>13
    <2>2. Multipart(name, call, body, o, attachments_json_from_uploads(u))
      BY <1>2, <1>10, <1>13, <2>1, MultipartSays
    <2>3. Attaches(call, o, <<>>, u)
      <3>1. u \in Seq(STRING) /\ Len(u) <= MaxUploads /\ KeepList(<<>>, Len(<<>>), MaxUploads)
            /\ <<>> \in Seq(Nat)
        BY Lists
      <3>2. /\ call.attachments = attachments_json_from_uploads(u)
            /\ call.files = [i \in DOMAIN u |-> [part |-> i - 1, filename |-> u[i]]]
        BY <2>2 DEF Multipart
      <3>3. call.attachments = attachments_json_from_keep_ids(<<>>) \o attachments_json_from_uploads(u)
        BY <3>1, <3>2, NoneListed
      <3> HIDE DEF call
      <3> QED BY <1>9, <1>13, <3>1, <3>2, <3>3 DEF Attaches
    <2>4. FilesSay(call, o)
      BY <2>3, AttachedInOrder
    <2> HIDE DEF call, body
    <2>5. /\ SameTarget(call, base) /\ call.query = <<>> /\ BodySays(name, call, o)
          /\ call.thrown => Cracks(name, o)
      BY <1>11, <2>2 DEF SameTarget, Multipart
    <2> QED BY <1>7, <1>8, <2>4, <2>5 DEF Says, call
  <1> QED BY <1>12, <1>13

\* An edited message lists what it keeps before what it adds.
LEMMA EditMessageSays ==
  ASSUME NEW o, Legal("EditMessage", o), DOMAIN o \subseteq EditMessage_setters, Acceptable(o)
  PROVE  Says("EditMessage", EditMessage(o), o)
  <1> DEFINE name == "EditMessage"
             base == Reads(Call("patch", message, CM), "Message")
             Msg(p) == MessageBody(base, FieldKeys("EditMessageFields", p), p)
             Keeping(p) == Has(p, "keep_attachment_ids") /\ ~Msg(p).raw
             List(p) == attachments_json_from_keep_ids(IF Keeping(p) THEN Kept(p) ELSE <<>>)
             told == Telling(NoOptions, "content", "value")
             sample == EditMessage(told)
  <1>1. \A p : EditMessage(p) =
          IF Uploads(p) # <<>>
          THEN encode_multipart_form_data(Msg(p), p,
                 List(p) \o attachments_json_from_uploads(Uploads(p)))
          ELSE IF Keeping(p) THEN Listing(Msg(p), List(p)) ELSE Msg(p)
    BY Zenon DEF EditMessage
  <1>2. Bare(name, sample) /\ ~sample.thrown /\ name \in Messages
    BY ChoosersAreRegular, Dispatch DEF Choosing, Sample, Messages
  <1>3. /\ DOMAIN base = CallFields /\ base.query = <<>> /\ base.raw = FALSE /\ base.json = {}
        /\ base.attachments = <<>> /\ base.files = <<>>
    BY CallParts DEF Reads, CallFields
  <1> HIDE DEF base
  <1>4. ASSUME NEW p, DOMAIN p \subseteq EditMessage_setters
        PROVE  WithBody(name, Msg(p), base, p)
    BY <1>2, <1>3, <1>4, MessagesSet, MessageBodySays
  <1>5. /\ DOMAIN told \subseteq EditMessage_setters /\ Uploads(told) = <<>>
        /\ ~Has(told, "keep_attachment_ids")
    BY DEF Telling, NoOptions, Uploads, Has, EditMessage_setters, EditMessageFields
  <1> HIDE DEF Msg, told
  <1>6. ~base.thrown /\ SameTarget(sample, base)
    <2>1. sample = Msg(told)
      <3> HIDE DEF List
      <3> QED BY <1>1, <1>5
    <2>2. WithBody(name, Msg(told), base, told)
      BY <1>4, <1>5
    <2> QED BY <1>2, <2>1, <2>2 DEF WithBody
  <1> DEFINE call == EditMessage(o)
             body == Msg(o)
             u == Uploads(o)
             ids == IF body.raw THEN <<>> ELSE Kept(o)
  <1>7. SameTarget(call, base) => NoOthers(name, call)
    <2>1. SameTarget(call, base) => SameTarget(call, sample)
      BY <1>6 DEF SameTarget
    <2> QED BY <1>2, <2>1, SameTargetNames
  <1>8. QuerySays(<<>>, o)
    <2>1. DOMAIN o \intersect InQuery = {}
      BY MessagesSet DEF Sets
    <2> QED BY <2>1, QueryForms
  <1>9. /\ u \in Seq(STRING) /\ Len(u) <= MaxUploads
        /\ ids \in Seq(Nat) /\ KeepList(ids, Len(ids), MaxUploads)
    BY Lists
  <1>10. List(o) = attachments_json_from_keep_ids(ids)
    <2>1. ~Has(o, "keep_attachment_ids") => Kept(o) = <<>>
      BY DEF Kept
    <2>2. (IF Keeping(o) THEN Kept(o) ELSE <<>>) = ids
      BY <2>1
    <2> QED BY <2>2
  <1>11. WithBody(name, body, base, o)
    BY <1>4
  <1>12. /\ SameTarget(body, base) /\ body.query = <<>> /\ body.raw = Has(o, "payload_json")
         /\ body.thrown => Cracks(name, o)
    BY <1>3, <1>6, <1>11 DEF WithBody
  <1>13. CASE u = <<>> /\ ~Keeping(o)
    <2>1. call = body
      <3> HIDE DEF List, Keeping
      <3> QED BY <1>1, <1>13
    <2>2. BodySays(name, call, o) /\ FilesSay(call, o)
      BY <1>2, <1>3, <1>11, <1>12, <1>13, <2>1, BodyAloneSays
    <2> HIDE DEF call, body
    <2> QED BY <1>7, <1>8, <1>12, <2>1, <2>2 DEF Says, call
  <1>14. CASE u = <<>> /\ Keeping(o)
    <2>1. call = Listing(body, List(o))
      <3> HIDE DEF List, Keeping
      <3> QED BY <1>1, <1>14
    <2> DEFINE list == List(o)
    <2> HIDE DEF list
    <2>2. /\ SameTarget(call, body) /\ call.query = body.query
          /\ call.raw = body.raw /\ call.thrown = body.thrown /\ call.files = body.files
          /\ call.json = body.json \union {"attachments"} /\ call.attachments = list
      BY <1>11, <2>1, ListingSays DEF WithBody, list
    <2>3. call.files = <<>>
      BY <1>3, <1>11, <2>2 DEF WithBody
    <2>4. BodySays(name, call, o)
      <3>1. Listed(o)
        BY <1>12, <1>14 DEF Listed
      <3> QED BY <1>2, <1>11, <2>2, <3>1, ListedBodySays
    <2> HIDE DEF call
    <2>5. Attaches(call, o, ids, u)
      <3>1. call.attachments = attachments_json_from_keep_ids(ids) \o attachments_json_from_uploads(u)
        BY <1>9, <1>10, <1>14, <2>2, NoneListed DEF list
      <3>2. call.files = [i \in DOMAIN u |-> [part |-> i - 1, filename |-> u[i]]]
        BY <1>14, <2>3
      <3>3. ~call.raw
        BY <1>14, <2>2
      <3> QED BY <1>9, <2>2, <3>1, <3>2, <3>3 DEF Attaches
    <2>6. FilesSay(call, o)
      BY <2>5, AttachedInOrder
    <2>7. SameTarget(call, base) /\ call.query = <<>> /\ (call.thrown => Cracks(name, o))
      BY <1>12, <2>2 DEF SameTarget
    <2> QED BY <1>7, <1>8, <2>4, <2>6, <2>7 DEF Says, call
  <1>15. CASE u # <<>>
    <2> DEFINE both == List(o) \o attachments_json_from_uploads(u)
    <2>1. call = encode_multipart_form_data(body, o, both)
      <3> HIDE DEF List, Keeping
      <3> QED BY <1>1, <1>15
    <2>2. both = attachments_json_from_keep_ids(ids) \o attachments_json_from_uploads(u)
      BY <1>10
    <2> HIDE DEF both
    <2>3. Multipart(name, call, body, o, both)
      BY <1>2, <1>11, <1>15, <2>1, MultipartSays
    <2> HIDE DEF call
    <2>4. Attaches(call, o, ids, u)
      BY <1>9, <1>15, <2>2, <2>3 DEF Attaches, Multipart
    <2>5. FilesSay(call, o)
      BY <2>4, AttachedInOrder
    <2>6. /\ SameTarget(call, base) /\ call.query = <<>> /\ BodySays(name, call, o)
          /\ call.thrown => Cracks(name, o)
      BY <1>12, <2>3 DEF SameTarget, Multipart
    <2> QED BY <1>7, <1>8, <2>5, <2>6 DEF Says, call
  <1> QED BY <1>13, <1>14, <1>15

-----------------------------------------------------------------------------
(* The life of one builder.                                                *)

\* What the builders with a choice may be told.
LEMMA ToldOf ==
  /\ Told("GetGuild") = {"with_counts"} /\ Told("GetGuildBans") = {"limit", "before", "after"}
  /\ Told("GetReactions") = {"after", "limit"} /\ Told("ListGuildMembers") = {"after", "limit"}
  /\ Told("SearchGuildMembers") = {"query", "limit"} /\ Told("GetChannelMessages") = {"limit"}
  /\ Told("EditOriginalResponse") = EditOriginalResponse_setters
  /\ Told("CreateMessage") = CreateMessage_setters /\ Told("EditMessage") = EditMessage_setters
  /\ Told("CreateResponseWithResponse") = {"with_response"}
  /\ Told("GetChannelMessagesConfigured") = {"limit"} \union Directions
  /\ Setters["GetChannelMessagesConfigured"] = {"limit"}
  /\ "CreateResponseWithResponse" \notin DOMAIN Setters
  /\ \A name \in DOMAIN Setters \ {"GetChannelMessagesConfigured"} : Told(name) = Setters[name]
  BY DEF Told, Setters, GetGuild_setters, GetGuildBans_setters, GetReactions_setters,
         ListGuildMembers_setters, SearchGuildMembers_setters, GetChannelMessages_setters

\* Whatever a builder was told, the request it makes says so.
LEMMA EveryRequestSays ==
  ASSUME NEW name \in DOMAIN Plain \union Choosing, NEW o, Legal(name, o), Acceptable(o)
  PROVE  Says(name, HttpRequest(name, o), o)
  <1>1. DOMAIN o \subseteq Told(name)
    BY DEF Legal
  <1>2. CASE name \in DOMAIN Plain
    BY <1>2, PlainSays
  <1>3. CASE name = "GetGuild"
    <2>1. DOMAIN o \subseteq {"with_counts"}
      BY <1>1, <1>3, ToldOf
    <2>2. HttpRequest("GetGuild", o) = GetGuild(o)
      BY Dispatch
    <2> QED BY <1>3, <2>1, <2>2, GetGuildSays
  <1>4. CASE name = "GetGuildBans"
    <2>1. DOMAIN o \subseteq {"limit", "before", "after"}
      BY <1>1, <1>4, ToldOf
    <2>2. HttpRequest("GetGuildBans", o) = GetGuildBans(o)
      BY Dispatch
    <2> QED BY <1>4, <2>1, <2>2, GetGuildBansSays
  <1>5. CASE name = "GetReactions"
    <2>1. DOMAIN o \subseteq {"after", "limit"}
      BY <1>1, <1>5, ToldOf
    <2>2. HttpRequest("GetReactions", o) = GetReactions(o)
      BY Dispatch
    <2> QED BY <1>5, <2>1, <2>2, GetReactionsSays
  <1>6. CASE name = "ListGuildMembers"
    <2>1. DOMAIN o \subseteq {"limit", "after"}
      BY <1>1, <1>6, ToldOf
    <2> QED BY <1>6, <2>1, Dispatch, ListGuildMembersSays
  <1>7. CASE name = "SearchGuildMembers"
    <2>1. DOMAIN o \subseteq {"query", "limit"}
      BY <1>1, <1>7, ToldOf
    <2>2. HttpRequest("SearchGuildMembers", o) = SearchGuildMembers(o)
      BY Dispatch
    <2> QED BY <1>7, <2>1, <2>2, SearchGuildMembersSays
  <1>8. CASE name = "GetChannelMessages"
    <2>1. DOMAIN o \subseteq {"limit"}
      BY <1>1, <1>8, ToldOf
    <2>2. HttpRequest("GetChannelMessages", o) = GetChannelMessages(o)
      BY Dispatch
    <2> QED BY <1>8, <2>1, <2>2, GetChannelMessagesSays
  <1>9. CASE name = "GetChannelMessagesConfigured"
    <2>1. PICK t \in Directions : t \in DOMAIN o /\ DOMAIN o \subseteq {t, "limit"}
      BY <1>9 DEF Legal
    <2> QED BY <1>9, <2>1, Dispatch, GetChannelMessagesConfiguredSays
  <1>10. CASE name = "EditOriginalResponse"
    <2>1. DOMAIN o \subseteq EditOriginalResponse_setters
      BY <1>1, <1>10, ToldOf
    <2>2. HttpRequest("EditOriginalResponse", o) = EditOriginalResponse(o)
      BY Dispatch
    <2> QED BY <1>10, <2>1, <2>2, EditOriginalResponseSays
  <1>11. CASE name = "CreateMessage"
    <2>1. DOMAIN o \subseteq CreateMessage_setters
      BY <1>1, <1>11, ToldOf
    <2>2. HttpRequest("CreateMessage", o) = CreateMessage(o)
      BY Dispatch
    <2> QED BY <1>11, <2>1, <2>2, CreateMessageSays
  <1>12. CASE name = "EditMessage"
    <2>1. DOMAIN o \subseteq EditMessage_setters
      BY <1>1, <1>12, ToldOf
    <2>2. HttpRequest("EditMessage", o) = EditMessage(o)
      BY Dispatch
    <2> QED BY <1>12, <2>1, <2>2, EditMessageSays
  <1> QED
    BY <1>2, <1>3, <1>4, <1>5, <1>6, <1>7, <1>8, <1>9, <1>10, <1>11, <1>12 DEF Choosing

Made == {"sent", "thrown", "200", "204", "error"}

RInv ==
  /\ builder \in DOMAIN Plain \union Choosing
  /\ Legal(builder, options)
  /\ status \in {"building", "refused"} \union Made
  /\ status = "building" => result = "none"
  /\ result = "success" => status \in {"200", "204"}
  /\ status \in Made => /\ Acceptable(options) /\ request = HttpRequest(builder, options)
                        /\ IF request.thrown THEN status = "thrown" ELSE status # "thrown"

LEMMA RequestInit ==
  RInit => RInv
  <1> SUFFICES ASSUME RInit PROVE RInv
    OBVIOUS
  <1>1. DOMAIN options = {} /\ status = "building" /\ result = "none"
    BY DEF RInit, NoOptions
  <1>2. /\ builder \in DOMAIN Plain \union Choosing
        /\ builder # "CreateResponseWithResponse" /\ builder # "GetChannelMessagesConfigured"
    BY BuildersAreRegular DEF RInit, Choosing
  <1>3. Legal(builder, options)
    BY <1>1, <1>2 DEF Legal
  <1> QED BY <1>1, <1>2, <1>3 DEF RInv, Made

LEMMA RequestStep ==
  RInv /\ [RNext]_reqvars => RInv'
  <1> SUFFICES ASSUME RInv, [RNext]_reqvars PROVE RInv'
    OBVIOUS
  <1>1. ASSUME builder \in DOMAIN Setters, NEW k \in Setters[builder] \ DOMAIN options,
               NEW v \in Given(k), SetOption(k, v)
        PROVE  RInv'
    <2>1. /\ status = "building" /\ options' = Telling(options, k, v)
          /\ UNCHANGED <<builder, request, status, result>>
      BY <1>1 DEF SetOption
    <2>2. /\ DOMAIN options' = DOMAIN options \union {k} /\ options'[k] = v
          /\ \A j \in DOMAIN options : options'[j] = options[j]
      BY <1>1, <2>1, Zenon DEF Telling
    <2>3. Legal(builder, options)
      BY DEF RInv
    <2>4. builder # "CreateResponseWithResponse" /\ k \in Told(builder)
      BY <1>1, ToldOf
    <2>5. builder = "GetChannelMessagesConfigured" => k = "limit"
      BY <1>1, ToldOf
    <2>6. Legal(builder, options')
      BY <2>2, <2>3, <2>4, <2>5 DEF Legal
    <2> QED BY <2>1, <2>6 DEF RInv, Made
  <1>2. ASSUME NEW type \in Directions, Configure(type) PROVE RInv'
    <2>1. /\ status = "building" /\ builder = "GetChannelMessages"
          /\ builder' = "GetChannelMessagesConfigured" /\ options' = Telling(options, type, "value")
          /\ UNCHANGED <<request, status, result>>
      BY <1>2 DEF Configure
    <2>2. DOMAIN options \subseteq {"limit"} /\ \A j \in DOMAIN options : options[j] \in Given(j)
      BY <2>1, ToldOf DEF RInv, Legal
    <2>3. type \notin DOMAIN options /\ Given(type) = {"value"}
      BY <2>2 DEF Directions, Given
    <2>4. /\ DOMAIN options' = DOMAIN options \union {type} /\ options'[type] = "value"
          /\ \A j \in DOMAIN options : options'[j] = options[j]
      BY <2>1, <2>3, Zenon DEF Telling
    <2>5. Legal(builder', options')
      BY <2>1, <2>2, <2>3, <2>4, ToldOf DEF Legal
    <2>6. builder' \in Choosing
      BY <2>1 DEF Choosing
    <2> QED BY <2>1, <2>5, <2>6 DEF RInv, Made
  <1>3. CASE WithResponse
    <2>1. /\ status = "building" /\ builder' = "CreateResponseWithResponse"
          /\ options' = Telling(NoOptions, "with_response", "value")
          /\ UNCHANGED <<request, status, result>>
      BY <1>3 DEF WithResponse
    <2>2. DOMAIN options' = {"with_response"} /\ options'["with_response"] = "value"
      <3>1. DOMAIN NoOptions = {}
        BY DEF NoOptions
      <3>2. /\ DOMAIN options' = DOMAIN NoOptions \union {"with_response"}
            /\ options'["with_response"] = "value"
        BY <2>1, Zenon DEF Telling
      <3> QED BY <3>1, <3>2
    <2>3. Given("with_response") = {"value"}
      BY DEF Given
    <2>4. Legal(builder', options')
      BY <2>1, <2>2, <2>3, ToldOf DEF Legal
    <2>5. builder' \in DOMAIN Plain
      BY <2>1 DEF Plain
    <2> QED BY <2>1, <2>4, <2>5 DEF RInv, Made
  <1>4. CASE Refuse
    BY <1>4 DEF RInv, Refuse, Made
  <1>5. CASE SendRequest
    BY <1>5 DEF RInv, SendRequest, Made
  <1>6. ASSUME NEW http \in {"200", "204", "error"}, NEW parses \in BOOLEAN, Answer(http, parses)
        PROVE  RInv'
    <2>1. /\ status = "sent" /\ status' = http
          /\ result' \in {"error", "success"} /\ (http = "error" => result' = "error")
          /\ UNCHANGED <<builder, options, request>>
      BY <1>6 DEF Answer
    <2> QED BY <2>1 DEF RInv, Made
  <1>7. CASE UNCHANGED reqvars
    BY <1>7 DEF reqvars, RInv
  <1> QED BY <1>1, <1>2, <1>3, <1>4, <1>5, <1>6, <1>7 DEF RNext

\* The life of one builder keeps RInv.
THEOREM RequestsInductive == RSpec => []RInv
  BY RequestInit, RequestStep, PTL DEF RSpec

\* RInv says what the property does.
LEMMA RequestsFollow ==
  RInv => RequestSaysWhatWasSet
  <1> SUFFICES ASSUME RInv PROVE RequestSaysWhatWasSet
    OBVIOUS
  <1>1. status \in Made => Says(builder, request, options)
    BY EveryRequestSays DEF RInv
  <1>2. status = "thrown" => Cracks(builder, options)
    BY <1>1 DEF RInv, Made, Says
  <1>3. result = "success" => status \in {"200", "204"}
    BY DEF RInv
  <1>4. ASSUME status \in {"sent", "200", "204", "error"}
        PROVE  /\ QuerySays(request.query, options) /\ BodySays(builder, request, options)
               /\ FilesSay(request, options) /\ NoOthers(builder, request)
    BY <1>1, <1>4 DEF RInv, Made, Says
  <1>5. FilesSay(request, options) => Attached
    BY DEF FilesSay, Attached
  <1> QED BY <1>2, <1>3, <1>4, <1>5
          DEF RequestSaysWhatWasSet, QuerySays, BodySays, NoOthers

\* Whatever a builder is told, in whichever order and with whichever files, its
\* query has exactly the parameters, and its body exactly the fields, that it was
\* told (operator net::HttpRequest of the builders in src/src/request), but for
\* the setters LostBy names, which the code forgets; or it throws where Cracks
\* says that it may.
THEOREM RequestsSay == RSpec => []RequestSaysWhatWasSet
  BY RequestsFollow, RequestsInductive, PTL

-----------------------------------------------------------------------------
(* RTP packets.                                                            *)

\* What follows the first elements of a sequence, and what precedes the last.
LEMMA Halves ==
  ASSUME NEW T, NEW a \in Seq(T), NEW b \in Seq(T)
  PROVE  /\ SubSeq(a \o b, Len(a) + 1, Len(a \o b)) = b
         /\ SubSeq(a \o b, 1, Len(a \o b) - Len(b)) = a
         /\ b # <<>> => (a \o b) # <<>> /\ (a \o b)[Len(a \o b)] = b[Len(b)]
  <1>1. /\ a \o b \in Seq(T) /\ Len(a \o b) = Len(a) + Len(b)
        /\ \A i \in 1..Len(a) : (a \o b)[i] = a[i]
        /\ \A i \in 1..Len(b) : (a \o b)[Len(a) + i] = b[i]
    OBVIOUS
  <1>2. Len(a) \in Nat /\ Len(b) \in Nat
    OBVIOUS
  <1>3. SubSeq(a \o b, Len(a) + 1, Len(a \o b)) = b
    <2> DEFINE s == SubSeq(a \o b, Len(a) + 1, Len(a \o b))
    <2>0. \A i \in (Len(a) + 1)..Len(a \o b) : (a \o b)[i] \in T
      BY <1>1, <1>2, ElementOfSeq
    <2>1. s \in Seq(T) /\ Len(s) = Len(b) /\ \A i \in 1..Len(s) : s[i] = (a \o b)[Len(a) + i]
      <3> DEFINE m == Len(a) + 1
                 n == Len(a \o b)
      <3>1. m \in Int /\ n \in Int /\ n - m + 1 = Len(b)
        BY <1>1, <1>2
      <3> HIDE DEF m, n
      <3>2. /\ SubSeq(a \o b, m, n) \in Seq(T)
            /\ Len(SubSeq(a \o b, m, n)) = IF m <= n THEN n - m + 1 ELSE 0
            /\ \A i \in 1..(n - m + 1) : SubSeq(a \o b, m, n)[i] = (a \o b)[m + i - 1]
        BY <2>0, <3>1, SubSeqProperties DEF m, n
      <3>3. Len(SubSeq(a \o b, m, n)) = Len(b)
        BY <1>2, <3>1, <3>2
      <3>4. \A i \in 1..Len(b) : m + i - 1 = Len(a) + i
        BY <1>2 DEF m
      <3> QED BY <3>1, <3>2, <3>3, <3>4 DEF m, n
    <2> HIDE DEF s
    <2>2. \A i \in 1..Len(s) : s[i] = b[i]
      BY <1>1, <2>1
    <2> QED BY <2>1, <2>2, SeqEqual DEF s
  <1>4. SubSeq(a \o b, 1, Len(a \o b) - Len(b)) = a
    <2> DEFINE s == SubSeq(a \o b, 1, Len(a \o b) - Len(b))
    <2>0. \A i \in 1..(Len(a \o b) - Len(b)) : (a \o b)[i] \in T
      BY <1>1, <1>2, ElementOfSeq
    <2>1. s \in Seq(T) /\ Len(s) = Len(a) /\ \A i \in 1..Len(s) : s[i] = (a \o b)[i]
      <3> DEFINE n == Len(a \o b) - Len(b)
      <3>1. n = Len(a)
        BY <1>1, <1>2
      <3> HIDE DEF n
      <3>2. /\ SubSeq(a \o b, 1, n) \in Seq(T)
            /\ Len(SubSeq(a \o b, 1, n)) = IF 1 <= n THEN n - 1 + 1 ELSE 0
            /\ \A i \in 1..(n - 1 + 1) : SubSeq(a \o b, 1, n)[i] = (a \o b)[1 + i - 1]
        BY <1>2, <2>0, <3>1, SubSeqProperties DEF n
      <3>3. n \in Int /\ Len(SubSeq(a \o b, 1, n)) = n /\ n - 1 + 1 = n
        BY <1>2, <3>1, <3>2
      <3>4. \A i \in 1..n : SubSeq(a \o b, 1, n)[i] = (a \o b)[i]
        <4> TAKE i \in 1..n
        <4>1. 1 + i - 1 = i /\ i \in 1..(n - 1 + 1)
          BY <3>3
        <4> HIDE DEF n
        <4> QED BY <3>2, <4>1
      <3> QED BY <3>1, <3>2, <3>3, <3>4 DEF n
    <2> HIDE DEF s
    <2>2. \A i \in 1..Len(s) : s[i] = a[i]
      BY <1>1, <2>1
    <2> QED BY <2>1, <2>2, SeqEqual DEF s
  <1>5. b # <<>> => (a \o b) # <<>> /\ (a \o b)[Len(a \o b)] = b[Len(b)]
    <2> SUFFICES ASSUME b # <<>> PROVE (a \o b) # <<>> /\ (a \o b)[Len(a \o b)] = b[Len(b)]
      OBVIOUS
    <2>1. Len(b) > 0
      OBVIOUS
    <2> QED BY <1>1, <1>2, <2>1
  <1> QED BY <1>3, <1>4, <1>5

\* An Opus packet of version 2 that arrived whole.
IsOpus(made) == made.version = 2 /\ made.payload_type = 120 /\ made.missing = 0

\* The receiver finds the payload of every Opus packet a peer may build, whatever
\* its number of contributing sources, the length of its extension and its
\* padding, and none in a packet of another version or type or one that lost bytes
\* (ReceiverOp::process, strip_rtp_padding).
THEOREM PayloadFound ==
  ASSUME NEW made \in Packets
  PROVE  media_payload(RtpPacket(made)) = IF IsOpus(made) THEN <<made.payload>> ELSE <<>>
  <1> DEFINE csrcs == made.csrcs
             words == made.words
             payload == made.payload
             padding == made.padding
             Content == Range(payload)
             ext == Bytes("ext", 1, 4 * words)
             size == IF words < 0 THEN 0 ELSE 4 * words
             pads == [k \in 1..padding |-> <<"pad", padding>>]
             T == Content \union {ext[k] : k \in 1..size} \union {<<"pad", padding>>}
             packet == RtpPacket(made)
             rest == payload \o pads
  <1>0. /\ csrcs \in Nat /\ padding \in Nat /\ words \in Int /\ payload \in Seq(Content)
        /\ made.missing \in Nat
    BY LayoutConstants
  <1>header. /\ packet.version = made.version /\ packet.payload_type = made.payload_type
             /\ packet.missing = made.missing
    BY DEF RtpPacket
  <1>1. ext \in Seq(T) /\ Len(ext) = size
    <2>1. size \in Nat /\ 1..(4 * words - 1 + 1) = 1..size
      BY <1>0
    <2>2. ext = [k \in 1..size |-> <<"ext", 1 + k - 1>>]
      BY <2>1 DEF Bytes
    <2>3. \A k \in 1..size : ext[k] \in T
      OBVIOUS
    <2> HIDE DEF T, size, words
    <2> QED BY <2>1, <2>2, <2>3
  <1>2. pads \in Seq(T) /\ Len(pads) = padding /\ payload \in Seq(T) /\ size \in Nat
    <2>1. \A k \in 1..padding : pads[k] = <<"pad", padding>>
      OBVIOUS
    <2>2. Content \subseteq T /\ <<"pad", padding>> \in T
      OBVIOUS
    <2>3. size \in Nat
      BY <1>0
    <2> HIDE DEF T, Content, padding, payload, size
    <2> QED BY <1>0, <2>1, <2>2, <2>3
  <1>3. /\ packet.aad = 12 + (4 * csrcs) + (IF words < 0 THEN 0 ELSE 4)
        /\ packet.extension <=> words >= 0
        /\ packet.ext_len_words = words /\ packet.csrcs = csrcs
        /\ packet.padding <=> padding > 0
        /\ packet.plaintext = ext \o payload \o pads
    BY DEF RtpPacket
  <1> HIDE DEF ext, pads, T, packet, csrcs, words, payload, padding, Content
  <1>4. /\ rest \in Seq(T) /\ ext \o payload \o pads = ext \o rest
        /\ Len(rest) = Len(payload) + padding
    <2>0. ext \in Seq(T) /\ payload \in Seq(T) /\ pads \in Seq(T)
      BY <1>1, <1>2
    <2>1. (ext \o payload) \o pads = ext \o (payload \o pads)
      BY <2>0, ConcatAssociative
    <2>2. rest \in Seq(T) /\ Len(rest) = Len(payload) + Len(pads)
      BY <1>2, ConcatProperties
    <2> QED BY <1>2, <2>1, <2>2
  <1> HIDE DEF rest, size
  <1>5. SubSeq(ext \o rest, size + 1, Len(ext \o rest)) = rest /\ size <= Len(ext \o rest)
    <2> ext \in Seq(T) /\ rest \in Seq(T)
      BY <1>1, <1>4
    <2>1. Len(ext \o rest) = Len(ext) + Len(rest) /\ Len(rest) \in Nat
      BY ConcatProperties, LenProperties
    <2>2. SubSeq(ext \o rest, Len(ext) + 1, Len(ext \o rest)) = rest
      BY Halves
    <2> QED BY <1>1, <1>2, <2>1, <2>2
  <1>6. \A flag : (flag <=> padding > 0) => strip_rtp_padding(rest, flag) = payload
    <2> TAKE flag
    <2> HAVE flag <=> padding > 0
    <2>1. CASE padding = 0
      <3>1. pads = <<>>
        BY <1>2, <2>1, EmptySeq
      <3>2. rest = payload
        BY <1>2, <3>1 DEF rest
      <3> QED BY <2>1, <3>2 DEF strip_rtp_padding
    <2>2. CASE padding > 0
      <3>1. pads # <<>> /\ pads[Len(pads)] = <<"pad", padding>>
        <4>1. \A k \in 1..padding : pads[k] = <<"pad", padding>>
          BY DEF pads
        <4>2. padding \in 1..padding
          BY <1>0, <2>2
        <4> QED BY <1>2, <2>2, <4>1, <4>2
      <3>2. /\ rest # <<>> /\ rest[Len(rest)] = <<"pad", padding>>
            /\ SubSeq(rest, 1, Len(rest) - padding) = payload
        BY <1>2, <3>1, Halves DEF rest
      <3>3. rest[Len(rest)][1] = "pad" /\ rest[Len(rest)][2] = padding
        BY <3>2
      <3>4. Len(payload) \in Nat /\ ~(padding > Len(rest))
        BY <1>0, <1>4, LenProperties
      <3>5. flag /\ padding # 0
        BY <2>2
      <3> QED BY <3>2, <3>3, <3>4, <3>5, Zenon DEF strip_rtp_padding
    <2> QED BY <1>0, <2>1, <2>2
  <1>7. (IF packet.extension THEN packet.ext_len_words * 4 ELSE 0) = size
    BY <1>0, <1>3 DEF size
  <1>8. 12 + (packet.csrcs * 4) + (IF packet.extension THEN 4 ELSE 0) = packet.aad
    BY <1>0, <1>3
  <1>9. Len(ext \o rest) \in Nat /\ ~(size > Len(ext \o rest))
    BY <1>1, <1>2, <1>4, <1>5
  <1>10. packet.plaintext = ext \o rest
    BY <1>3, <1>4
  <1>11. CASE IsOpus(made)
    <2>1. media_payload(packet) = <<strip_rtp_padding(rest, packet.padding)>>
      <3>1. packet.version = 2 /\ packet.payload_type = 120 /\ ~(packet.missing > 0)
        BY <1>0, <1>header, <1>11 DEF IsOpus
      <3> QED BY <1>5, <1>7, <1>8, <1>9, <1>10, <3>1, Zenon DEF media_payload
    <2>2. strip_rtp_padding(rest, packet.padding) = payload
      BY <1>3, <1>6
    <2> QED BY <1>11, <2>1, <2>2 DEF packet, payload
  <1>12. CASE ~IsOpus(made)
    <2>1. packet.version # 2 \/ packet.payload_type # 120 \/ packet.missing > 0
      BY <1>0, <1>header, <1>12 DEF IsOpus
    <2>2. media_payload(packet) = <<>>
      BY <2>1 DEF media_payload
    <2> QED BY <1>12, <2>2 DEF packet
  <1> QED BY <1>11, <1>12

-----------------------------------------------------------------------------
(* Loops, and sequences joined one after the other.                        *)

\* Induction up to n.
LEMMA Induction ==
  ASSUME NEW n \in Nat, NEW P, 0 \in P, \A k \in 0..(n - 1) : k \in P => k + 1 \in P
  PROVE  0..n \subseteq P
  <1> DEFINE T == {k \in 0..n : k \notin P}
  <1> SUFFICES ASSUME T # {} PROVE FALSE
    OBVIOUS
  <1>1. T \subseteq Nat
    OBVIOUS
  <1>2. PICK x \in T : \A y \in T : ~(<<y, x>> \in OpToRel(<, Nat))
    BY <1>1, NatLessThanWellFounded, WFMin, Zenon
  <1>3. \A y \in T : ~(y < x)
    BY <1>1, <1>2 DEF OpToRel
  <1>4. x # 0 /\ x \in 0..n
    OBVIOUS
  <1>5. x - 1 \in 0..(n - 1) /\ x - 1 \notin T
    BY <1>3, <1>4
  <1> QED BY <1>5, <1>4

\* The states of a loop of n steps that starts in base and keeps its state in
\* S: h[<<s, k>>] is the state after step k in state s.
IsRun(f, n, S, base, h) ==
  f \in [0..n -> S] /\ f[0] = base /\ \A k \in 1..n : f[k] = h[<<f[k - 1], k>>]
RunOf(n, S, base, h) == CHOOSE f : IsRun(f, n, S, base, h)

LEMMA Loop ==
  ASSUME NEW n \in Nat, NEW S, NEW base \in S, NEW h \in [S \X (1..n) -> S]
  PROVE  IsRun(RunOf(n, S, base, h), n, S, base, h)
  <1> DEFINE Run(m, f) == f[0] = base /\ \A k \in 1..m : f[k] = h[<<f[k - 1], k>>]
             P == {m \in 0..n : \E f \in [0..m -> S] : Run(m, f)}
  <1>1. 0 \in P
    <2>1. [k \in 0..0 |-> base] \in [0..0 -> S] /\ Run(0, [k \in 0..0 |-> base])
      OBVIOUS
    <2>2. \E f \in [0..0 -> S] : Run(0, f)
      <3> HIDE DEF Run
      <3> QED BY <2>1, Zenon
    <2>3. 0 \in 0..n
      OBVIOUS
    <2> HIDE DEF Run
    <2> QED BY <2>2, <2>3
  <1>2. ASSUME NEW m \in 0..(n - 1), m \in P PROVE m + 1 \in P
    <2>1. PICK f \in [0..m -> S] : Run(m, f)
      BY <1>2
    <2> DEFINE g == [k \in 0..(m + 1) |-> IF k = m + 1 THEN h[<<f[m], m + 1>>] ELSE f[k]]
    <2>2. f[m] \in S /\ m + 1 \in 1..n
      OBVIOUS
    <2>3. h[<<f[m], m + 1>>] \in S
      BY <2>2
    <2>4. g \in [0..(m + 1) -> S]
      BY <2>3
    <2>5. \A k \in 1..(m + 1) : g[k] = h[<<g[k - 1], k>>]
      <3> TAKE k \in 1..(m + 1)
      <3>1. CASE k = m + 1
        <4>1. g[k - 1] = f[m] /\ g[k] = h[<<f[m], m + 1>>]
          BY <3>1
        <4> QED BY <3>1, <4>1
      <3>2. CASE k # m + 1
        <4>1. g[k - 1] = f[k - 1] /\ g[k] = f[k] /\ k \in 1..m
          BY <3>2
        <4> QED BY <4>1, <2>1
      <3> QED BY <3>1, <3>2
    <2>6. g[0] = base
      BY <2>1
    <2>7. Run(m + 1, g)
      BY <2>5, <2>6
    <2>8. m + 1 \in 0..n
      OBVIOUS
    <2> HIDE DEF Run, g
    <2> QED BY <2>4, <2>7, <2>8
  <1>3. n \in P
    <2> HIDE DEF P
    <2>1. 0..n \subseteq P
      BY <1>1, <1>2, Induction
    <2> QED BY <2>1
  <1>4. PICK f \in [0..n -> S] : Run(n, f)
    BY <1>3
  <1>5. IsRun(f, n, S, base, h)
    BY <1>4 DEF IsRun
  <1> QED BY <1>5, Zenon DEF RunOf

\* What every step keeps in S is in S.
LEMMA Stays ==
  ASSUME NEW n \in Nat, NEW S, NEW g, g = [k \in 0..n |-> g[k]], g[0] \in S,
         \A k \in 1..n : g[k - 1] \in S => g[k] \in S
  PROVE  g \in [0..n -> S]
  <1> DEFINE P == {k \in 0..n : g[k] \in S}
  <1>1. 0 \in P
    OBVIOUS
  <1>2. \A k \in 0..(n - 1) : k \in P => k + 1 \in P
    <2> TAKE k \in 0..(n - 1)
    <2> HAVE k \in P
    <2>1. k + 1 \in 1..n /\ k + 1 \in 0..n /\ (k + 1) - 1 = k
      OBVIOUS
    <2> QED BY <2>1
  <1>3. 0..n \subseteq P
    <2> HIDE DEF P
    <2> QED BY <1>1, <1>2, Induction
  <1> QED BY <1>3

\* Two loops that start alike and go on alike are alike.
LEMMA Agree ==
  ASSUME NEW n \in Nat, NEW f, NEW g, f[0] = g[0],
         \A k \in 1..n : f[k - 1] = g[k - 1] => f[k] = g[k]
  PROVE  \A k \in 0..n : f[k] = g[k]
  <1> DEFINE P == {k \in 0..n : f[k] = g[k]}
  <1>1. 0 \in P
    OBVIOUS
  <1>2. \A k \in 0..(n - 1) : k \in P => k + 1 \in P
    <2> TAKE k \in 0..(n - 1)
    <2> HAVE k \in P
    <2>1. k + 1 \in 1..n /\ k + 1 \in 0..n /\ (k + 1) - 1 = k
      OBVIOUS
    <2> QED BY <2>1
  <1>3. 0..n \subseteq P
    <2> HIDE DEF P
    <2> QED BY <1>1, <1>2, Induction
  <1> QED BY <1>3

\* FlattenSeq joins the sequences one after the other.
LEMMA FlattenRun ==
  ASSUME NEW T, NEW seqs \in Seq(Seq(T)), seqs # <<>>
  PROVE  \E f \in [0..Len(seqs) -> Seq(T)] :
           /\ f[0] = <<>> /\ \A k \in 1..Len(seqs) : f[k] = f[k - 1] \o seqs[k]
           /\ FlattenSeq(seqs) = f[Len(seqs)]
  <1> DEFINE n == Len(seqs)
             R == Seq(T)
             h == [p \in R \X (1..n) |-> p[1] \o seqs[p[2]]]
             Body(f) == [i \in 1..n |-> IF i = 1 THEN seqs[i] ELSE f[i - 1] \o seqs[i]]
             flatten == CHOOSE f : f = Body(f)
  <1>1. n \in Nat /\ n > 0 /\ n \in 0..n /\ \A k \in 1..n : seqs[k] \in R
    OBVIOUS
  <1>2. h \in [R \X (1..n) -> R] /\ <<>> \in R
    BY <1>1, ConcatProperties
  <1>10. FlattenSeq(seqs) = flatten[n]
    BY <1>1 DEF FlattenSeq
  <1>11. \A s \in R : <<>> \o s = s
    BY ConcatEmptySeq
  <1>12. \A s \in R, k \in 1..n : h[<<s, k>>] = s \o seqs[k]
    OBVIOUS
  <1> HIDE DEF h, R, n
  <1> DEFINE f == RunOf(n, R, <<>>, h)
  <1>3. f \in [0..n -> R] /\ f[0] = <<>> /\ \A k \in 1..n : f[k] = h[<<f[k - 1], k>>]
    <2>1. IsRun(f, n, R, <<>>, h)
      BY <1>1, <1>2, Loop, Zenon
    <2> QED BY <2>1 DEF IsRun
  <1> HIDE DEF f
  <1>4. \A k \in 1..n : f[k] = f[k - 1] \o seqs[k]
    <2> TAKE k \in 1..n
    <2>1. k - 1 \in 0..n
      BY <1>1
    <2>2. f[k - 1] \in R
      BY <1>3, <2>1
    <2> QED BY <1>3, <1>12, <2>2
  <1>5. f[1] = seqs[1]
    <2>1. 1 \in 1..n /\ 1 - 1 = 0
      BY <1>1
    <2>2. f[1] = f[0] \o seqs[1]
      BY <1>4, <2>1
    <2> QED BY <1>1, <1>3, <1>11, <2>1, <2>2
  <1> DEFINE g == [i \in 1..n |-> f[i]]
  <1>6. g = Body(g)
    <2>1. \A i \in 1..n : i # 1 => i - 1 \in 1..n
      BY <1>1
    <2> QED BY <1>4, <1>5, <2>1
  <1>7. flatten = Body(flatten)
    <2> HIDE DEF g, Body
    <2> QED BY <1>6
  <1> HIDE DEF flatten
  <1> DEFINE P == {i \in 0..n : i = 0 \/ flatten[i] = f[i]}
  <1>8. \A k \in 0..(n - 1) : k \in P => k + 1 \in P
    <2> TAKE k \in 0..(n - 1)
    <2> HAVE k \in P
    <2>0. k + 1 \in 1..n /\ (k + 1) - 1 = k /\ (k + 1 = 1 <=> k = 0) /\ k + 1 \in 0..n
      BY <1>1
    <2>1. flatten[k + 1] = IF k = 0 THEN seqs[k + 1] ELSE flatten[k] \o seqs[k + 1]
      BY <1>7, <2>0
    <2>2. f[k + 1] = IF k = 0 THEN seqs[k + 1] ELSE f[k] \o seqs[k + 1]
      BY <1>4, <1>5, <2>0
    <2> QED BY <2>0, <2>1, <2>2
  <1>9. n \in P
    <2>1. 0 \in P
      BY <1>1
    <2> HIDE DEF P
    <2>2. 0..n \subseteq P
      BY <1>1, <1>8, <2>1, Induction
    <2> QED BY <1>1, <2>2
  <1>13. FlattenSeq(seqs) = f[n]
    BY <1>1, <1>9, <1>10
  <1> QED BY <1>3, <1>4, <1>13, Zenon DEF n, R

\* What is joined up to every sequence (the empty one has none).
IsJoined(T, seqs, f) ==
  /\ f \in [0..Len(seqs) -> Seq(T)]
  /\ f[0] = <<>> /\ \A k \in 1..Len(seqs) : f[k] = f[k - 1] \o seqs[k]
  /\ FlattenSeq(seqs) = f[Len(seqs)]

LEMMA Joined ==
  ASSUME NEW T, NEW seqs \in Seq(Seq(T))
  PROVE  \E f : IsJoined(T, seqs, f)
  <1>1. CASE seqs = <<>>
    <2> DEFINE f == [k \in 0..0 |-> <<>>]
    <2>1. Len(seqs) = 0 /\ FlattenSeq(seqs) = <<>>
      BY <1>1 DEF FlattenSeq
    <2>2. f \in [0..0 -> Seq(T)] /\ f[0] = <<>>
      OBVIOUS
    <2> HIDE DEF f
    <2>3. IsJoined(T, seqs, f)
      BY <2>1, <2>2 DEF IsJoined
    <2> QED BY <2>3
  <1>2. CASE seqs # <<>>
    <2>1. PICK f \in [0..Len(seqs) -> Seq(T)] :
           /\ f[0] = <<>> /\ \A k \in 1..Len(seqs) : f[k] = f[k - 1] \o seqs[k]
           /\ FlattenSeq(seqs) = f[Len(seqs)]
      BY <1>2, FlattenRun, Zenon
    <2>2. IsJoined(T, seqs, f)
      BY <2>1, Zenon DEF IsJoined
    <2> QED BY <2>2
  <1> QED BY <1>1, <1>2

-----------------------------------------------------------------------------
(* LEB128.                                                                 *)

Octet == 0..255

\* Leb128Value adds the groups from the highest down.
LEMMA ValueRun ==
  ASSUME NEW x \in Seq(Octet)
  PROVE  \E f \in [0..Len(x) -> Nat] :
           /\ f[0] = 0
           /\ \A k \in 1..Len(x) : f[k] = (x[Len(x) + 1 - k] % 128) + (128 * f[k - 1])
           /\ Leb128Value(x) = f[Len(x)]
  <1> DEFINE n == Len(x)
             h == [p \in Nat \X (1..n) |-> (x[n + 1 - p[2]] % 128) + (128 * p[1])]
             Body(f) == [k \in 0..n |-> IF k = 0 THEN 0
                                        ELSE (x[n + 1 - k] % 128) + (128 * f[k - 1])]
             high == CHOOSE f : f = Body(f)
  <1>1. n \in Nat /\ n \in 0..n /\ \A k \in 1..n : n + 1 - k \in 1..n
    OBVIOUS
  <1>2. \A k \in 1..n : x[n + 1 - k] % 128 \in Nat
    <2>1. \A k \in 1..n : x[n + 1 - k] \in Octet
      BY <1>1, ElementOfSeq
    <2>2. \A b \in Octet : b % 128 \in Nat
      BY DEF Octet
    <2> HIDE DEF n
    <2> QED BY <2>1, <2>2
  <1>3. Leb128Value(x) = high[n]
    BY DEF Leb128Value
  <1> HIDE DEF n
  <1>4. h \in [Nat \X (1..n) -> Nat]
    BY <1>2
  <1>5. \A s \in Nat, k \in 1..n : h[<<s, k>>] = (x[n + 1 - k] % 128) + (128 * s)
    OBVIOUS
  <1> HIDE DEF h
  <1> DEFINE f == RunOf(n, Nat, 0, h)
  <1>6. f \in [0..n -> Nat] /\ f[0] = 0 /\ \A k \in 1..n : f[k] = h[<<f[k - 1], k>>]
    <2>1. IsRun(f, n, Nat, 0, h)
      BY <1>1, <1>4, Loop
    <2> QED BY <2>1 DEF IsRun
  <1> HIDE DEF f
  <1>7. \A k \in 1..n : f[k] = (x[n + 1 - k] % 128) + (128 * f[k - 1])
    <2> TAKE k \in 1..n
    <2>1. k - 1 \in 0..n
      BY <1>1
    <2>2. f[k - 1] \in Nat
      BY <1>6, <2>1
    <2> QED BY <1>5, <1>6, <2>2
  <1>8. f = Body(f)
    <2>1. \A k \in 0..n : k # 0 => k \in 1..n
      BY <1>1
    <2> QED BY <1>6, <1>7, <2>1
  <1>9. high = Body(high)
    <2> HIDE DEF Body
    <2> QED BY <1>8
  <1> HIDE DEF high
  <1>10. /\ high = [k \in 0..n |-> high[k]] /\ high[0] = 0
         /\ \A k \in 1..n : high[k] = (x[n + 1 - k] % 128) + (128 * high[k - 1])
    <2>1. 0 \in 0..n /\ \A k \in 1..n : k \in 0..n /\ k # 0
      BY <1>1
    <2> QED BY <1>9, <2>1
  <1>11. high \in [0..n -> Nat]
    <2>1. \A a, b \in Nat : a + (128 * b) \in Nat
      OBVIOUS
    <2>2. \A k \in 1..n : high[k - 1] \in Nat => high[k] \in Nat
      <3> TAKE k \in 1..n
      <3> HAVE high[k - 1] \in Nat
      <3> DEFINE low == x[n + 1 - k] % 128
      <3>1. low \in Nat /\ high[k] = low + (128 * high[k - 1])
        BY <1>2, <1>10
      <3> HIDE DEF low
      <3> QED BY <2>1, <3>1
    <2>3. high[0] \in Nat
      BY <1>10
    <2> QED BY <1>1, <1>10, <2>2, <2>3, Stays, Zenon
  <1> QED BY <1>3, <1>10, <1>11, Zenon DEF n

\* One more byte below the others.
LEMMA ValueOfCons ==
  ASSUME NEW b \in Octet, NEW x \in Seq(Octet)
  PROVE  /\ Leb128Value(x) \in Nat
         /\ Leb128Value(<<b>> \o x) = (b % 128) + (128 * Leb128Value(x))
         /\ Leb128Value(<<b>>) = b % 128
  <1>1. PICK f \in [0..Len(x) -> Nat] :
           /\ f[0] = 0
           /\ \A k \in 1..Len(x) : f[k] = (x[Len(x) + 1 - k] % 128) + (128 * f[k - 1])
           /\ Leb128Value(x) = f[Len(x)]
    BY ValueRun, Zenon
  <1> DEFINE y == <<b>> \o x
             n == Len(x)
  <1>2. y \in Seq(Octet) /\ Len(y) = n + 1 /\ n \in Nat /\ y[1] = b
    <2>1. <<b>> \in Seq(Octet) /\ Len(<<b>>) = 1 /\ <<b>>[1] = b
      OBVIOUS
    <2> QED BY <2>1, ConcatProperties
  <1>3. \A k \in 1..n : y[(n + 1) + 1 - k] = x[n + 1 - k]
    <2> TAKE k \in 1..n
    <2>1. <<b>> \in Seq(Octet) /\ Len(<<b>>) = 1
      OBVIOUS
    <2> DEFINE i == (n + 1) + 1 - k
    <2>2. i \in 1..(1 + n) /\ ~(i <= 1) /\ i - 1 = n + 1 - k
      BY <1>2
    <2> HIDE DEF n, i
    <2>3. y[i] = x[i - 1]
      BY <2>1, <2>2, ConcatProperties DEF n
    <2> QED BY <2>2, <2>3 DEF i
  <1> HIDE DEF y
  <1>4. PICK g \in [0..Len(y) -> Nat] :
           /\ g[0] = 0
           /\ \A k \in 1..Len(y) : g[k] = (y[Len(y) + 1 - k] % 128) + (128 * g[k - 1])
           /\ Leb128Value(y) = g[Len(y)]
    BY <1>2, ValueRun, Zenon
  <1> HIDE DEF n
  <1> DEFINE P == {k \in 0..n : g[k] = f[k]}
  <1>5. \A k \in 0..(n - 1) : k \in P => k + 1 \in P
    <2> TAKE k \in 0..(n - 1)
    <2> HAVE k \in P
    <2>1. /\ k + 1 \in 1..n /\ k + 1 \in 0..n /\ (k + 1) - 1 = k /\ k + 1 \in 1..(n + 1)
      BY <1>2
    <2>2. g[k + 1] = (y[(n + 1) + 1 - (k + 1)] % 128) + (128 * g[k])
      BY <1>2, <1>4, <2>1
    <2>3. f[k + 1] = (x[n + 1 - (k + 1)] % 128) + (128 * f[k])
      BY <1>1, <2>1 DEF n
    <2> QED BY <1>3, <2>1, <2>2, <2>3
  <1>6. n \in P
    <2>1. 0 \in P
      BY <1>1, <1>2, <1>4
    <2> HIDE DEF P
    <2>2. 0..n \subseteq P
      BY <1>2, <1>5, <2>1, Induction
    <2> QED BY <1>2, <2>2
  <1>7. Leb128Value(y) = (b % 128) + (128 * Leb128Value(x))
    <2>1. n + 1 \in 1..(n + 1) /\ (n + 1) + 1 - (n + 1) = 1 /\ (n + 1) - 1 = n
      BY <1>2
    <2>2. g[n + 1] = (y[1] % 128) + (128 * g[n])
      BY <1>2, <1>4, <2>1
    <2> QED BY <1>1, <1>2, <1>4, <1>6, <2>2 DEF n
  <1>8. Leb128Value(x) \in Nat
    BY <1>1, <1>2 DEF n
  <1>9. Leb128Value(<<b>>) = b % 128
    <2> DEFINE z == <<b>>
    <2>1. z \in Seq(Octet) /\ Len(z) = 1 /\ z[1] = b
      OBVIOUS
    <2> HIDE DEF z
    <2>2. PICK e \in [0..Len(z) -> Nat] :
           /\ e[0] = 0
           /\ \A k \in 1..Len(z) : e[k] = (z[Len(z) + 1 - k] % 128) + (128 * e[k - 1])
           /\ Leb128Value(z) = e[Len(z)]
      BY <2>1, ValueRun, Zenon
    <2>3. b % 128 \in Nat
      BY DEF Octet
    <2>4. e[1] = (z[1] % 128) + (128 * e[0])
      BY <2>1, <2>2
    <2> QED BY <2>1, <2>2, <2>3, <2>4 DEF z
  <1> QED BY <1>7, <1>8, <1>9 DEF y

\* The bytes that write_leb128 writes of every number up to value.
LEMMA WriteRun ==
  ASSUME NEW value \in Nat
  PROVE  \E w \in [0..value -> Seq(Octet)] :
           /\ \A v \in 0..value : w[v] = IF v < 128 THEN <<v>>
                                         ELSE <<128 + (v % 128)>> \o w[v \div 128]
           /\ write_leb128(value) = w[value]
  <1> DEFINE Bits(f, v) == IF v < 128 THEN <<v>> ELSE <<128 + (v % 128)>> \o f[v \div 128]
             Run(m, f) == \A v \in 0..m : f[v] = Bits(f, v)
             P == {m \in 0..value : \E f \in [0..m -> Seq(Octet)] : Run(m, f)}
             Body(f) == [v \in 0..value |-> Bits(f, v)]
             w == CHOOSE f : f = Body(f)
  <1>0. \A v \in Nat : v < 128 => v \in Octet
    BY DEF Octet
  <1>1. \A v \in Nat : ~(v < 128) => /\ v \div 128 \in 0..(v - 1) /\ 128 + (v % 128) \in Octet
    BY DEF Octet
  <1>2. ASSUME NEW m \in Nat, NEW f \in [0..m -> Seq(Octet)], NEW v \in Nat, v <= m + 1
        PROVE  Bits(f, v) \in Seq(Octet)
    <2>1. CASE v < 128
      <3>1. v \in Octet
        BY <1>0, <2>1
      <3> QED BY <2>1, <3>1
    <2>2. CASE ~(v < 128)
      <3> DEFINE q == v \div 128
                 b == 128 + (v % 128)
      <3>1. q \in 0..m /\ b \in Octet
        BY <1>1, <1>2, <2>2
      <3> HIDE DEF q, b
      <3>2. f[q] \in Seq(Octet) /\ <<b>> \in Seq(Octet)
        BY <3>1
      <3>3. <<b>> \o f[q] \in Seq(Octet)
        BY <3>2, ConcatProperties
      <3> QED BY <2>2, <3>3 DEF q, b
    <2> QED BY <2>1, <2>2
  <1>3. 0 \in P
    <2> DEFINE f == [v \in 0..0 |-> <<0>>]
    <2>1. f \in [0..0 -> Seq(Octet)]
      BY DEF Octet
    <2>2. Run(0, f)
      OBVIOUS
    <2>3. \E g \in [0..0 -> Seq(Octet)] : Run(0, g)
      <3> HIDE DEF Run, f
      <3> QED BY <2>1, <2>2, Zenon
    <2> HIDE DEF Run
    <2> QED BY <2>3
  <1>4. ASSUME NEW m \in 0..(value - 1), m \in P PROVE m + 1 \in P
    <2>1. PICK f \in [0..m -> Seq(Octet)] : Run(m, f)
      BY <1>4
    <2> DEFINE g == [v \in 0..(m + 1) |-> IF v = m + 1 THEN Bits(f, m + 1) ELSE f[v]]
    <2>2. m \in Nat /\ m + 1 \in Nat /\ m + 1 <= m + 1 /\ m + 1 \in 0..value
      OBVIOUS
    <2>3. Bits(f, m + 1) \in Seq(Octet)
      <3> HIDE DEF Bits
      <3> QED BY <1>2, <2>2
    <2>4. g \in [0..(m + 1) -> Seq(Octet)]
      <3> HIDE DEF Bits
      <3> QED BY <2>2, <2>3
    <2>5. Run(m + 1, g)
      <3> SUFFICES ASSUME NEW v \in 0..(m + 1) PROVE g[v] = Bits(g, v)
        OBVIOUS
      <3>1. g[v] = Bits(f, v)
        <4> HIDE DEF Bits
        <4>1. v # m + 1 => v \in 0..m
          BY <2>2
        <4> QED BY <2>1, <2>2, <4>1
      <3>2. Bits(f, v) = Bits(g, v)
        <4>1. CASE v < 128
          BY <4>1
        <4>2. CASE ~(v < 128)
          <5> DEFINE q == v \div 128
          <5>1. q \in 0..(v - 1)
            BY <1>1, <2>2, <4>2
          <5> HIDE DEF q
          <5>2. q \in 0..(m + 1) /\ q # m + 1
            BY <2>2, <5>1
          <5>3. g[q] = f[q]
            <6> HIDE DEF Bits
            <6> QED BY <5>2
          <5> HIDE DEF g
          <5> QED BY <4>2, <5>3 DEF q
        <4> QED BY <4>1, <4>2
      <3> QED BY <3>1, <3>2, Zenon
    <2>6. \E k \in [0..(m + 1) -> Seq(Octet)] : Run(m + 1, k)
      <3> HIDE DEF Run, g
      <3> QED BY <2>4, <2>5, Zenon
    <2> HIDE DEF Run
    <2> QED BY <2>2, <2>6
  <1>5. value \in P
    <2> HIDE DEF P
    <2>1. 0..value \subseteq P
      BY <1>3, <1>4, Induction
    <2> QED BY <2>1
  <1>6. PICK f \in [0..value -> Seq(Octet)] : Run(value, f)
    <2> HIDE DEF Run
    <2> QED BY <1>5
  <1>7. f = Body(f)
    <2> HIDE DEF Bits
    <2> QED BY <1>6
  <1>8. w = Body(w)
    <2> HIDE DEF Body
    <2> QED BY <1>7, Zenon
  <1>9. write_leb128(value) = w[value]
    BY DEF write_leb128
  <1> HIDE DEF w
  <1>10. \A v \in 0..value : w[v] = Bits(w, v)
    <2> HIDE DEF Bits
    <2> QED BY <1>8
  <1> DEFINE Q == {m \in 0..value : \A v \in 0..m : w[v] = f[v]}
  <1>11. 0 \in Q
    <2>1. w[0] = <<0>> /\ f[0] = <<0>>
      <3>1. 0 \in 0..value /\ 0 < 128
        OBVIOUS
      <3> QED BY <1>6, <1>10, <3>1, Zenon
    <2>2. 0 \in 0..value /\ \A v \in 0..0 : v = 0
      OBVIOUS
    <2> QED BY <2>1, <2>2, Zenon
  <1>12. ASSUME NEW m \in 0..(value - 1), m \in Q PROVE m + 1 \in Q
    <2>1. m + 1 \in 0..value /\ \A v \in 0..(m + 1) : v \in 0..m \/ v = m + 1
      OBVIOUS
    <2>2. Bits(w, m + 1) = Bits(f, m + 1)
      <3>1. CASE m + 1 < 128
        BY <3>1
      <3>2. CASE ~(m + 1 < 128)
        <4> DEFINE q == (m + 1) \div 128
        <4>1. q \in 0..m
          BY <1>1, <3>2
        <4> HIDE DEF q
        <4>2. w[q] = f[q]
          BY <1>12, <4>1
        <4> QED BY <3>2, <4>2 DEF q
      <3> QED BY <3>1, <3>2
    <2>3. w[m + 1] = f[m + 1]
      <3> HIDE DEF Bits
      <3> QED BY <1>6, <1>10, <2>1, <2>2
    <2> QED BY <1>12, <2>1, <2>3
  <1>13. value \in Q
    <2> HIDE DEF Q
    <2>1. 0..value \subseteq Q
      BY <1>11, <1>12, Induction
    <2> QED BY <2>1
  <1>14. write_leb128(value) = f[value]
    BY <1>9, <1>13
  <1> QED BY <1>6, <1>14, Zenon

\* What write_leb128 writes: bytes that ask for more up to the last, which
\* does not, and the number they are.
LEMMA Leb128Parts ==
  ASSUME NEW value \in Nat
  PROVE  LET x == write_leb128(value) IN
         /\ x \in Seq(Octet) /\ Len(x) >= 1
         /\ \A k \in 1..(Len(x) - 1) : x[k] >= 128
         /\ x[Len(x)] < 128
         /\ Leb128Value(x) = value
  <1> DEFINE Good(x, v) == /\ x \in Seq(Octet) /\ Len(x) >= 1
                           /\ \A k \in 1..(Len(x) - 1) : x[k] >= 128
                           /\ x[Len(x)] < 128
                           /\ Leb128Value(x) = v
  <1>1. PICK w \in [0..value -> Seq(Octet)] :
           /\ \A v \in 0..value : w[v] = IF v < 128 THEN <<v>>
                                         ELSE <<128 + (v % 128)>> \o w[v \div 128]
           /\ write_leb128(value) = w[value]
    BY WriteRun, Zenon
  <1>2. ASSUME NEW v \in Nat, v < 128 PROVE Good(<<v>>, v)
    <2>1. v \in Octet /\ v % 128 = v
      <3>1. v \in Octet
        BY <1>2 DEF Octet
      <3>2. v \in 0..127
        BY <1>2
      <3>3. \A i \in 0..127 : i % 128 = i
        <4> TAKE i \in 0..127
        <4> DEFINE q == i \div 128
                   r == i % 128
        <4>1. q \in Int /\ r \in 0..127 /\ i = (128 * q) + r
          OBVIOUS
        <4> HIDE DEF q, r
        <4>2. i = r
          BY <4>1
        <4> QED BY <4>2 DEF r
      <3> QED BY <3>1, <3>2, <3>3
    <2>2. Leb128Value(<<v>>) = v
      BY <2>1, ValueOfCons, EmptySeq
    <2> QED BY <1>2, <2>1, <2>2
  <1>3. ASSUME NEW v \in Nat, ~(v < 128), NEW x, Good(x, v \div 128)
        PROVE  Good(<<128 + (v % 128)>> \o x, v)
    <2> DEFINE b == 128 + (v % 128)
               q == v \div 128
               y == <<b>> \o x
    <2>1. b \in Octet /\ b >= 128 /\ (b % 128) + (128 * q) = v /\ q \in Nat
      BY <1>3 DEF Octet
    <2>2. Leb128Value(x) = q
      BY <1>3
    <2> HIDE DEF b, q
    <2>3. Leb128Value(y) = v
      BY <1>3, <2>1, <2>2, ValueOfCons
    <2>4. <<b>> \in Seq(Octet) /\ Len(<<b>>) = 1 /\ <<b>>[1] = b /\ Len(x) \in Nat
      BY <1>3, <2>1
    <2>5. /\ y \in Seq(Octet) /\ Len(y) = 1 + Len(x)
          /\ \A i \in 1..(1 + Len(x)) : y[i] = IF i <= 1 THEN b ELSE x[i - 1]
      <3>1. y \in Seq(Octet) /\ Len(y) = Len(<<b>>) + Len(x)
        BY <1>3, <2>4, ConcatProperties
      <3>2. \A i \in 1..(Len(<<b>>) + Len(x)) :
              y[i] = IF i <= Len(<<b>>) THEN <<b>>[i] ELSE x[i - Len(<<b>>)]
        BY <1>3, <2>4, ConcatProperties
      <3>3. \A i \in 1..(1 + Len(x)) : i <= 1 => i = 1
        BY <2>4
      <3> HIDE DEF y, Good
      <3> QED BY <2>4, <3>1, <3>2, <3>3
    <2> HIDE DEF y
    <2>6. /\ \A k \in 1..(Len(y) - 1) : y[k] >= 128
          /\ y[Len(y)] < 128
      <3>1. \A k \in 1..(Len(y) - 1) : k <= 1 \/ k - 1 \in 1..(Len(x) - 1)
        BY <2>4, <2>5
      <3>2. \A k \in 1..(Len(y) - 1) : k \in 1..(1 + Len(x))
        BY <2>4, <2>5
      <3>3. \A k \in 1..(Len(x) - 1) : x[k] >= 128
        BY <1>3
      <3>4. y[Len(y)] = x[Len(x)]
        BY <1>3, <2>4, <2>5
      <3>5. x[Len(x)] < 128
        BY <1>3
      <3> HIDE DEF Good
      <3> QED BY <2>1, <2>5, <3>1, <3>2, <3>3, <3>4, <3>5
    <2>7. Len(y) >= 1
      BY <2>4, <2>5
    <2> QED BY <2>3, <2>5, <2>6, <2>7 DEF y, b
  <1> HIDE DEF Good
  <1> DEFINE Q == {m \in 0..value : \A v \in 0..m : Good(w[v], v)}
  <1>4. 0 \in Q
    <2>1. w[0] = <<0>>
      <3>1. 0 \in 0..value /\ 0 < 128
        OBVIOUS
      <3> QED BY <1>1, <3>1, Zenon
    <2>2. 0 \in 0..value /\ 0 < 128 /\ 0 \in Nat /\ \A v \in 0..0 : v = 0
      OBVIOUS
    <2> QED BY <1>2, <2>1, <2>2, Zenon
  <1>5. ASSUME NEW m \in 0..(value - 1), m \in Q PROVE m + 1 \in Q
    <2>1. m + 1 \in 0..value /\ \A v \in 0..(m + 1) : v \in 0..m \/ v = m + 1
      OBVIOUS
    <2>2. Good(w[m + 1], m + 1)
      <3>1. CASE m + 1 < 128
        <4>1. w[m + 1] = <<m + 1>>
          BY <1>1, <2>1, <3>1
        <4> QED BY <1>2, <3>1, <4>1
      <3>2. CASE ~(m + 1 < 128)
        <4>1. (m + 1) \div 128 \in 0..m
          BY <3>2
        <4>2. Good(w[(m + 1) \div 128], (m + 1) \div 128)
          BY <1>5, <4>1
        <4>3. w[m + 1] = <<128 + ((m + 1) % 128)>> \o w[(m + 1) \div 128]
          BY <1>1, <2>1, <3>2
        <4> QED BY <1>3, <2>1, <3>2, <4>2, <4>3
      <3> QED BY <3>1, <3>2
    <2> QED BY <1>5, <2>1, <2>2
  <1>6. value \in Q
    <2> HIDE DEF Q
    <2>1. 0..value \subseteq Q
      BY <1>4, <1>5, Induction
    <2> QED BY <2>1
  <1>7. Good(w[value], value)
    BY <1>6
  <1> QED BY <1>1, <1>7 DEF Good

\* A number is read back as it was written, and what follows it is left for
\* the next reader (write_leb128, read_leb128).
THEOREM Leb128ReadsBack ==
  ASSUME NEW value \in Nat, NEW rest \in Seq(Octet)
  PROVE  read_leb128(write_leb128(value) \o rest) = [ok |-> TRUE, value |-> value, rest |-> rest]
  <1> DEFINE x == write_leb128(value)
             y == x \o rest
             ends == {k \in DOMAIN y : y[k] < 128}
             n == Len(x)
  <1>1. /\ x \in Seq(Octet) /\ n \in Nat /\ n >= 1
        /\ \A k \in 1..(n - 1) : x[k] >= 128
        /\ x[n] < 128
        /\ Leb128Value(x) = value
    BY Leb128Parts
  <1> HIDE DEF x
  <1>2. /\ y \in Seq(Octet) /\ Len(y) = n + Len(rest) /\ DOMAIN y = 1..Len(y)
        /\ \A i \in 1..n : y[i] = x[i]
        /\ \A i \in DOMAIN y : y[i] \in Octet
    BY <1>1
  <1>3. /\ SubSeq(y, n + 1, Len(y)) = rest
        /\ SubSeq(y, 1, Len(y) - Len(rest)) = x
    BY <1>1, Halves
  <1>4. Len(rest) \in Nat /\ Len(y) - Len(rest) = n
    BY <1>1, <1>2
  <1> HIDE DEF y, n
  <1>5. n \in ends /\ \A j \in ends : n <= j
    <2>1. n \in ends
      BY <1>1, <1>2, <1>4
    <2>2. ASSUME NEW j \in ends, ~(n <= j) PROVE FALSE
      <3>1. j \in 1..(n - 1) /\ j \in 1..n /\ y[j] \in Octet
        BY <1>1, <1>2, <1>4, <2>2
      <3>2. y[j] >= 128 /\ y[j] < 128
        BY <1>1, <1>2, <3>1
      <3>3. \A c \in Octet : ~(c >= 128 /\ c < 128)
        BY DEF Octet
      <3> QED BY <3>1, <3>2, <3>3, Zenon
    <2> QED BY <2>1, <2>2
  <1> DEFINE last == CHOOSE k \in ends : \A j \in ends : k <= j
  <1>6. last = n
    <2>1. last \in ends /\ \A j \in ends : last <= j
      BY <1>5
    <2>2. ends \subseteq Nat
      BY <1>2, <1>4
    <2> HIDE DEF last, ends
    <2>3. last <= n /\ n <= last /\ last \in Nat /\ n \in Nat
      BY <1>5, <2>1, <2>2
    <2> QED BY <2>3
  <1>7. ends # {}
    BY <1>5
  <1>8. SubSeq(y, 1, n) = x
    BY <1>3, <1>4
  <1>9. read_leb128(y) = [ok |-> TRUE, value |-> Leb128Value(SubSeq(y, 1, last)),
                          rest |-> SubSeq(y, last + 1, Len(y))]
    BY <1>7, Zenon DEF read_leb128
  <1> HIDE DEF last
  <1>10. read_leb128(y) = [ok |-> TRUE, value |-> value, rest |-> rest]
    BY <1>1, <1>3, <1>6, <1>8, <1>9
  <1> QED BY <1>10 DEF x, y

-----------------------------------------------------------------------------
(* Frames.                                                                 *)

Ranges == [offset : Nat, size : Nat]

\* The k-th range of a layout: whole goes on with a gap of other bytes and a
\* run of clear ones.  S, R and O hold what the first ranges cover of the whole,
\* the clear and the other bytes.
Placed(T, range, S, R, O, k) ==
  \E gap, run \in Seq(T) :
    /\ S[k] = (S[k - 1] \o gap) \o run
    /\ R[k] = R[k - 1] \o run
    /\ O[k] = O[k - 1] \o gap
    /\ range.offset = Len(S[k - 1]) + Len(gap)
    /\ range.size = Len(run)

Begins(T, first, bytes) == \E rest \in Seq(T) : bytes = first \o rest

\* The clear and the other bytes of whole, by its ranges.
IsLayout(T, ranges, clear, other, whole, S, R, O, tail) ==
  LET n == Len(ranges) IN
  /\ S \in [0..n -> Seq(T)] /\ R \in [0..n -> Seq(T)] /\ O \in [0..n -> Seq(T)]
  /\ S[0] = <<>> /\ R[0] = <<>> /\ O[0] = <<>>
  /\ \A k \in 1..n : Placed(T, ranges[k], S, R, O, k)
  /\ \A k \in 0..n : /\ Begins(T, S[k], whole) /\ Begins(T, R[k], clear)
                     /\ Begins(T, O[k], other)
  /\ tail \in Seq(T) /\ whole = S[n] \o tail /\ clear = R[n] /\ other = O[n] \o tail

Layout(T, ranges, clear, other, whole) ==
  /\ ranges \in Seq(Ranges)
  /\ clear \in Seq(T) /\ other \in Seq(T) /\ whole \in Seq(T)
  /\ \E S, R, O, tail : IsLayout(T, ranges, clear, other, whole, S, R, O, tail)

\* Concatenation is associative.  (As an operator of its own, which the provers
\* do not expand.)
Chain(x, y) == x \o y

LEMMA Assoc ==
  ASSUME NEW T, NEW x \in Seq(T), NEW y \in Seq(T), NEW z \in Seq(T)
  PROVE  Chain(Chain(x, y), z) = Chain(x, Chain(y, z))
  BY ConcatAssociative DEF Chain

\* The part of a sequence between two others.
LEMMA Middle ==
  ASSUME NEW T, NEW a \in Seq(T), NEW b \in Seq(T), NEW c \in Seq(T)
  PROVE  SubSeq((a \o b) \o c, Len(a) + 1, Len(a) + Len(b)) = b
  <1> DEFINE s == (a \o b) \o c
             m == Len(a) + 1
             n == Len(a) + Len(b)
             t == SubSeq(s, m, n)
  <1>1. /\ Len(a) \in Nat /\ Len(b) \in Nat /\ Len(c) \in Nat
        /\ m \in Int /\ n \in Int /\ n - m + 1 = Len(b) /\ (IF m <= n THEN n - m + 1 ELSE 0) = Len(b)
    OBVIOUS
  <1>2. /\ s \in Seq(T) /\ Len(s) = Len(a) + Len(b) + Len(c)
        /\ \A i \in 1..Len(b) : s[Len(a) + i] = b[i]
    <2>1. a \o b \in Seq(T) /\ Len(a \o b) = Len(a) + Len(b)
      OBVIOUS
    <2>2. \A i \in 1..Len(b) : (a \o b)[Len(a) + i] = b[i] /\ Len(a) + i \in 1..Len(a \o b)
      OBVIOUS
    <2> DEFINE ab == a \o b
    <2> HIDE DEF ab
    <2>3. ab \o c \in Seq(T) /\ Len(ab \o c) = Len(ab) + Len(c) /\ \A i \in 1..Len(ab) : (ab \o c)[i] = ab[i]
      BY <2>1 DEF ab
    <2> QED BY <2>1, <2>2, <2>3 DEF ab
  <1> HIDE DEF s
  <1>3. \A i \in m..n : s[i] \in T
    <2>1. \A i \in m..n : i \in 1..Len(s)
      BY <1>1, <1>2
    <2> HIDE DEF m, n
    <2> QED BY <1>2, <2>1, ElementOfSeq
  <1>4. \A i \in 1..Len(b) : m + i - 1 = Len(a) + i
    BY <1>1
  <1> HIDE DEF m, n
  <1>5. /\ t \in Seq(T) /\ Len(t) = Len(b)
        /\ \A i \in 1..Len(b) : t[i] = s[m + i - 1]
    BY <1>1, <1>3, SubSeqProperties
  <1> HIDE DEF t
  <1>6. \A i \in 1..Len(b) : t[i] = b[i]
    BY <1>2, <1>4, <1>5
  <1>7. t = b
    BY <1>5, <1>6, SeqEqual
  <1> QED BY <1>7 DEF s, m, n, t

LEMMA Second ==
  ASSUME NEW T, NEW a \in Seq(T), NEW b \in Seq(T), NEW c \in Seq(T), NEW d \in Seq(T)
  PROVE  SubSeq(((a \o b) \o c) \o d, Len(a) + 1, Len(a) + Len(b)) = b
  <1> DEFINE e == a \o b
  <1>1. e \in Seq(T) /\ c \o d \in Seq(T)
    BY ConcatProperties
  <1>2. SubSeq(e \o (c \o d), Len(a) + 1, Len(a) + Len(b)) = b
    BY <1>1, Middle, Zenon
  <1> HIDE DEF e
  <1>3. (e \o c) \o d = e \o (c \o d)
    BY <1>1, ConcatAssociative
  <1> QED BY <1>2, <1>3 DEF e

\* A layout keeps its lengths.
LEMMA LayoutLengths ==
  ASSUME NEW T, NEW ranges, NEW clear, NEW other, NEW whole, NEW S, NEW R, NEW O, NEW tail,
         ranges \in Seq(Ranges),
         IsLayout(T, ranges, clear, other, whole, S, R, O, tail),
         NEW k \in 0..Len(ranges)
  PROVE  /\ Len(ranges) \in Nat
         /\ S[k] \in Seq(T) /\ R[k] \in Seq(T) /\ O[k] \in Seq(T)
         /\ Len(S[k]) \in Nat /\ Len(R[k]) \in Nat /\ Len(O[k]) \in Nat
  <1>1. S[k] \in Seq(T) /\ R[k] \in Seq(T) /\ O[k] \in Seq(T)
    BY DEF IsLayout
  <1>2. \A s \in Seq(T) : Len(s) \in Nat
    OBVIOUS
  <1> QED BY <1>1, <1>2

\* Where the bytes of the k-th range and of the gap before it are found.
Found(range, clear, other, whole, S, R, O, k, gap, run) ==
  /\ S[k] = (S[k - 1] \o gap) \o run /\ R[k] = R[k - 1] \o run /\ O[k] = O[k - 1] \o gap
  /\ Len(gap) \in Nat /\ range.offset = Len(S[k - 1]) + Len(gap) /\ range.size = Len(run)
  /\ Len(S[k]) = range.offset + range.size
  /\ Len(R[k]) = Len(R[k - 1]) + range.size
  /\ Len(O[k]) = Len(O[k - 1]) + Len(gap)
  /\ SubSeq(other, Len(O[k - 1]) + 1, Len(O[k - 1]) + Len(gap)) = gap
  /\ SubSeq(clear, Len(R[k - 1]) + 1, Len(R[k - 1]) + range.size) = run
  /\ SubSeq(whole, Len(S[k - 1]) + 1, range.offset) = gap
  /\ SubSeq(whole, range.offset + 1, range.offset + range.size) = run

LEMMA RangeFound ==
  ASSUME NEW T, NEW ranges, NEW clear, NEW other, NEW whole, NEW S, NEW R, NEW O, NEW tail,
         ranges \in Seq(Ranges),
         IsLayout(T, ranges, clear, other, whole, S, R, O, tail),
         NEW k \in 1..Len(ranges)
  PROVE  \E gap, run \in Seq(T) :
           Found(ranges[k], clear, other, whole, S, R, O, k, gap, run)
  <1> DEFINE offset == ranges[k].offset
             size == ranges[k].size
             s == S[k - 1]
             r == R[k - 1]
             g == O[k - 1]
  <1>1. k - 1 \in 0..Len(ranges) /\ k \in 0..Len(ranges)
    OBVIOUS
  <1>2. /\ s \in Seq(T) /\ r \in Seq(T) /\ g \in Seq(T)
        /\ Len(s) \in Nat /\ Len(r) \in Nat /\ Len(g) \in Nat
    <2> HIDE DEF IsLayout
    <2> QED BY <1>1, LayoutLengths
  <1>3. PICK gap, run \in Seq(T) :
          /\ S[k] = (s \o gap) \o run /\ R[k] = r \o run /\ O[k] = g \o gap
          /\ offset = Len(s) + Len(gap) /\ size = Len(run)
    BY DEF IsLayout, Placed
  <1>4. /\ \E a \in Seq(T) : whole = S[k] \o a
        /\ \E a \in Seq(T) : clear = R[k] \o a
        /\ \E a \in Seq(T) : other = O[k] \o a
    BY <1>1, Zenon DEF IsLayout, Begins
  <1> HIDE DEF s, r, g, offset, size
  <1>5. Len(gap) \in Nat /\ Len(run) \in Nat
    OBVIOUS
  <1>6. s \o gap \in Seq(T) /\ Len(s \o gap) = offset
    BY <1>2, <1>3, ConcatProperties
  <1>7. Len(S[k]) = offset + size /\ Len(R[k]) = Len(r) + size /\ Len(O[k]) = Len(g) + Len(gap)
    BY <1>2, <1>3, <1>6, ConcatProperties
  <1>8. SubSeq(other, Len(g) + 1, Len(g) + Len(gap)) = gap
    <2>1. PICK a \in Seq(T) : other = (g \o gap) \o a
      BY <1>3, <1>4
    <2>2. SubSeq((g \o gap) \o a, Len(g) + 1, Len(g) + Len(gap)) = gap
      BY <1>2, Middle, Zenon
    <2> QED BY <2>1, <2>2
  <1>9. SubSeq(clear, Len(r) + 1, Len(r) + size) = run
    <2>1. PICK a \in Seq(T) : clear = (r \o run) \o a /\ size = Len(run)
      BY <1>3, <1>4
    <2>2. SubSeq((r \o run) \o a, Len(r) + 1, Len(r) + Len(run)) = run
      BY <1>2, Middle, Zenon
    <2> QED BY <2>1, <2>2
  <1>10. SubSeq(whole, offset + 1, offset + size) = run
    <2> DEFINE sg == s \o gap
    <2>1. PICK a \in Seq(T) : whole = (sg \o run) \o a /\ size = Len(run) /\ sg \in Seq(T) /\ Len(sg) = offset
      BY <1>3, <1>4, <1>6
    <2> HIDE DEF sg
    <2>2. SubSeq((sg \o run) \o a, Len(sg) + 1, Len(sg) + Len(run)) = run
      BY <2>1, Middle, Zenon
    <2> QED BY <2>1, <2>2
  <1>11. SubSeq(whole, Len(s) + 1, offset) = gap
    <2> DEFINE sg == s \o gap
    <2>1. PICK a \in Seq(T) : whole = (sg \o run) \o a
      BY <1>3, <1>4
    <2>2. SubSeq((sg \o run) \o a, Len(s) + 1, Len(s) + Len(gap)) = gap
      <3>1. s \in Seq(T)
        BY <1>2
      <3> QED BY <3>1, Second
    <2>3. offset = Len(s) + Len(gap)
      BY <1>3
    <2> QED BY <2>1, <2>2, <2>3
  <1>12. Found(ranges[k], clear, other, whole, S, R, O, k, gap, run)
    BY <1>3, <1>5, <1>7, <1>8, <1>9, <1>10, <1>11, Zenon DEF Found, s, r, g, offset, size
  <1> QED BY <1>12

\* do_reconstruct puts a layout's bytes together.
LEMMA Reconstructed ==
  ASSUME NEW T, NEW ranges, NEW clear, NEW other, NEW whole,
         Layout(T, ranges, clear, other, whole)
  PROVE  do_reconstruct(ranges, clear, other) = whole
  <1>1. PICK S, R, O, tail : IsLayout(T, ranges, clear, other, whole, S, R, O, tail)
    BY DEF Layout
  <1>2. ranges \in Seq(Ranges)
    BY DEF Layout
  <1> DEFINE n == Len(ranges)
             start == [out |-> <<>>, taken |-> 0, others |-> 0]
             f == [k \in 0..n |-> [out |-> S[k], taken |-> Len(R[k]), others |-> Len(O[k])]]
             Body(c) == [k \in 0..n |-> IF k = 0 THEN start
                                        ELSE CopyRange(c[k - 1], ranges[k], clear, other)]
             copied == CHOOSE c : c = Body(c)
  <1>3. n \in Nat /\ 0 \in 0..n /\ n \in 0..n /\ \A k \in 1..n : k \in 0..n /\ k - 1 \in 0..n
    BY <1>2
  <1>4. do_reconstruct(ranges, clear, other) =
          copied[n].out \o SubSeq(other, copied[n].others + 1, Len(other))
    BY DEF do_reconstruct
  <1> HIDE DEF n
  <1>5. f[0] = start
    BY <1>1, <1>3 DEF IsLayout
  <1>6. ASSUME NEW k \in 1..n PROVE f[k] = CopyRange(f[k - 1], ranges[k], clear, other)
    <2> DEFINE offset == ranges[k].offset
               size == ranges[k].size
               s == f[k - 1]
    <2>0. PICK gap, run \in Seq(T) :
            Found(ranges[k], clear, other, whole, S, R, O, k, gap, run)
      BY <1>1, <1>2, RangeFound, Zenon DEF n
    <2>1. /\ S[k] = (S[k - 1] \o gap) \o run
          /\ Len(gap) \in Nat /\ offset = Len(S[k - 1]) + Len(gap)
          /\ Len(R[k]) = Len(R[k - 1]) + size
          /\ Len(O[k]) = Len(O[k - 1]) + Len(gap)
          /\ SubSeq(other, Len(O[k - 1]) + 1, Len(O[k - 1]) + Len(gap)) = gap
          /\ SubSeq(clear, Len(R[k - 1]) + 1, Len(R[k - 1]) + size) = run
      BY <2>0, Zenon DEF Found
    <2>2. Len(S[k - 1]) \in Nat
      BY <1>1, <1>2, <1>3, LayoutLengths, Zenon DEF n
    <2> DEFINE d == IF offset > Len(S[k - 1]) THEN offset - Len(S[k - 1]) ELSE 0
    <2>3. d = Len(gap)
      BY <2>1, <2>2
    <2>4. s = [out |-> S[k - 1], taken |-> Len(R[k - 1]), others |-> Len(O[k - 1])]
      BY <1>3
    <2>5. f[k] = [out |-> S[k], taken |-> Len(R[k]), others |-> Len(O[k])]
      BY <1>3
    <2> HIDE DEF f, s
    <2>6. s.out = S[k - 1] /\ s.taken = Len(R[k - 1]) /\ s.others = Len(O[k - 1])
      BY <2>4
    <2>7. CopyRange(s, ranges[k], clear, other) =
            [out |-> S[k - 1] \o SubSeq(other, Len(O[k - 1]) + 1, Len(O[k - 1]) + d)
                              \o SubSeq(clear, Len(R[k - 1]) + 1, Len(R[k - 1]) + size),
             taken |-> Len(R[k - 1]) + size, others |-> Len(O[k - 1]) + d]
      BY <2>6, Zenon DEF CopyRange
    <2> HIDE DEF d, offset, size
    <2>8. CopyRange(s, ranges[k], clear, other) =
            [out |-> (S[k - 1] \o gap) \o run, taken |-> Len(R[k]), others |-> Len(O[k])]
      BY <2>1, <2>3, <2>7
    <2>9. CopyRange(s, ranges[k], clear, other) = f[k]
      BY <2>1, <2>5, <2>8
    <2> QED BY <2>9 DEF s
  <1>7. f = Body(f)
    <2>1. f = [k \in 0..n |-> f[k]]
      OBVIOUS
    <2>2. \A k \in 0..n : f[k] = IF k = 0 THEN start
                                 ELSE CopyRange(f[k - 1], ranges[k], clear, other)
      <3>1. \A k \in 0..n : k = 0 \/ k \in 1..n
        BY <1>3
      <3> HIDE DEF f, start
      <3> QED BY <1>5, <1>6, <3>1
    <2> HIDE DEF f, start
    <2> QED BY <2>1, <2>2
  <1> HIDE DEF f
  <1>8. copied = Body(copied)
    <2> HIDE DEF Body
    <2> QED BY <1>7, Zenon
  <1> HIDE DEF copied
  <1>9. \A k \in 0..n : copied[k] = f[k]
    <2>1. copied[0] = f[0]
      BY <1>3, <1>5, <1>8
    <2>2. \A k \in 1..n : copied[k - 1] = f[k - 1] => copied[k] = f[k]
      <3> TAKE k \in 1..n
      <3> HAVE copied[k - 1] = f[k - 1]
      <3>1. k \in 0..n /\ k # 0
        BY <1>3
      <3>2. copied[k] = CopyRange(copied[k - 1], ranges[k], clear, other)
        BY <1>8, <3>1
      <3> QED BY <1>6, <3>2
    <2>3. n \in Nat
      BY <1>3
    <2> QED BY <2>1, <2>2, <2>3, Agree, Zenon
  <1>10. copied[n].out = S[n] /\ copied[n].others = Len(O[n])
    <2>1. f[n] = [out |-> S[n], taken |-> Len(R[n]), others |-> Len(O[n])]
      BY <1>3 DEF f
    <2> QED BY <1>3, <1>9, <2>1
  <1>11. SubSeq(other, Len(O[n]) + 1, Len(other)) = tail
    <2>1. O[n] \in Seq(T)
      BY <1>1, <1>2, <1>3, LayoutLengths, Zenon DEF n
    <2>2. other = O[n] \o tail /\ tail \in Seq(T)
      BY <1>1 DEF IsLayout, n
    <2> QED BY <2>1, <2>2, Halves
  <1>12. whole = S[n] \o tail
    BY <1>1 DEF IsLayout, n
  <1> QED BY <1>4, <1>10, <1>11, <1>12

\* Split takes a layout's whole apart.
LEMMA TakenApart ==
  ASSUME NEW T, NEW ranges, NEW clear, NEW other, NEW whole,
         Layout(T, ranges, clear, other, whole)
  PROVE  Split(whole, ranges) = [authenticated |-> clear, ciphertext |-> other]
  <1>1. PICK S, R, O, tail : IsLayout(T, ranges, clear, other, whole, S, R, O, tail)
    BY DEF Layout
  <1>2. ranges \in Seq(Ranges)
    BY DEF Layout
  <1> DEFINE n == Len(ranges)
             start == [ciphertext |-> <<>>, authenticated |-> <<>>, index |-> 0]
             f == [k \in 0..n |-> [ciphertext |-> O[k], authenticated |-> R[k],
                                   index |-> Len(S[k])]]
             Body(c) == [k \in 0..n |-> IF k = 0 THEN start
                                        ELSE SplitRange(c[k - 1], ranges[k], whole)]
             split == CHOOSE c : c = Body(c)
  <1>3. n \in Nat /\ 0 \in 0..n /\ n \in 0..n /\ \A k \in 1..n : k \in 0..n /\ k - 1 \in 0..n
    BY <1>2
  <1>4. Split(whole, ranges) =
          [authenticated |-> split[n].authenticated,
           ciphertext |-> split[n].ciphertext \o SubSeq(whole, split[n].index + 1, Len(whole))]
    BY DEF Split
  <1> HIDE DEF n
  <1>5. f[0] = start
    BY <1>1, <1>3 DEF IsLayout
  <1>6. ASSUME NEW k \in 1..n PROVE f[k] = SplitRange(f[k - 1], ranges[k], whole)
    <2> DEFINE offset == ranges[k].offset
               size == ranges[k].size
               s == f[k - 1]
    <2>0. PICK gap, run \in Seq(T) :
            Found(ranges[k], clear, other, whole, S, R, O, k, gap, run)
      BY <1>1, <1>2, RangeFound, Zenon DEF n
    <2>1. /\ R[k] = R[k - 1] \o run /\ O[k] = O[k - 1] \o gap
          /\ Len(S[k]) = offset + size
          /\ SubSeq(whole, Len(S[k - 1]) + 1, offset) = gap
          /\ SubSeq(whole, offset + 1, offset + size) = run
      BY <2>0, Zenon DEF Found
    <2>4. s = [ciphertext |-> O[k - 1], authenticated |-> R[k - 1], index |-> Len(S[k - 1])]
      BY <1>3
    <2>5. f[k] = [ciphertext |-> O[k], authenticated |-> R[k], index |-> Len(S[k])]
      BY <1>3
    <2> HIDE DEF f, s
    <2>6. s.ciphertext = O[k - 1] /\ s.authenticated = R[k - 1] /\ s.index = Len(S[k - 1])
      BY <2>4
    <2>7. SplitRange(s, ranges[k], whole) =
            [ciphertext |-> O[k - 1] \o SubSeq(whole, Len(S[k - 1]) + 1, offset),
             authenticated |-> R[k - 1] \o SubSeq(whole, offset + 1, offset + size),
             index |-> offset + size]
      BY <2>6, Zenon DEF SplitRange
    <2> HIDE DEF offset, size
    <2>8. SplitRange(s, ranges[k], whole) = f[k]
      BY <2>1, <2>5, <2>7
    <2> QED BY <2>8 DEF s
  <1>7. f = Body(f)
    <2>1. f = [k \in 0..n |-> f[k]]
      OBVIOUS
    <2>2. \A k \in 0..n : f[k] = IF k = 0 THEN start
                                 ELSE SplitRange(f[k - 1], ranges[k], whole)
      <3>1. \A k \in 0..n : k = 0 \/ k \in 1..n
        BY <1>3
      <3> HIDE DEF f, start
      <3> QED BY <1>5, <1>6, <3>1
    <2> HIDE DEF f, start
    <2> QED BY <2>1, <2>2
  <1> HIDE DEF f
  <1>8. split = Body(split)
    <2> HIDE DEF Body
    <2> QED BY <1>7, Zenon
  <1> HIDE DEF split
  <1>9. \A k \in 0..n : split[k] = f[k]
    <2>1. split[0] = f[0]
      BY <1>3, <1>5, <1>8
    <2>2. \A k \in 1..n : split[k - 1] = f[k - 1] => split[k] = f[k]
      <3> TAKE k \in 1..n
      <3> HAVE split[k - 1] = f[k - 1]
      <3>1. k \in 0..n /\ k # 0
        BY <1>3
      <3>2. split[k] = SplitRange(split[k - 1], ranges[k], whole)
        BY <1>8, <3>1
      <3> QED BY <1>6, <3>2
    <2>3. n \in Nat
      BY <1>3
    <2> QED BY <2>1, <2>2, <2>3, Agree, Zenon
  <1>10. /\ split[n].ciphertext = O[n] /\ split[n].authenticated = R[n]
         /\ split[n].index = Len(S[n])
    <2>1. f[n] = [ciphertext |-> O[n], authenticated |-> R[n], index |-> Len(S[n])]
      BY <1>3 DEF f
    <2> QED BY <1>3, <1>9, <2>1
  <1>11. SubSeq(whole, Len(S[n]) + 1, Len(whole)) = tail
    <2>1. S[n] \in Seq(T)
      BY <1>1, <1>2, <1>3, LayoutLengths, Zenon DEF n
    <2>2. whole = S[n] \o tail /\ tail \in Seq(T)
      BY <1>1 DEF IsLayout, n
    <2> QED BY <2>1, <2>2, Halves
  <1>12. other = O[n] \o tail /\ clear = R[n]
    BY <1>1 DEF IsLayout, n
  <1> QED BY <1>4, <1>10, <1>11, <1>12

\* The ranges of a layout pass the receiver's test.
LEMMA Validated ==
  ASSUME NEW T, NEW ranges, NEW clear, NEW other, NEW whole, NEW extra \in Nat,
         Layout(T, ranges, clear, other, whole)
  PROVE  validate_unencrypted_ranges(ranges, Len(whole) + extra)
  <1>1. PICK S, R, O, tail : IsLayout(T, ranges, clear, other, whole, S, R, O, tail)
    BY DEF Layout
  <1>2. ranges \in Seq(Ranges) /\ whole \in Seq(T)
    BY DEF Layout
  <1> DEFINE n == Len(ranges)
             end(k) == ranges[k].offset + ranges[k].size
  <1>3. n \in Nat /\ DOMAIN ranges = 1..n
    BY <1>2
  <1> HIDE DEF n
  <1>4. ASSUME NEW k \in 1..n
        PROVE  /\ end(k) = Len(S[k]) /\ Len(S[k]) \in Nat
               /\ ranges[k].offset \in Nat /\ Len(S[k - 1]) \in Nat
               /\ Len(S[k - 1]) <= ranges[k].offset
    <2>1. PICK gap, run \in Seq(T) :
            Found(ranges[k], clear, other, whole, S, R, O, k, gap, run)
      BY <1>1, <1>2, RangeFound, Zenon DEF n
    <2>2. k \in 0..n /\ k - 1 \in 0..n
      BY <1>3
    <2>3. Len(S[k]) \in Nat /\ Len(S[k - 1]) \in Nat
      BY <1>1, <1>2, <2>2, LayoutLengths, Zenon DEF n
    <2>4. Len(gap) \in Nat /\ ranges[k].offset = Len(S[k - 1]) + Len(gap) /\ end(k) = Len(S[k])
      BY <2>1, Zenon DEF Found
    <2> QED BY <2>3, <2>4
  <1>5. ASSUME NEW k \in 1..n
        PROVE  end(k) <= IF k < n THEN ranges[k + 1].offset ELSE Len(whole) + extra
    <2>1. CASE k < n
      <3>1. k + 1 \in 1..n /\ (k + 1) - 1 = k
        BY <1>3, <2>1
      <3>2. end(k) = Len(S[k]) /\ Len(S[k]) <= ranges[k + 1].offset
        BY <1>4, <3>1
      <3> QED BY <2>1, <3>2
    <2>2. CASE ~(k < n)
      <3>1. k = n
        BY <1>3, <2>2
      <3>2. end(n) = Len(S[n]) /\ Len(S[n]) \in Nat
        BY <1>4, <3>1
      <3>3. S[n] \in Seq(T) /\ tail \in Seq(T) /\ whole = S[n] \o tail
        <4>1. n \in 0..n
          BY <1>3
        <4>2. S[n] \in Seq(T)
          BY <1>1, <1>2, <4>1, LayoutLengths, Zenon DEF n
        <4> QED BY <1>1, <4>2 DEF IsLayout, n
      <3>4. Len(whole) = Len(S[n]) + Len(tail) /\ Len(tail) \in Nat
        BY <3>3, ConcatProperties, LenProperties
      <3>5. Len(S[n]) <= Len(whole) + extra
        BY <3>2, <3>4
      <3> QED BY <2>2, <3>1, <3>2, <3>5
    <2> QED BY <2>1, <2>2
  <1> QED BY <1>3, <1>5, Zenon DEF validate_unencrypted_ranges, n

\* What begins a sequence begins every longer one.
LEMMA Grows ==
  ASSUME NEW T, NEW s \in Seq(T), NEW w \in Seq(T), NEW b \in Seq(T), Begins(T, s, w)
  PROVE  w \o b \in Seq(T) /\ Begins(T, s, w \o b)
  <1>1. PICK a \in Seq(T) : w = s \o a
    BY DEF Begins
  <1>2. w \o b = s \o (a \o b)
    BY <1>1, ConcatAssociative
  <1>3. w \o b \in Seq(T) /\ a \o b \in Seq(T)
    BY ConcatProperties
  <1> QED BY <1>2, <1>3, Zenon DEF Begins

LEMMA BeginsItself ==
  ASSUME NEW T, NEW s \in Seq(T)
  PROVE  Begins(T, s, s) /\ s = s \o <<>> /\ <<>> \in Seq(T)
  <1>1. s = s \o <<>> /\ <<>> \in Seq(T)
    BY ConcatEmptySeq, EmptySeq
  <1> QED BY <1>1, Zenon DEF Begins

\* add_encrypted_bytes keeps a layout.
LEMMA SecretAdded ==
  ASSUME NEW T, NEW ranges, NEW clear, NEW other, NEW whole, NEW b \in Seq(T),
         Layout(T, ranges, clear, other, whole)
  PROVE  Layout(T, ranges, clear, other \o b, whole \o b)
  <1>1. PICK S, R, O, tail : IsLayout(T, ranges, clear, other, whole, S, R, O, tail)
    BY DEF Layout
  <1>2. /\ ranges \in Seq(Ranges) /\ clear \in Seq(T) /\ other \in Seq(T) /\ whole \in Seq(T)
        /\ Len(ranges) \in Nat
    BY DEF Layout
  <1> DEFINE n == Len(ranges)
  <1>3. \A k \in 0..n : S[k] \in Seq(T) /\ R[k] \in Seq(T) /\ O[k] \in Seq(T)
    BY <1>1, <1>2, LayoutLengths, Zenon
  <1>4. /\ S \in [0..n -> Seq(T)] /\ R \in [0..n -> Seq(T)] /\ O \in [0..n -> Seq(T)]
        /\ S[0] = <<>> /\ R[0] = <<>> /\ O[0] = <<>>
        /\ \A k \in 1..n : Placed(T, ranges[k], S, R, O, k)
        /\ \A k \in 0..n : /\ Begins(T, S[k], whole) /\ Begins(T, R[k], clear)
                           /\ Begins(T, O[k], other)
        /\ tail \in Seq(T) /\ whole = S[n] \o tail /\ clear = R[n] /\ other = O[n] \o tail
    BY <1>1, Zenon DEF IsLayout
  <1> HIDE DEF n
  <1>5. other \o b \in Seq(T) /\ whole \o b \in Seq(T) /\ tail \o b \in Seq(T)
    BY <1>2, <1>4, ConcatProperties
  <1>6. ASSUME NEW k \in 0..n
        PROVE  Begins(T, S[k], whole \o b) /\ Begins(T, O[k], other \o b)
    BY <1>2, <1>3, <1>4, Grows, Zenon
  <1>7. n \in 0..n
    BY <1>2 DEF n
  <1>8. whole \o b = S[n] \o (tail \o b)
    <2> DEFINE s == S[n]
    <2>1. s \in Seq(T) /\ tail \in Seq(T)
      BY <1>3, <1>4, <1>7
    <2>2. whole = s \o tail
      BY <1>4
    <2> HIDE DEF s
    <2>3. (s \o tail) \o b = s \o (tail \o b)
      BY <2>1, ConcatAssociative
    <2> QED BY <2>2, <2>3 DEF s
  <1>9. other \o b = O[n] \o (tail \o b)
    <2> DEFINE s == O[n]
    <2>1. s \in Seq(T) /\ tail \in Seq(T)
      BY <1>3, <1>4, <1>7
    <2>2. other = s \o tail
      BY <1>4
    <2> HIDE DEF s
    <2>3. (s \o tail) \o b = s \o (tail \o b)
      BY <2>1, ConcatAssociative
    <2> QED BY <2>2, <2>3 DEF s
  <1>10. IsLayout(T, ranges, clear, other \o b, whole \o b, S, R, O, tail \o b)
    BY <1>4, <1>5, <1>6, <1>8, <1>9, Zenon DEF IsLayout, n
  <1> QED BY <1>2, <1>5, <1>10, Zenon DEF Layout

\* A range that is put behind the others (add_unencrypted_bytes).
LEMMA RangeAdded ==
  ASSUME NEW T, NEW ranges, NEW clear, NEW other, NEW whole, NEW b \in Seq(T),
         Layout(T, ranges, clear, other, whole)
  PROVE  Layout(T, Append(ranges, [offset |-> Len(whole), size |-> Len(b)]),
                clear \o b, other, whole \o b)
  <1>1. PICK S, R, O, tail : IsLayout(T, ranges, clear, other, whole, S, R, O, tail)
    BY DEF Layout
  <1>2. /\ ranges \in Seq(Ranges) /\ clear \in Seq(T) /\ other \in Seq(T) /\ whole \in Seq(T)
        /\ Len(ranges) \in Nat
    BY DEF Layout
  <1> DEFINE n == Len(ranges)
             range == [offset |-> Len(whole), size |-> Len(b)]
             longer == Append(ranges, range)
  <1>3. \A k \in 0..n : S[k] \in Seq(T) /\ R[k] \in Seq(T) /\ O[k] \in Seq(T)
    BY <1>1, <1>2, LayoutLengths, Zenon
  <1>4. /\ S[0] = <<>> /\ R[0] = <<>> /\ O[0] = <<>>
        /\ \A k \in 1..n : Placed(T, ranges[k], S, R, O, k)
        /\ \A k \in 0..n : /\ Begins(T, S[k], whole) /\ Begins(T, R[k], clear)
                           /\ Begins(T, O[k], other)
        /\ tail \in Seq(T) /\ whole = S[n] \o tail /\ clear = R[n] /\ other = O[n] \o tail
    BY <1>1, Zenon DEF IsLayout
  <1>5. Len(whole) \in Nat /\ Len(b) \in Nat
    BY <1>2, LenProperties
  <1>6. range \in Ranges /\ range.offset = Len(whole) /\ range.size = Len(b)
    BY <1>5 DEF Ranges
  <1> HIDE DEF range
  <1>7. /\ longer \in Seq(Ranges) /\ Len(longer) = n + 1
        /\ \A k \in 1..n : longer[k] = ranges[k]
        /\ longer[n + 1] = range
    BY <1>2, <1>6, AppendProperties
  <1> DEFINE S1 == [k \in 0..(n + 1) |-> IF k = n + 1 THEN whole \o b ELSE S[k]]
             R1 == [k \in 0..(n + 1) |-> IF k = n + 1 THEN clear \o b ELSE R[k]]
             G1 == [k \in 0..(n + 1) |-> IF k = n + 1 THEN other ELSE O[k]]
  <1> HIDE DEF n, longer
  <1>8. clear \o b \in Seq(T) /\ whole \o b \in Seq(T) /\ <<>> \in Seq(T)
    BY <1>2, ConcatProperties, EmptySeq
  <1>0. n \in Nat
    BY <1>2 DEF n
  <1>9. /\ n \in Nat /\ 0 \in 0..n /\ n \in 0..n /\ n + 1 \in 0..(n + 1) /\ 0 # n + 1
        /\ \A k \in 0..(n + 1) : k = n + 1 \/ (k # n + 1 /\ k \in 0..n)
        /\ \A k \in 0..n : k \in 0..(n + 1) /\ k # n + 1
        /\ \A k \in 1..n : k \in 0..n /\ k - 1 \in 0..n
        /\ (n + 1) - 1 = n
        /\ \A k \in 1..(n + 1) : k = n + 1 \/ k \in 1..n
    BY <1>0
  <1>10. /\ S1 \in [0..(n + 1) -> Seq(T)] /\ R1 \in [0..(n + 1) -> Seq(T)]
         /\ G1 \in [0..(n + 1) -> Seq(T)]
    BY <1>2, <1>3, <1>8, <1>9
  <1>11. /\ \A k \in 0..n : S1[k] = S[k] /\ R1[k] = R[k] /\ G1[k] = O[k]
         /\ S1[n + 1] = whole \o b /\ R1[n + 1] = clear \o b /\ G1[n + 1] = other
    BY <1>9
  <1> HIDE DEF S1, R1, G1
  <1>12. ASSUME NEW k \in 1..(n + 1) PROVE Placed(T, longer[k], S1, R1, G1, k)
    <2>1. CASE k \in 1..n
      <3>1. k \in 0..n /\ k - 1 \in 0..n
        BY <1>9, <2>1
      <3>2. /\ S1[k] = S[k] /\ R1[k] = R[k] /\ G1[k] = O[k] /\ longer[k] = ranges[k]
            /\ S1[k - 1] = S[k - 1] /\ R1[k - 1] = R[k - 1] /\ G1[k - 1] = O[k - 1]
        BY <1>7, <1>11, <2>1, <3>1, Zenon
      <3>3. Placed(T, ranges[k], S, R, O, k)
        BY <1>4, <2>1
      <3> QED BY <3>2, <3>3, Zenon DEF Placed
    <2>2. CASE k = n + 1
      <3>1. S1[k - 1] = S[n] /\ R1[k - 1] = R[n] /\ G1[k - 1] = O[n]
        BY <1>9, <1>11, <2>2, Zenon
      <3>2. S[n] \in Seq(T)
        BY <1>3, <1>9
      <3>3. Len(whole) = Len(S[n]) + Len(tail)
        BY <1>4, <3>2, ConcatProperties
      <3>4. /\ S1[k] = (S1[k - 1] \o tail) \o b
            /\ R1[k] = R1[k - 1] \o b
            /\ G1[k] = G1[k - 1] \o tail
            /\ longer[k].offset = Len(S1[k - 1]) + Len(tail)
            /\ longer[k].size = Len(b)
        BY <1>4, <1>6, <1>7, <1>11, <2>2, <3>1, <3>3, Zenon
      <3> QED BY <1>4, <3>4, Zenon DEF Placed
    <2> QED BY <1>9, <2>1, <2>2
  <1>13. ASSUME NEW k \in 0..(n + 1)
         PROVE  /\ Begins(T, S1[k], whole \o b) /\ Begins(T, R1[k], clear \o b)
                /\ Begins(T, G1[k], other)
    <2>1. CASE k \in 0..n
      <3>1. S1[k] = S[k] /\ R1[k] = R[k] /\ G1[k] = O[k]
        BY <1>11, <2>1
      <3>2. Begins(T, S[k], whole \o b)
        BY <1>2, <1>3, <1>4, <2>1, Grows, Zenon
      <3>3. Begins(T, R[k], clear \o b)
        BY <1>2, <1>3, <1>4, <2>1, Grows, Zenon
      <3> QED BY <1>4, <2>1, <3>1, <3>2, <3>3, Zenon
    <2>2. CASE k = n + 1
      <3>1. /\ Begins(T, whole \o b, whole \o b) /\ Begins(T, clear \o b, clear \o b)
            /\ Begins(T, other, other)
        BY <1>2, <1>8, BeginsItself, Zenon
      <3> QED BY <1>11, <2>2, <3>1, Zenon
    <2> QED BY <1>9, <2>1, <2>2
  <1>14. IsLayout(T, longer, clear \o b, other, whole \o b, S1, R1, G1, <<>>)
    <2>1. whole \o b = S1[n + 1] \o <<>> /\ other = G1[n + 1] \o <<>> /\ clear \o b = R1[n + 1]
      BY <1>2, <1>8, <1>11, BeginsItself, Zenon
    <2>2. S1[0] = <<>> /\ R1[0] = <<>> /\ G1[0] = <<>>
      BY <1>4, <1>9, <1>11, Zenon
    <2> QED BY <1>7, <1>8, <1>10, <1>12, <1>13, <2>1, <2>2, Zenon DEF IsLayout
  <1>15. Layout(T, longer, clear \o b, other, whole \o b)
    BY <1>2, <1>7, <1>8, <1>14, Zenon DEF Layout
  <1> QED BY <1>15 DEF longer, range

\* The last range grows by the bytes that follow it (add_unencrypted_bytes).
LEMMA RangeJoined ==
  ASSUME NEW T, NEW ranges, NEW clear, NEW other, NEW whole, NEW b \in Seq(T),
         Layout(T, ranges, clear, other, whole), ranges # <<>>,
         ranges[Len(ranges)].offset + ranges[Len(ranges)].size = Len(whole)
  PROVE  Layout(T, [ranges EXCEPT ![Len(ranges)].size = @ + Len(b)],
                clear \o b, other, whole \o b)
  <1>1. PICK S, R, O, tail : IsLayout(T, ranges, clear, other, whole, S, R, O, tail)
    BY DEF Layout
  <1>2. /\ ranges \in Seq(Ranges) /\ clear \in Seq(T) /\ other \in Seq(T) /\ whole \in Seq(T)
        /\ Len(ranges) \in Nat
    BY DEF Layout
  <1> DEFINE n == Len(ranges)
             range == [ranges[n] EXCEPT !.size = @ + Len(b)]
             longer == [ranges EXCEPT ![n] = range]
  <1>3. \A k \in 0..n : /\ S[k] \in Seq(T) /\ R[k] \in Seq(T) /\ O[k] \in Seq(T)
                        /\ Len(S[k]) \in Nat
    BY <1>1, <1>2, LayoutLengths, Zenon
  <1>4. /\ S \in [0..n -> Seq(T)] /\ R \in [0..n -> Seq(T)] /\ O \in [0..n -> Seq(T)]
        /\ S[0] = <<>> /\ R[0] = <<>> /\ O[0] = <<>>
        /\ \A k \in 1..n : Placed(T, ranges[k], S, R, O, k)
        /\ \A k \in 0..n : /\ Begins(T, S[k], whole) /\ Begins(T, R[k], clear)
                           /\ Begins(T, O[k], other)
        /\ tail \in Seq(T) /\ whole = S[n] \o tail /\ clear = R[n] /\ other = O[n] \o tail
    BY <1>1, Zenon DEF IsLayout
  <1>5. Len(whole) \in Nat /\ Len(b) \in Nat /\ n \in Nat /\ n > 0 /\ n \in 1..n
    BY <1>2, LenProperties
  <1>6. /\ ranges[n] \in Ranges /\ range \in Ranges
        /\ range.offset = ranges[n].offset /\ range.size = ranges[n].size + Len(b)
    <2>1. ranges[n] \in Ranges
      BY <1>2, <1>5, ElementOfSeq
    <2> DEFINE last == ranges[n]
    <2>2. last \in Ranges
      BY <2>1
    <2> HIDE DEF last, n
    <2>3. /\ [last EXCEPT !.size = @ + Len(b)] \in Ranges
          /\ [last EXCEPT !.size = @ + Len(b)].offset = last.offset
          /\ [last EXCEPT !.size = @ + Len(b)].size = last.size + Len(b)
      BY <1>5, <2>2 DEF Ranges
    <2> QED BY <2>1, <2>3 DEF last
  <1>16. [ranges EXCEPT ![Len(ranges)].size = @ + Len(b)] = longer
    OBVIOUS
  <1> HIDE DEF range
  <1>7. /\ longer \in Seq(Ranges) /\ Len(longer) = n
        /\ \A k \in 1..n : longer[k] = IF k = n THEN range ELSE ranges[k]
    BY <1>2, <1>5, <1>6, ExceptSeq
  <1> HIDE DEF n, longer
  <1>8. PICK gap, run \in Seq(T) :
          /\ S[n] = (S[n - 1] \o gap) \o run
          /\ R[n] = R[n - 1] \o run
          /\ O[n] = O[n - 1] \o gap
          /\ ranges[n].offset = Len(S[n - 1]) + Len(gap)
          /\ ranges[n].size = Len(run)
    BY <1>4, <1>5 DEF Placed
  <1>9. /\ 0 \in 0..n /\ n \in 0..n /\ n - 1 \in 0..n /\ 0 # n
        /\ \A k \in 1..n : k \in 0..n /\ k - 1 \in 0..n /\ k - 1 # n
    BY <1>5
  <1>10. /\ S[n] \in Seq(T) /\ R[n] \in Seq(T) /\ S[n - 1] \in Seq(T) /\ R[n - 1] \in Seq(T)
         /\ Len(S[n - 1]) \in Nat /\ Len(S[n]) \in Nat
    BY <1>3, <1>9
  <1> DEFINE s == S[n - 1]
  <1>11. tail = <<>> /\ whole = S[n] /\ other = O[n]
    <2>1. s \o gap \in Seq(T) /\ Len(s \o gap) = Len(s) + Len(gap)
      BY <1>10, ConcatProperties
    <2>2. Len(S[n]) = Len(s) + Len(gap) + Len(run)
      BY <1>8, <2>1, ConcatProperties
    <2>3. Len(whole) = Len(S[n]) + Len(tail)
      BY <1>4, <1>10, ConcatProperties
    <2>4. Len(whole) = Len(S[n])
      BY <1>8, <2>2 DEF n
    <2>5. tail = <<>>
      <3>1. Len(tail) \in Nat
        BY <1>4, LenProperties
      <3>2. Len(tail) = 0
        BY <1>5, <1>10, <2>3, <2>4, <3>1
      <3> QED BY <1>4, <3>2, EmptySeq
    <2>6. S[n] \o <<>> = S[n] /\ O[n] \o <<>> = O[n]
      BY <1>3, <1>9, BeginsItself
    <2> QED BY <1>4, <2>5, <2>6
  <1> DEFINE S1 == [S EXCEPT ![n] = whole \o b]
             R1 == [R EXCEPT ![n] = clear \o b]
  <1>12. clear \o b \in Seq(T) /\ whole \o b \in Seq(T) /\ <<>> \in Seq(T) /\ run \o b \in Seq(T)
    BY <1>2, ConcatProperties, EmptySeq
  <1>13. /\ S1 \in [0..n -> Seq(T)] /\ R1 \in [0..n -> Seq(T)]
         /\ \A k \in 0..n : k # n => S1[k] = S[k] /\ R1[k] = R[k]
         /\ S1[n] = whole \o b /\ R1[n] = clear \o b
    BY <1>4, <1>9, <1>12
  <1> HIDE DEF S1, R1
  <1>14. ASSUME NEW k \in 1..n PROVE Placed(T, longer[k], S1, R1, O, k)
    <2>1. k - 1 \in 0..n /\ k - 1 # n /\ S1[k - 1] = S[k - 1] /\ R1[k - 1] = R[k - 1]
      BY <1>9, <1>13
    <2>2. CASE k # n
      <3>1. S1[k] = S[k] /\ R1[k] = R[k] /\ longer[k] = ranges[k]
        BY <1>7, <1>9, <1>13, <2>2
      <3>2. Placed(T, ranges[k], S, R, O, k)
        BY <1>4
      <3> QED BY <2>1, <3>1, <3>2, Zenon DEF Placed
    <2>3. CASE k = n
      <3>1. whole \o b = (s \o gap) \o (run \o b)
        <4> DEFINE e == s \o gap
        <4>1. e \in Seq(T) /\ whole = e \o run
          BY <1>8, <1>10, <1>11, ConcatProperties
        <4> HIDE DEF e, s
        <4>2. (e \o run) \o b = e \o (run \o b)
          <5>1. e \in Seq(T)
            BY <4>1
          <5>2. Chain(Chain(e, run), b) = Chain(e, Chain(run, b))
            BY <5>1, Assoc
          <5> QED BY <5>2, Zenon DEF Chain
        <4> QED BY <4>1, <4>2 DEF e
      <3>2. clear \o b = R[n - 1] \o (run \o b)
        <4> DEFINE e == R[n - 1]
        <4>1. e \in Seq(T) /\ clear = e \o run
          BY <1>4, <1>8, <1>10
        <4> HIDE DEF e
        <4>2. (e \o run) \o b = e \o (run \o b)
          <5>1. e \in Seq(T)
            BY <4>1
          <5>2. Chain(Chain(e, run), b) = Chain(e, Chain(run, b))
            BY <5>1, Assoc
          <5> QED BY <5>2, Zenon DEF Chain
        <4> QED BY <4>1, <4>2 DEF e
      <3>3. Len(run \o b) = Len(run) + Len(b)
        BY ConcatProperties
      <3>4. longer[n] = range
        BY <1>5, <1>7
      <3>5. /\ S1[n] = (S1[n - 1] \o gap) \o (run \o b)
            /\ R1[n] = R1[n - 1] \o (run \o b)
            /\ O[n] = O[n - 1] \o gap
            /\ longer[n].offset = Len(S1[n - 1]) + Len(gap)
            /\ longer[n].size = Len(run \o b)
        BY <1>6, <1>8, <1>13, <2>1, <2>3, <3>1, <3>2, <3>3, <3>4, Zenon DEF s
      <3> QED BY <1>12, <2>3, <3>5, Zenon DEF Placed
    <2> QED BY <2>2, <2>3
  <1>15. ASSUME NEW k \in 0..n
         PROVE  /\ Begins(T, S1[k], whole \o b) /\ Begins(T, R1[k], clear \o b)
                /\ Begins(T, O[k], other)
    <2>1. CASE k # n
      <3>1. S1[k] = S[k] /\ R1[k] = R[k]
        BY <1>13, <2>1
      <3>2. Begins(T, S[k], whole \o b)
        BY <1>2, <1>3, <1>4, Grows, Zenon
      <3>3. Begins(T, R[k], clear \o b)
        BY <1>2, <1>3, <1>4, Grows, Zenon
      <3> QED BY <1>4, <3>1, <3>2, <3>3, Zenon
    <2>2. CASE k = n
      <3>1. Begins(T, whole \o b, whole \o b) /\ Begins(T, clear \o b, clear \o b)
        BY <1>12, BeginsItself, Zenon
      <3> QED BY <1>4, <1>9, <1>13, <2>2, <3>1, Zenon
    <2> QED BY <2>1, <2>2
  <1>17. IsLayout(T, longer, clear \o b, other, whole \o b, S1, R1, O, <<>>)
    <2>1. whole \o b = S1[n] \o <<>> /\ other = O[n] \o <<>> /\ clear \o b = R1[n]
      BY <1>2, <1>11, <1>12, <1>13, BeginsItself, Zenon
    <2>2. S1[0] = <<>> /\ R1[0] = <<>> /\ O[0] = <<>>
      BY <1>4, <1>9, <1>13, Zenon
    <2> QED BY <1>4, <1>7, <1>12, <1>13, <1>14, <1>15, <2>1, <2>2, Zenon DEF IsLayout
  <1>18. Layout(T, longer, clear \o b, other, whole \o b)
    BY <1>2, <1>7, <1>12, <1>17, Zenon DEF Layout
  <1> QED BY <1>16, <1>18

-----------------------------------------------------------------------------
(* process_frame.                                                          *)

Sealed(U) == U \union {<<"sealed", u>> : u \in U}
PieceOf(U) == [clear : BOOLEAN, bytes : Seq(U)]
Progress(U) == [index : Nat, clear : Seq(U), secret : Seq(U), ranges : Seq(Ranges)]

\* Sealing works byte by byte.
LEMMA SealParts ==
  ASSUME NEW U, NEW a \in Seq(U)
  PROVE  /\ Seal(a) \in Seq(Sealed(U)) /\ Len(Seal(a)) = Len(a)
         /\ Unseal(Seal(a)) = a
         /\ a \in Seq(Sealed(U))
         /\ \A i \in 1..Len(a) : Seal(a)[i] = <<"sealed", a[i]>>
  <1>1. ASSUME NEW x \in Seq(U)
        PROVE  /\ Seal(x) \in Seq(Sealed(U)) /\ Len(Seal(x)) = Len(x)
               /\ \A i \in 1..Len(x) : Seal(x)[i] = <<"sealed", x[i]>>
               /\ Len(x) \in Nat
    <2>1. Len(x) \in Nat /\ DOMAIN x = 1..Len(x)
      OBVIOUS
    <2>2. \A i \in 1..Len(x) : x[i] \in U
      BY ElementOfSeq
    <2>3. \A i \in 1..Len(x) : <<"sealed", x[i]>> \in Sealed(U)
      BY <2>2 DEF Sealed
    <2> DEFINE m == Len(x)
               T == Sealed(U)
    <2>4. Seal(x) = [i \in 1..m |-> <<"sealed", x[i]>>]
      BY <2>1 DEF Seal
    <2> HIDE DEF m, T
    <2>5. /\ Seal(x) \in Seq(T) /\ Len(Seal(x)) = m
          /\ \A i \in 1..m : Seal(x)[i] = <<"sealed", x[i]>>
      BY <2>1, <2>3, <2>4 DEF T, m
    <2> QED BY <2>1, <2>5 DEF m, T
  <1>2. Unseal(Seal(a)) = a
    <2> DEFINE y == Seal(a)
    <2>1. y \in Seq(Sealed(U)) /\ Len(y) = Len(a) /\ Len(a) \in Nat
          /\ \A i \in 1..Len(a) : y[i] = <<"sealed", a[i]>>
      BY <1>1
    <2> HIDE DEF y
    <2>2. DOMAIN y = 1..Len(a)
      BY <2>1
    <2>3. \A i \in 1..Len(a) : y[i][2] = a[i]
      BY <2>1
    <2>4. Unseal(y) = [i \in 1..Len(a) |-> a[i]]
      BY <2>2, <2>3 DEF Unseal
    <2>5. [i \in 1..Len(a) |-> a[i]] = a
      OBVIOUS
    <2> QED BY <2>4, <2>5 DEF y
  <1>4. a \in Seq(Sealed(U))
    <2>1. U \subseteq Sealed(U)
      BY DEF Sealed
    <2> HIDE DEF Sealed
    <2> QED BY <2>1
  <1> QED BY <1>1, <1>2, <1>4

LEMMA SealJoin ==
  ASSUME NEW U, NEW a \in Seq(U), NEW b \in Seq(U)
  PROVE  Seal(Chain(a, b)) = Chain(Seal(a), Seal(b))
  <1>0. ASSUME NEW v \in Seq(U)
        PROVE  /\ Seal(v) \in Seq(Sealed(U)) /\ Len(Seal(v)) = Len(v)
               /\ \A i \in 1..Len(v) : Seal(v)[i] = <<"sealed", v[i]>>
    BY SealParts
  <1> DEFINE c == a \o b
             x == Seal(a)
             y == Seal(b)
             z == Seal(c)
             T == Sealed(U)
             m == Len(a)
             n == Len(b)
  <1>1. c \in Seq(U) /\ Len(c) = m + n /\ m \in Nat /\ n \in Nat
    BY ConcatProperties, LenProperties
  <1>2. \A i \in 1..(m + n) : c[i] = IF i <= m THEN a[i] ELSE b[i - m]
    BY ConcatProperties
  <1> HIDE DEF c
  <1>3. /\ x \in Seq(T) /\ Len(x) = m /\ \A i \in 1..m : x[i] = <<"sealed", a[i]>>
        /\ y \in Seq(T) /\ Len(y) = n /\ \A i \in 1..n : y[i] = <<"sealed", b[i]>>
        /\ z \in Seq(T) /\ Len(z) = m + n /\ \A i \in 1..(m + n) : z[i] = <<"sealed", c[i]>>
    BY <1>0, <1>1
  <1> HIDE DEF x, y, z, T, m, n
  <1>4. /\ x \o y \in Seq(T) /\ Len(x \o y) = m + n
        /\ \A i \in 1..(m + n) : (x \o y)[i] = IF i <= m THEN x[i] ELSE y[i - m]
    BY <1>3, ConcatProperties
  <1>5. \A i \in 1..(m + n) : (i <= m /\ i \in 1..m) \/ (~(i <= m) /\ i - m \in 1..n)
    BY <1>1
  <1>6. \A i \in 1..(m + n) : z[i] = (x \o y)[i]
    <2> TAKE i \in 1..(m + n)
    <2>1. CASE i <= m
      <3>1. i \in 1..m
        BY <1>5, <2>1
      <3>2. z[i] = <<"sealed", a[i]>> /\ (x \o y)[i] = x[i] /\ x[i] = <<"sealed", a[i]>>
        BY <1>2, <1>3, <1>4, <2>1, <3>1, Zenon
      <3> QED BY <3>2, Zenon
    <2>2. CASE ~(i <= m)
      <3>1. i - m \in 1..n
        BY <1>5, <2>2
      <3>2. /\ z[i] = <<"sealed", b[i - m]>> /\ (x \o y)[i] = y[i - m]
            /\ y[i - m] = <<"sealed", b[i - m]>>
        BY <1>2, <1>3, <1>4, <2>2, <3>1, Zenon
      <3> QED BY <3>2, Zenon
    <2> QED BY <2>1, <2>2
  <1> DEFINE w == x \o y
  <1> HIDE DEF w
  <1>7. z = w
    BY <1>3, <1>4, <1>6, SeqEqual DEF w
  <1> QED BY <1>7, Zenon DEF c, x, y, z, w, Chain

\* The frame so far: its bytes, and those of the body that will be sent.
Framed(U, p, whole, body) ==
  /\ p \in Progress(U)
  /\ whole \in Seq(U) /\ p.index = Len(whole) /\ Len(body) = Len(whole)
  /\ Layout(Sealed(U), p.ranges, p.clear, p.secret, whole)
  /\ Layout(Sealed(U), p.ranges, p.clear, Seal(p.secret), body)

\* What AddPiece does to each field.
Joins(p) ==
  /\ p.ranges # <<>>
  /\ p.ranges[Len(p.ranges)].offset + p.ranges[Len(p.ranges)].size = p.index
Widened(ranges, n) == [ranges EXCEPT ![Len(ranges)].size = @ + n]
IsAdded(p, piece, q) ==
  /\ q.index = p.index + Len(piece.bytes)
  /\ ~piece.clear => /\ q.secret = p.secret \o piece.bytes /\ q.clear = p.clear
                     /\ q.ranges = p.ranges
  /\ piece.clear => q.secret = p.secret /\ q.clear = p.clear \o piece.bytes
  /\ piece.clear /\ Joins(p) => q.ranges = Widened(p.ranges, Len(piece.bytes))
  /\ piece.clear /\ ~Joins(p) =>
       q.ranges = Append(p.ranges, [offset |-> p.index, size |-> Len(piece.bytes)])
  /\ q = [index |-> q.index, clear |-> q.clear, secret |-> q.secret, ranges |-> q.ranges]

LEMMA AddPieceFields ==
  ASSUME NEW U, NEW p \in Progress(U), NEW piece \in PieceOf(U)
  PROVE  IsAdded(p, piece, AddPiece(p, piece))
  <1>1. p = [index |-> p.index, clear |-> p.clear, secret |-> p.secret, ranges |-> p.ranges]
    BY DEF Progress
  <1>2. CASE piece.clear
    <2> DEFINE n == Len(piece.bytes)
               last == p.ranges[Len(p.ranges)]
               joins == p.ranges # <<>> /\ last.offset + last.size = p.index
               more == IF joins THEN [p.ranges EXCEPT ![Len(p.ranges)].size = @ + n]
                       ELSE Append(p.ranges, [offset |-> p.index, size |-> n])
               clear == p.clear \o piece.bytes
               q == AddPiece(p, piece)
    <2>1. q = [p EXCEPT !.index = p.index + n, !.clear = clear, !.ranges = more]
      BY <1>2, Zenon DEF AddPiece
    <2>2. /\ joins => more = [p.ranges EXCEPT ![Len(p.ranges)].size = @ + n]
          /\ ~joins => more = Append(p.ranges, [offset |-> p.index, size |-> n])
      BY Zenon
    <2> HIDE DEF more, clear, q
    <2>3. /\ q.index = p.index + n /\ q.secret = p.secret /\ q.clear = clear /\ q.ranges = more
          /\ q = [index |-> q.index, clear |-> q.clear, secret |-> q.secret, ranges |-> q.ranges]
      BY <1>1, <2>1
    <2> QED BY <1>2, <2>2, <2>3, Zenon DEF clear, q, IsAdded, Joins, Widened
  <1>3. CASE ~piece.clear
    <2> DEFINE n == Len(piece.bytes)
               secret == p.secret \o piece.bytes
               q == AddPiece(p, piece)
    <2>1. q = [p EXCEPT !.index = p.index + n, !.secret = secret]
      BY <1>3, Zenon DEF AddPiece
    <2> HIDE DEF secret, q
    <2>2. /\ q.index = p.index + n /\ q.secret = secret /\ q.clear = p.clear
          /\ q.ranges = p.ranges
          /\ q = [index |-> q.index, clear |-> q.clear, secret |-> q.secret, ranges |-> q.ranges]
      BY <1>1, <2>1
    <2> QED BY <1>3, <2>2, Zenon DEF secret, q, IsAdded
  <1> QED BY <1>2, <1>3

\* AddPiece keeps the type of its state.
LEMMA AddPieceType ==
  ASSUME NEW U, NEW p \in Progress(U), NEW piece \in PieceOf(U)
  PROVE  AddPiece(p, piece) \in Progress(U)
  <1> DEFINE q == AddPiece(p, piece)
             b == piece.bytes
             n == Len(b)
             r == p.ranges
             last == r[Len(r)]
  <1>1. /\ p.index \in Nat /\ p.clear \in Seq(U) /\ p.secret \in Seq(U) /\ r \in Seq(Ranges)
        /\ b \in Seq(U) /\ piece.clear \in BOOLEAN
    BY DEF Progress, PieceOf
  <1>2. IsAdded(p, piece, q)
    BY AddPieceFields, Zenon
  <1> HIDE DEF q, b, r
  <1>3. n \in Nat /\ q.index \in Nat
    <2>1. n \in Nat /\ q.index = p.index + n
      BY <1>1, <1>2, LenProperties DEF IsAdded, b
    <2> QED BY <1>1, <2>1
  <1>4. q.secret \in Seq(U) /\ q.clear \in Seq(U)
    <2>1. p.secret \o b \in Seq(U) /\ p.clear \o b \in Seq(U)
      BY <1>1, ConcatProperties
    <2> QED BY <1>1, <1>2, <2>1, Zenon DEF IsAdded, b
  <1>5. q.ranges \in Seq(Ranges)
    <2>1. CASE ~piece.clear
      BY <1>1, <1>2, <2>1, Zenon DEF IsAdded, r
    <2>2. CASE piece.clear /\ ~Joins(p)
      <3>1. [offset |-> p.index, size |-> n] \in Ranges
        BY <1>1, <1>3 DEF Ranges
      <3>2. Append(r, [offset |-> p.index, size |-> n]) \in Seq(Ranges)
        BY <1>1, <3>1, AppendProperties
      <3> QED BY <1>2, <2>2, <3>2, Zenon DEF IsAdded, r, b
    <2>3. CASE piece.clear /\ Joins(p)
      <3>1. Len(r) \in 1..Len(r)
        <4>1. r # <<>>
          BY <2>3 DEF Joins, r
        <4> QED BY <1>1, <4>1, EmptySeq
      <3>2. last \in Ranges
        BY <1>1, <3>1, ElementOfSeq
      <3> HIDE DEF last, n
      <3>3. [last EXCEPT !.size = @ + n] \in Ranges
        BY <1>3, <3>2 DEF Ranges
      <3>4. [r EXCEPT ![Len(r)] = [last EXCEPT !.size = @ + n]] \in Seq(Ranges)
        BY <1>1, <3>1, <3>3, ExceptSeq, Zenon
      <3>5. Widened(r, n) = [r EXCEPT ![Len(r)] = [last EXCEPT !.size = @ + n]]
        BY DEF last, Widened
      <3>6. q.ranges = Widened(r, n)
        BY <1>2, <2>3, Zenon DEF IsAdded, r, n, b
      <3> QED BY <3>4, <3>5, <3>6, Zenon
    <2> QED BY <1>1, <2>1, <2>2, <2>3, Zenon
  <1>6. q \in Progress(U)
    <2> DEFINE i == q.index
               c == q.clear
               x == q.secret
               y == q.ranges
    <2>1. q = [index |-> i, clear |-> c, secret |-> x, ranges |-> y]
      BY <1>2, Zenon DEF IsAdded
    <2>2. i \in Nat /\ c \in Seq(U) /\ x \in Seq(U) /\ y \in Seq(Ranges)
      BY <1>3, <1>4, <1>5
    <2> HIDE DEF i, c, x, y
    <2> QED BY <2>1, <2>2 DEF Progress
  <1> QED BY <1>6 DEF q

\* AddPiece adds a piece to the frame.
LEMMA PieceAdded ==
  ASSUME NEW U, NEW p, NEW whole, NEW body, NEW piece \in PieceOf(U),
         Framed(U, p, whole, body)
  PROVE  \E more : Framed(U, AddPiece(p, piece), whole \o piece.bytes, more)
  <1> DEFINE q == AddPiece(p, piece)
             b == piece.bytes
             n == Len(b)
             r == p.ranges
             c == p.clear
             s == p.secret
             T == Sealed(U)
  <1>1. /\ p \in Progress(U) /\ whole \in Seq(U) /\ p.index = Len(whole) /\ Len(body) = Len(whole)
        /\ Layout(T, r, c, s, whole)
        /\ Layout(T, r, c, Seal(s), body)
    BY Zenon DEF Framed
  <1>2. s \in Seq(U) /\ b \in Seq(U) /\ piece.clear \in BOOLEAN
    BY <1>1 DEF Progress, PieceOf
  <1>3. IsAdded(p, piece, q)
    BY <1>1, AddPieceFields, Zenon
  <1>4. q \in Progress(U)
    BY <1>1, AddPieceType, Zenon
  <1>5. /\ b \in Seq(T) /\ Seal(b) \in Seq(T) /\ Len(Seal(b)) = n
        /\ Seal(s \o b) = Seal(s) \o Seal(b)
    <2> HIDE DEF s, b
    <2>1. Seal(s \o b) = Seal(s) \o Seal(b)
      <3>1. s \in Seq(U) /\ b \in Seq(U)
        BY <1>2
      <3>2. Seal(Chain(s, b)) = Chain(Seal(s), Seal(b))
        BY <3>1, SealJoin, Zenon
      <3> QED BY <3>2, Zenon DEF Chain
    <2>2. b \in Seq(T) /\ Seal(b) \in Seq(T) /\ Len(Seal(b)) = n
      BY <1>2, SealParts, Zenon
    <2> QED BY <2>1, <2>2, Zenon
  <1>6. body \in Seq(T) /\ whole \in Seq(T)
    BY <1>1, Zenon DEF Layout
  <1>16. q.index = p.index + n
    BY <1>3, Zenon DEF IsAdded
  <1> HIDE DEF q, b, r, c, s, T
  <1>7. whole \o b \in Seq(U) /\ Len(whole \o b) = p.index + n
    BY <1>1, <1>2, ConcatProperties
  <1>8. CASE ~piece.clear
    <2>1. Layout(T, r, c, s \o b, whole \o b)
      BY <1>1, <1>5, SecretAdded, Zenon
    <2>2. Layout(T, r, c, Seal(s) \o Seal(b), body \o Seal(b))
      BY <1>1, <1>5, SecretAdded, Zenon
    <2>3. Len(body \o Seal(b)) = Len(whole \o b)
      <3>1. Len(body \o Seal(b)) = Len(body) + Len(Seal(b))
        BY <1>5, <1>6, ConcatProperties
      <3> QED BY <1>1, <1>5, <1>7, <3>1
    <2>4. q.ranges = r /\ q.clear = c /\ q.secret = s \o b
      BY <1>3, <1>8, Zenon DEF IsAdded, r, c, s, b
    <2>5. /\ Layout(T, q.ranges, q.clear, q.secret, whole \o b)
          /\ Layout(T, q.ranges, q.clear, Seal(q.secret), body \o Seal(b))
      BY <1>5, <2>1, <2>2, <2>4, Zenon
    <2>6. Framed(U, q, whole \o b, body \o Seal(b))
      BY <1>4, <1>7, <1>16, <2>3, <2>5, Zenon DEF Framed, T
    <2> QED BY <2>6, Zenon DEF q, b
  <1>9. CASE piece.clear
    <2>1. /\ Layout(T, q.ranges, c \o b, s, whole \o b)
          /\ Layout(T, q.ranges, c \o b, Seal(s), body \o b)
      <3>1. CASE Joins(p)
        <4>1. r # <<>> /\ r[Len(r)].offset + r[Len(r)].size = Len(whole)
          BY <1>1, <3>1, Zenon DEF Joins, r
        <4>2. r[Len(r)].offset + r[Len(r)].size = Len(body)
          BY <1>1, <4>1, Zenon
        <4>3. Layout(T, Widened(r, n), c \o b, s, whole \o b)
          BY <1>1, <1>5, <4>1, RangeJoined, Zenon DEF Widened
        <4>4. Layout(T, Widened(r, n), c \o b, Seal(s), body \o b)
          BY <1>1, <1>5, <4>1, <4>2, RangeJoined, Zenon DEF Widened
        <4>5. q.ranges = Widened(r, n)
          BY <1>3, <1>9, <3>1, Zenon DEF IsAdded, r, b
        <4> QED BY <4>3, <4>4, <4>5, Zenon
      <3>2. CASE ~Joins(p)
        <4>1. Layout(T, Append(r, [offset |-> Len(whole), size |-> n]), c \o b, s, whole \o b)
          BY <1>1, <1>5, RangeAdded, Zenon
        <4>2. Layout(T, Append(r, [offset |-> Len(body), size |-> n]), c \o b, Seal(s), body \o b)
          BY <1>1, <1>5, RangeAdded, Zenon
        <4>3. q.ranges = Append(r, [offset |-> p.index, size |-> n])
          BY <1>3, <1>9, <3>2, Zenon DEF IsAdded, r, b
        <4> QED BY <1>1, <4>1, <4>2, <4>3, Zenon
      <3> QED BY <3>1, <3>2
    <2>2. Len(body \o b) = Len(whole \o b)
      <3>1. Len(body \o b) = Len(body) + n
        BY <1>5, <1>6, ConcatProperties
      <3> QED BY <1>1, <1>7, <3>1
    <2>3. q.clear = c \o b /\ q.secret = s
      BY <1>3, <1>9, Zenon DEF IsAdded, c, s, b
    <2>4. Framed(U, q, whole \o b, body \o b)
      BY <1>4, <1>7, <1>16, <2>1, <2>2, <2>3, Zenon DEF Framed, T
    <2> QED BY <2>4, Zenon DEF q, b
  <1> QED BY <1>2, <1>8, <1>9

\* What process_frame makes of a frame: the frame by its ranges, in clear and
\* with its other bytes sealed.
LEMMA FrameProcessed ==
  ASSUME NEW U, NEW frame, Pieces(frame) \in Seq(PieceOf(U))
  PROVE  \E body : Framed(U, process_frame(frame), Sanitised(frame), body)
  <1> DEFINE pieces == Pieces(frame)
             n == Len(pieces)
             parts == [k \in DOMAIN pieces |-> pieces[k].bytes]
             S == Progress(U)
             h == [p \in S \X (1..n) |-> AddPiece(p[1], pieces[p[2]])]
             Body(f) == [k \in 0..n |-> IF k = 0 THEN reset ELSE AddPiece(f[k - 1], pieces[k])]
             added == CHOOSE f : f = Body(f)
  <1>1. /\ n \in Nat /\ DOMAIN pieces = 1..n /\ n \in 0..n /\ 0 \in 0..n
        /\ \A k \in 1..n : pieces[k] \in PieceOf(U)
        /\ \A k \in 1..n : k \in 0..n /\ k - 1 \in 0..n /\ k # 0
    BY ElementOfSeq
  <1>2. process_frame(frame) = added[n]
    BY DEF process_frame
  <1>3. Sanitised(frame) = FlattenSeq(parts)
    BY DEF Sanitised
  <1>4. \A k \in 1..n : pieces[k].bytes \in Seq(U)
    <2>1. \A x \in PieceOf(U) : x.bytes \in Seq(U)
      BY DEF PieceOf
    <2> QED BY <1>1, <2>1
  <1> HIDE DEF n, pieces
  <1>5. parts \in Seq(Seq(U)) /\ Len(parts) = n /\ \A k \in 1..n : parts[k] = pieces[k].bytes
    <2> DEFINE V == Seq(U)
    <2>1. parts = [k \in 1..n |-> pieces[k].bytes]
      BY <1>1
    <2>2. \A k \in 1..n : pieces[k].bytes \in V
      BY <1>4
    <2> HIDE DEF V
    <2>3. parts \in Seq(V) /\ Len(parts) = n /\ \A k \in 1..n : parts[k] = pieces[k].bytes
      BY <1>1, <2>1, <2>2
    <2> QED BY <2>3 DEF V
  <1> HIDE DEF parts
  <1>6. PICK W : IsJoined(U, parts, W)
    BY <1>5, Joined
  <1>7. /\ W[0] = <<>> /\ \A k \in 1..n : W[k] = W[k - 1] \o pieces[k].bytes
        /\ Sanitised(frame) = W[n]
    BY <1>3, <1>5, <1>6, Zenon DEF IsJoined
  <1>8. reset \in S
    BY DEF Progress, reset
  <1>9. h \in [S \X (1..n) -> S]
    <2>1. \A s \in S, k \in 1..n : AddPiece(s, pieces[k]) \in S
      BY <1>1, AddPieceType
    <2> HIDE DEF S
    <2> QED BY <2>1
  <1>10. \A s \in S, k \in 1..n : h[<<s, k>>] = AddPiece(s, pieces[k])
    OBVIOUS
  <1> HIDE DEF S, h
  <1> DEFINE f == RunOf(n, S, reset, h)
  <1>11. f \in [0..n -> S] /\ f[0] = reset /\ \A k \in 1..n : f[k] = h[<<f[k - 1], k>>]
    <2>1. IsRun(f, n, S, reset, h)
      BY <1>1, <1>8, <1>9, Loop, Zenon
    <2> QED BY <2>1 DEF IsRun
  <1> HIDE DEF f
  <1>12. \A k \in 1..n : f[k] = AddPiece(f[k - 1], pieces[k])
    <2> TAKE k \in 1..n
    <2>1. f[k - 1] \in S
      BY <1>1, <1>11
    <2> QED BY <1>10, <1>11, <2>1
  <1>13. f = Body(f)
    <2>1. f = [k \in 0..n |-> f[k]]
      BY <1>11
    <2>2. \A k \in 0..n : f[k] = IF k = 0 THEN reset ELSE AddPiece(f[k - 1], pieces[k])
      <3>1. \A k \in 0..n : k = 0 \/ k \in 1..n
        BY <1>1
      <3> QED BY <1>11, <1>12, <3>1
    <2> QED BY <2>1, <2>2
  <1>14. added = Body(added)
    <2> HIDE DEF Body
    <2> QED BY <1>13, Zenon
  <1> HIDE DEF added
  <1>15. added[0] = reset /\ \A k \in 1..n : added[k] = AddPiece(added[k - 1], pieces[k])
    BY <1>1, <1>14
  <1> DEFINE P == {k \in 0..n : \E body : Framed(U, added[k], W[k], body)}
  <1>16. 0 \in P
    <2> DEFINE T == Sealed(U)
               e == <<>>
    <2>1. e \in Seq(T) /\ e \in Seq(U) /\ e \in Seq(Ranges) /\ Len(e) = 0
          /\ Seal(e) = e /\ e \o e = e
      <3>1. Seal(<<>>) = <<>>
        BY DEF Seal
      <3> QED BY <3>1
    <2>2. /\ reset.index = 0 /\ reset.clear = e /\ reset.secret = e /\ reset.ranges = e
      BY DEF reset
    <2>3. Layout(T, e, e, e, e)
      <3> DEFINE E == [k \in 0..0 |-> e]
      <3>1. E \in [0..0 -> Seq(T)] /\ E[0] = e /\ \A k \in 0..0 : E[k] = e
        BY <2>1
      <3>2. Begins(T, e, e)
        BY <2>1, BeginsItself
      <3>3. \A k \in 1..0 : FALSE
        OBVIOUS
      <3> HIDE DEF E, T, e
      <3>4. IsLayout(T, e, e, e, e, E, E, E, e)
        BY <2>1, <3>1, <3>2, <3>3, Zenon DEF IsLayout, e
      <3> QED BY <2>1, <3>4, Zenon DEF Layout
    <2> HIDE DEF T, e
    <2>4. Framed(U, reset, e, e)
      BY <1>8, <2>1, <2>2, <2>3, Zenon DEF Framed, T, S
    <2>5. \E body : Framed(U, added[0], W[0], body)
      BY <1>7, <1>15, <2>4, Zenon DEF e
    <2> QED BY <1>1, <2>5
  <1>17. \A k \in 0..(n - 1) : k \in P => k + 1 \in P
    <2> TAKE k \in 0..(n - 1)
    <2> HAVE k \in P
    <2>1. k + 1 \in 1..n /\ (k + 1) - 1 = k /\ k + 1 \in 0..n
      BY <1>1
    <2>2. PICK body : Framed(U, added[k], W[k], body)
      OBVIOUS
    <2>3. pieces[k + 1] \in PieceOf(U)
      BY <1>1, <2>1
    <2>4. \E more : Framed(U, AddPiece(added[k], pieces[k + 1]), W[k] \o pieces[k + 1].bytes, more)
      BY <2>2, <2>3, PieceAdded, Zenon
    <2>5. added[k + 1] = AddPiece(added[k], pieces[k + 1]) /\ W[k + 1] = W[k] \o pieces[k + 1].bytes
      BY <1>7, <1>15, <2>1
    <2>6. \E more : Framed(U, added[k + 1], W[k + 1], more)
      BY <2>4, <2>5, Zenon
    <2> QED BY <2>1, <2>6
  <1>18. n \in P
    <2> HIDE DEF P
    <2>1. 0..n \subseteq P
      BY <1>1, <1>16, <1>17, Induction
    <2> QED BY <1>1, <2>1
  <1> QED BY <1>2, <1>7, <1>18, Zenon

\* The sequences joined so far begin what is joined in the end.
LEMMA JoinedBegins ==
  ASSUME NEW T, NEW seqs \in Seq(Seq(T)), NEW W, IsJoined(T, seqs, W)
  PROVE  \A k \in 0..Len(seqs) : Begins(T, W[k], W[Len(seqs)])
  <1> DEFINE n == Len(seqs)
             P == {j \in 0..n : Begins(T, W[n - j], W[n])}
  <1>1. n \in Nat /\ \A k \in 1..n : seqs[k] \in Seq(T)
    BY ElementOfSeq
  <1>2. W \in [0..n -> Seq(T)] /\ \A k \in 1..n : W[k] = W[k - 1] \o seqs[k]
    BY DEF IsJoined
  <1> HIDE DEF n
  <1>3. 0 \in P
    <2>1. n - 0 = n /\ n \in 0..n /\ 0 \in 0..n
      BY <1>1
    <2>2. W[n] \in Seq(T)
      BY <1>2, <2>1
    <2>3. Begins(T, W[n], W[n])
      BY <2>2, BeginsItself
    <2> QED BY <2>1, <2>3
  <1>4. \A j \in 0..(n - 1) : j \in P => j + 1 \in P
    <2> TAKE j \in 0..(n - 1)
    <2> HAVE j \in P
    <2> DEFINE k == n - j
    <2>1. k \in 1..n /\ k \in 0..n /\ k - 1 \in 0..n /\ n - (j + 1) = k - 1 /\ j + 1 \in 0..n
      BY <1>1
    <2> HIDE DEF k
    <2> DEFINE s == W[k - 1]
               a == seqs[k]
    <2>2. s \in Seq(T) /\ a \in Seq(T) /\ W[k] = s \o a
      BY <1>1, <1>2, <2>1
    <2>3. Begins(T, W[k], W[n])
      BY DEF k
    <2> HIDE DEF s, a
    <2>4. PICK rest \in Seq(T) : W[n] = (s \o a) \o rest
      BY <2>2, <2>3 DEF Begins
    <2>5. W[n] = s \o (a \o rest)
      BY <2>2, <2>4, ConcatAssociative
    <2>6. a \o rest \in Seq(T)
      BY <2>2, ConcatProperties
    <2>7. Begins(T, s, W[n])
      BY <2>5, <2>6, Zenon DEF Begins
    <2> QED BY <2>1, <2>7 DEF s
  <1>5. 0..n \subseteq P
    <2> HIDE DEF P
    <2> QED BY <1>1, <1>3, <1>4, Induction
  <1>6. \A k \in 0..n : n - k \in 0..n /\ n - (n - k) = k
    BY <1>1
  <1>7. \A k \in 0..n : Begins(T, W[k], W[n])
    <2> TAKE k \in 0..n
    <2>1. n - k \in P
      BY <1>5, <1>6
    <2>2. Begins(T, W[n - (n - k)], W[n])
      BY <2>1
    <2> QED BY <1>6, <2>2
  <1> QED BY <1>7 DEF n

\* The bytes of a range.
LEMMA PairParts ==
  ASSUME NEW range \in Ranges
  PROVE  /\ write_leb128(range.offset) \in Seq(Octet) /\ write_leb128(range.size) \in Seq(Octet)
         /\ Leb128Pair(range) \in Seq(Octet) /\ Len(Leb128Pair(range)) >= 1
  <1> DEFINE a == write_leb128(range.offset)
             b == write_leb128(range.size)
  <1>1. range.offset \in Nat /\ range.size \in Nat
    BY DEF Ranges
  <1>2. a \in Seq(Octet) /\ Len(a) >= 1 /\ b \in Seq(Octet) /\ Len(b) >= 1
    BY <1>1, Leb128Parts
  <1> HIDE DEF a, b
  <1>3. a \o b \in Seq(Octet) /\ Len(a \o b) = Len(a) + Len(b) /\ Len(a) \in Nat /\ Len(b) \in Nat
    BY <1>2, ConcatProperties, LenProperties
  <1>4. Leb128Pair(range) = a \o b
    BY DEF Leb128Pair, a, b
  <1>5. Len(a \o b) >= 1
    BY <1>2, <1>3
  <1> QED BY <1>2, <1>3, <1>4, <1>5 DEF a, b

\* One range is read back, and what follows it is left.
LEMMA PairRead ==
  ASSUME NEW range \in Ranges, NEW x \in Seq(Octet), NEW done, NEW y, y = Leb128Pair(range) \o x
  PROVE  ReadRange([ok |-> TRUE, rest |-> y, ranges |-> done])
           = [ok |-> TRUE, rest |-> x, ranges |-> Append(done, range)]
  <1> DEFINE a == write_leb128(range.offset)
             b == write_leb128(range.size)
             bx == b \o x
             s == [ok |-> TRUE, rest |-> y, ranges |-> done]
  <1>1. range.offset \in Nat /\ range.size \in Nat
        /\ range = [offset |-> range.offset, size |-> range.size]
    BY DEF Ranges
  <1>2. a \in Seq(Octet) /\ b \in Seq(Octet) /\ Leb128Pair(range) \in Seq(Octet)
        /\ Len(Leb128Pair(range)) >= 1
    BY PairParts
  <1>3. y # <<>>
    <2> DEFINE p == Leb128Pair(range)
    <2>1. p \in Seq(Octet) /\ Len(p) >= 1 /\ y = p \o x
      BY <1>2
    <2> HIDE DEF p
    <2>2. Len(p \o x) = Len(p) + Len(x) /\ Len(p) \in Nat /\ Len(x) \in Nat
      BY <2>1, ConcatProperties, LenProperties
    <2>3. Len(p \o x) # 0 /\ Len(<<>>) = 0
      BY <2>1, <2>2
    <2> QED BY <2>1, <2>3
  <1>4. bx \in Seq(Octet)
    BY <1>2, ConcatProperties
  <1>5. y = a \o bx
    <2>1. y = (a \o b) \o x
      BY DEF Leb128Pair
    <2> HIDE DEF a, b
    <2>2. a \in Seq(Octet) /\ b \in Seq(Octet)
      BY <1>2
    <2>3. Chain(Chain(a, b), x) = Chain(a, Chain(b, x))
      BY <2>2, Assoc
    <2> QED BY <2>1, <2>3, Zenon DEF Chain
  <1>6. read_leb128(bx) = [ok |-> TRUE, value |-> range.size, rest |-> x]
    BY <1>1, Leb128ReadsBack
  <1> HIDE DEF bx
  <1>7. read_leb128(y) = [ok |-> TRUE, value |-> range.offset, rest |-> bx]
    BY <1>1, <1>4, <1>5, Leb128ReadsBack
  <1>8. s.ok = TRUE /\ s.rest = y /\ s.ranges = done
    OBVIOUS
  <1> HIDE DEF s
  <1>9. ReadRange(s) = [ok |-> TRUE, rest |-> x,
                        ranges |-> Append(done, [offset |-> range.offset, size |-> range.size])]
    <2> DEFINE offset == read_leb128(s.rest)
               size == read_leb128(offset.rest)
    <2>1. offset.ok = TRUE /\ offset.value = range.offset /\ offset.rest = bx
      BY <1>7, <1>8
    <2>2. size.ok = TRUE /\ size.value = range.size /\ size.rest = x
      BY <1>6, <2>1
    <2>3. ReadRange(s) =
            IF s.rest = <<>> \/ ~s.ok THEN s
            ELSE IF ~offset.ok \/ ~size.ok THEN [s EXCEPT !.ok = FALSE]
            ELSE [ok |-> TRUE, rest |-> size.rest,
                  ranges |-> Append(s.ranges, [offset |-> offset.value, size |-> size.value])]
      BY DEF ReadRange
    <2> HIDE DEF offset, size
    <2> QED BY <1>3, <1>8, <2>1, <2>2, <2>3
  <1> QED BY <1>1, <1>9 DEF s
RangeBytes(ranges) == FlattenSeq([k \in DOMAIN ranges |-> Leb128Pair(ranges[k])])

\* The bytes of the ranges, one range after the other: what is left of them
\* after every range.
IsTail(bytes, ranges, X) ==
  /\ bytes \in Seq(Octet) /\ Len(ranges) <= Len(bytes)
  /\ X[0] = bytes /\ X[Len(ranges)] = <<>>
  /\ \A k \in 0..Len(ranges) : X[k] \in Seq(Octet)
  /\ \A k \in 1..Len(ranges) : X[k - 1] = Leb128Pair(ranges[k]) \o X[k]

LEMMA RangeTails ==
  ASSUME NEW ranges \in Seq(Ranges)
  PROVE  \E X : IsTail(RangeBytes(ranges), ranges, X)
  <1> DEFINE n == Len(ranges)
             T == Octet
             parts == [k \in DOMAIN ranges |-> Leb128Pair(ranges[k])]
             bytes == FlattenSeq(parts)
  <1>1. /\ n \in Nat /\ DOMAIN ranges = 1..n /\ n \in 0..n /\ 0 \in 0..n
        /\ \A k \in 1..n : k \in 0..n /\ k - 1 \in 0..n
        /\ \A k \in 1..n : ranges[k] \in Ranges
    BY ElementOfSeq
  <1> HIDE DEF n, T
  <1>2. \A k \in 1..n : Leb128Pair(ranges[k]) \in Seq(T) /\ Len(Leb128Pair(ranges[k])) >= 1
    BY <1>1, PairParts DEF T
  <1>3. /\ parts \in Seq(Seq(T)) /\ Len(parts) = n
        /\ \A k \in 1..n : parts[k] = Leb128Pair(ranges[k])
    <2> DEFINE V == Seq(T)
    <2>1. parts = [k \in 1..n |-> Leb128Pair(ranges[k])]
      BY <1>1
    <2>2. \A k \in 1..n : Leb128Pair(ranges[k]) \in V
      BY <1>2
    <2> HIDE DEF V
    <2>3. parts \in Seq(V) /\ Len(parts) = n /\ \A k \in 1..n : parts[k] = Leb128Pair(ranges[k])
      BY <1>1, <2>1, <2>2
    <2> QED BY <2>3 DEF V
  <1>4. RangeBytes(ranges) = bytes
    BY DEF RangeBytes
  <1> HIDE DEF parts
  <1>5. PICK W : IsJoined(T, parts, W)
    BY <1>3, Joined
  <1>6. /\ W \in [0..n -> Seq(T)] /\ W[0] = <<>> /\ bytes = W[n]
        /\ \A k \in 1..n : W[k] = W[k - 1] \o Leb128Pair(ranges[k])
    BY <1>3, <1>5, Zenon DEF IsJoined
  <1>7. \A k \in 0..n : Begins(T, W[k], bytes)
    BY <1>3, <1>5, <1>6, JoinedBegins, Zenon
  <1> HIDE DEF bytes
  <1>8. bytes \in Seq(T) /\ \A k \in 0..n : W[k] \in Seq(T)
    BY <1>1, <1>6
  <1> DEFINE X == [k \in 0..n |-> SubSeq(bytes, Len(W[k]) + 1, Len(bytes))]
  <1>9. ASSUME NEW k \in 0..n, NEW rest \in Seq(T), bytes = W[k] \o rest PROVE X[k] = rest
    <2>1. X[k] = SubSeq(bytes, Len(W[k]) + 1, Len(bytes))
      OBVIOUS
    <2> HIDE DEF X
    <2>2. W[k] \in Seq(T)
      BY <1>8
    <2>3. SubSeq(W[k] \o rest, Len(W[k]) + 1, Len(W[k] \o rest)) = rest
      BY <2>2, Halves
    <2> QED BY <1>9, <2>1, <2>3
  <1> HIDE DEF X
  <1>10. \A k \in 0..n : X[k] \in Seq(T) /\ bytes = W[k] \o X[k]
    <2> TAKE k \in 0..n
    <2>1. PICK rest \in Seq(T) : bytes = W[k] \o rest
      BY <1>7, Zenon DEF Begins
    <2>2. X[k] = rest
      BY <1>9, <2>1
    <2> QED BY <2>1, <2>2
  <1>11. X[0] = bytes
    <2>1. bytes = <<>> \o bytes
      BY <1>8, ConcatEmptySeq
    <2> QED BY <1>1, <1>6, <1>8, <1>9, <2>1
  <1>12. X[n] = <<>>
    <2>1. W[n] = W[n] \o <<>> /\ <<>> \in Seq(T)
      BY <1>1, <1>8, ConcatEmptySeq, EmptySeq
    <2> QED BY <1>1, <1>6, <1>9, <2>1
  <1>13. ASSUME NEW k \in 1..n PROVE X[k - 1] = Leb128Pair(ranges[k]) \o X[k]
    <2> DEFINE w == W[k - 1]
               p == Leb128Pair(ranges[k])
               x == X[k]
    <2>1. w \in Seq(T) /\ p \in Seq(T) /\ x \in Seq(T) /\ k - 1 \in 0..n
      BY <1>1, <1>2, <1>8, <1>10
    <2>2. bytes = (w \o p) \o x
      BY <1>1, <1>6, <1>10
    <2> HIDE DEF w, p, x
    <2>3. bytes = w \o (p \o x)
      <3>1. Chain(Chain(w, p), x) = Chain(w, Chain(p, x))
        BY <2>1, Assoc
      <3> QED BY <2>2, <3>1, Zenon DEF Chain
    <2>4. p \o x \in Seq(T)
      BY <2>1, ConcatProperties
    <2> QED BY <1>9, <2>1, <2>3, <2>4 DEF w, p, x
  <1>14. n <= Len(bytes)
    <2> DEFINE P == {k \in 0..n : Len(W[k]) >= k}
    <2>1. 0 \in P
      BY <1>1, <1>6
    <2>2. \A k \in 0..(n - 1) : k \in P => k + 1 \in P
      <3> TAKE k \in 0..(n - 1)
      <3> HAVE k \in P
      <3> DEFINE w == W[k]
                 p == Leb128Pair(ranges[k + 1])
      <3>1. k + 1 \in 1..n /\ k + 1 \in 0..n /\ (k + 1) - 1 = k /\ k \in 0..n /\ k \in Nat
        BY <1>1
      <3>2. w \in Seq(T) /\ p \in Seq(T) /\ Len(p) >= 1 /\ W[k + 1] = w \o p /\ Len(w) >= k
        BY <1>2, <1>6, <1>8, <3>1
      <3> HIDE DEF w, p
      <3>3. Len(w \o p) = Len(w) + Len(p) /\ Len(w) \in Nat /\ Len(p) \in Nat
        BY <3>2, ConcatProperties, LenProperties
      <3>4. Len(W[k + 1]) >= k + 1
        BY <3>1, <3>2, <3>3
      <3> QED BY <3>1, <3>4
    <2> HIDE DEF P
    <2>3. 0..n \subseteq P
      BY <1>1, <2>1, <2>2, Induction
    <2>4. Len(W[n]) >= n
      BY <1>1, <2>3 DEF P
    <2>5. Len(W[n]) \in Nat
      BY <1>1, <1>8, LenProperties
    <2> QED BY <1>1, <1>6, <2>4, <2>5
  <1>15. IsTail(bytes, ranges, X)
    BY <1>8, <1>10, <1>11, <1>12, <1>13, <1>14, Zenon DEF IsTail, n, T
  <1> QED BY <1>4, <1>15, Zenon
\* Ranges that were written in full are read back, with nothing left.
LEMMA RangesRead ==
  ASSUME NEW ranges \in Seq(Ranges)
  PROVE  /\ RangeBytes(ranges) \in Seq(Octet)
         /\ deserialize_unencrypted_ranges(RangeBytes(ranges))
              = [ok |-> TRUE, rest |-> <<>>, ranges |-> ranges]
  <1>1. PICK X : IsTail(RangeBytes(ranges), ranges, X)
    BY RangeTails
  <1> DEFINE bytes == RangeBytes(ranges)
             n == Len(ranges)
             m == Len(bytes)
             Done(k) == [i \in 1..k |-> ranges[i]]
             at(k) == [ok |-> TRUE, rest |-> X[k], ranges |-> Done(k)]
             f == [k \in 0..m |-> IF k <= n THEN at(k) ELSE at(n)]
             start == [ok |-> TRUE, rest |-> bytes, ranges |-> <<>>]
             Body(c) == [k \in 0..m |-> IF k = 0 THEN start ELSE ReadRange(c[k - 1])]
             read == CHOOSE c : c = Body(c)
  <1>2. n \in Nat /\ \A k \in 1..n : ranges[k] \in Ranges
    BY ElementOfSeq
  <1>3. /\ bytes \in Seq(Octet) /\ n <= m /\ X[0] = bytes /\ X[n] = <<>>
        /\ \A k \in 0..n : X[k] \in Seq(Octet)
        /\ \A k \in 1..n : X[k - 1] = Leb128Pair(ranges[k]) \o X[k]
    BY <1>1, Zenon DEF IsTail
  <1>4. m \in Nat /\ 0 \in 0..m /\ m \in 0..m /\ \A k \in 1..m : k \in 0..m /\ k - 1 \in 0..m /\ k # 0
    BY <1>3, LenProperties
  <1>5. Done(n) = ranges /\ Done(0) = <<>>
    OBVIOUS
  <1>6. ASSUME NEW k \in 1..n PROVE Append(Done(k - 1), ranges[k]) = Done(k)
    <2> HIDE DEF n
    <2>1. k \in Nat /\ k - 1 \in Nat /\ (k - 1) + 1 = k /\ \A i \in 1..k : i \in 1..n
      BY <1>2
    <2>2. Done(k - 1) \in Seq(Ranges) /\ Len(Done(k - 1)) = k - 1
      <3>1. \A i \in 1..(k - 1) : ranges[i] \in Ranges
        BY <1>2, <2>1
      <3> QED BY <2>1, <3>1
    <2> QED BY <1>2, <2>1, <2>2
  <1>7. deserialize_unencrypted_ranges(bytes) = read[m]
    BY DEF deserialize_unencrypted_ranges
  <1> HIDE DEF n, m, Done, bytes
  <1>8. f[0] = start
    <2>1. at(0) = start
      BY <1>3, <1>5
    <2> HIDE DEF at, start
    <2> QED BY <1>2, <1>4, <2>1
  <1>9. ASSUME NEW k \in 1..n PROVE at(k) = ReadRange(at(k - 1))
    <2>1. ranges[k] \in Ranges /\ X[k] \in Seq(Octet) /\ X[k - 1] = Leb128Pair(ranges[k]) \o X[k]
      <3>1. k \in 0..n
        BY <1>2
      <3> QED BY <1>2, <1>3, <3>1
    <2>2. ReadRange(at(k - 1)) = [ok |-> TRUE, rest |-> X[k], ranges |-> Append(Done(k - 1), ranges[k])]
      BY <2>1, PairRead
    <2> QED BY <1>6, <2>2
  <1>10. ReadRange(at(n)) = at(n)
    <2>1. at(n).rest = <<>>
      BY <1>3
    <2> HIDE DEF at
    <2> QED BY <2>1 DEF ReadRange
  <1>11. ASSUME NEW k \in 1..m PROVE f[k] = ReadRange(f[k - 1])
    <2> HIDE DEF at
    <2>1. CASE k <= n
      <3>1. k \in 1..n /\ k - 1 <= n
        BY <1>2, <1>4, <2>1
      <3>2. f[k] = at(k) /\ f[k - 1] = at(k - 1)
        BY <1>4, <2>1, <3>1
      <3> QED BY <1>9, <3>1, <3>2
    <2>2. CASE ~(k <= n)
      <3>1. f[k] = at(n)
        BY <1>4, <2>2
      <3>2. f[k - 1] = at(n)
        <4>1. k - 1 <= n => k - 1 = n
          BY <1>2, <1>4, <2>2
        <4> QED BY <1>4, <4>1
      <3> QED BY <1>10, <3>1, <3>2
    <2> QED BY <2>1, <2>2
  <1>12. f[m] = at(n)
    <2> HIDE DEF at
    <2>1. m <= n => m = n
      BY <1>2, <1>3, <1>4
    <2> QED BY <1>4, <2>1
  <1>13. f = Body(f)
    <2>1. f = [k \in 0..m |-> f[k]]
      OBVIOUS
    <2>2. \A k \in 0..m : f[k] = IF k = 0 THEN start ELSE ReadRange(f[k - 1])
      <3>1. \A k \in 0..m : k = 0 \/ k \in 1..m
        BY <1>4
      <3> HIDE DEF f, start
      <3> QED BY <1>8, <1>11, <3>1
    <2> HIDE DEF f, start
    <2> QED BY <2>1, <2>2
  <1> HIDE DEF f
  <1>14. read = Body(read)
    <2> HIDE DEF Body
    <2> QED BY <1>13, Zenon
  <1> HIDE DEF read
  <1>15. \A k \in 0..m : read[k] = f[k]
    <2>1. read[0] = f[0]
      BY <1>4, <1>8, <1>14
    <2>2. \A k \in 1..m : read[k - 1] = f[k - 1] => read[k] = f[k]
      <3> TAKE k \in 1..m
      <3> HAVE read[k - 1] = f[k - 1]
      <3>1. read[k] = ReadRange(read[k - 1])
        BY <1>4, <1>14
      <3> QED BY <1>11, <3>1
    <2>3. m \in Nat
      BY <1>4
    <2> QED BY <2>1, <2>2, <2>3, Agree, Zenon
  <1>16. read[m] = [ok |-> TRUE, rest |-> <<>>, ranges |-> ranges]
    BY <1>3, <1>4, <1>5, <1>12, <1>15
  <1> QED BY <1>3, <1>7, <1>16 DEF bytes

-----------------------------------------------------------------------------
(* Codecs.                                                                 *)

LEMMA BytesType ==
  ASSUME NEW N, NEW U, N \X Int \subseteq U, NEW name \in N, NEW first \in Int, NEW last \in Int
  PROVE  Bytes(name, first, last) \in Seq(U)
  <1> DEFINE n == last - first + 1
  <1>1. n \in Int /\ \A k \in 1..n : first + k - 1 \in Int
    OBVIOUS
  <1>2. Bytes(name, first, last) = [k \in 1..n |-> <<name, first + k - 1>>]
    BY DEF Bytes
  <1>3. \A k \in 1..n : <<name, first + k - 1>> \in U
    BY <1>1
  <1> HIDE DEF n
  <1>4. CASE n \in Nat
    BY <1>2, <1>3, <1>4
  <1>5. CASE n \notin Nat
    <2>1. 1..n = {}
      BY <1>1, <1>5
    <2>2. Bytes(name, first, last) = <<>>
      BY <1>2, <2>1
    <2> QED BY <2>2, EmptySeq
  <1> QED BY <1>4, <1>5

LEMMA PieceTypes ==
  ASSUME NEW U, NEW b \in Seq(U)
  PROVE  Clear(b) \in PieceOf(U) /\ Secret(b) \in PieceOf(U)
  BY DEF Clear, Secret, PieceOf

\* The pieces of the units, one unit after the other.
LEMMA UnitPieces ==
  ASSUME NEW V, NEW n \in Nat, NEW parts, parts = [k \in 1..n |-> parts[k]],
         \A k \in 1..n : parts[k] \in Seq(V)
  PROVE  FlattenSeq(parts) \in Seq(V)
  <1> DEFINE R == Seq(V)
  <1>1. \A k \in 1..n : parts[k] \in R
    OBVIOUS
  <1> HIDE DEF R
  <1>2. parts \in Seq(R) /\ Len(parts) = n
    BY <1>1
  <1>3. PICK W : IsJoined(V, parts, W)
    BY <1>2, Joined DEF R
  <1>4. W \in [0..n -> R] /\ FlattenSeq(parts) = W[n]
    BY <1>2, <1>3 DEF IsJoined, R
  <1>5. n \in 0..n
    OBVIOUS
  <1> QED BY <1>4, <1>5 DEF R

\* The units of a frame to send.
LEMMA UnitTypes ==
  ASSUME NEW frame \in MediaFrames
  PROVE  LET units == frame.units IN
         /\ Len(units) \in Nat /\ DOMAIN units = 1..Len(units) /\ frame.missing \in Nat
         /\ \A k \in 1..Len(units) : /\ units[k].size \in Nat /\ units[k].pps \in Nat
                                     /\ units[k].code \in Nat /\ units[k].has_size \in BOOLEAN
  <1> DEFINE units == frame.units
             R == Range(units)
  <1>1. /\ units \in Seq(R) /\ frame.missing \in Nat
        /\ \A u \in R : {u.size, u.pps} \subseteq Nat /\ u.code \in {0, 3, 4} /\ u.has_size \in BOOLEAN
    BY LayoutConstants
  <1> HIDE DEF R, units
  <1>2. Len(units) \in Nat /\ DOMAIN units = 1..Len(units) /\ \A k \in 1..Len(units) : units[k] \in R
    BY <1>1, ElementOfSeq
  <1>3. \A u \in R : u.size \in Nat /\ u.pps \in Nat /\ u.code \in Nat /\ u.has_size \in BOOLEAN
    BY <1>1
  <1> QED BY <1>1, <1>2, <1>3 DEF units

\* The bytes of a frame.
SizeNames == {<<k, "size">> : k \in Nat}
Headers == {<<k, "header", b>> : k \in Nat, b \in BOOLEAN}
Extensions == {<<k, "extension">> : k \in Nat}
FrameByte ==
  (Nat \X Int) \union ({"code"} \X Int) \union (SizeNames \X Int) \union Headers \union Extensions

LEMMA FrameBytes ==
  /\ \A k \in Nat, first, last \in Int : Bytes(k, first, last) \in Seq(FrameByte)
  /\ \A first, last \in Int : Bytes("code", first, last) \in Seq(FrameByte)
  /\ \A k \in Nat, first, last \in Int : Bytes(<<k, "size">>, first, last) \in Seq(FrameByte)
  /\ \A k \in Nat, b \in BOOLEAN : <<(<<k, "header", b>>)>> \in Seq(FrameByte)
  /\ \A k \in Nat : <<(<<k, "extension">>)>> \in Seq(FrameByte)
  /\ <<>> \in Seq(FrameByte)
  <1>1. /\ Nat \X Int \subseteq FrameByte /\ {"code"} \X Int \subseteq FrameByte
        /\ SizeNames \X Int \subseteq FrameByte /\ Headers \subseteq FrameByte
        /\ Extensions \subseteq FrameByte
    BY DEF FrameByte
  <1>2. \A k \in Nat : <<k, "size">> \in SizeNames /\ <<k, "extension">> \in Extensions
    BY DEF SizeNames, Extensions
  <1>3. \A k \in Nat, b \in BOOLEAN : <<k, "header", b>> \in Headers
    BY DEF Headers
  <1>4. \A x \in FrameByte : <<x>> \in Seq(FrameByte)
    OBVIOUS
  <1>5. \A k \in Nat, first, last \in Int : Bytes(k, first, last) \in Seq(FrameByte)
    BY <1>1, BytesType
  <1>6. \A first, last \in Int : Bytes("code", first, last) \in Seq(FrameByte)
    <2>1. "code" \in {"code"}
      OBVIOUS
    <2> QED BY <1>1, <2>1, BytesType
  <1>7. \A k \in Nat, first, last \in Int : Bytes(<<k, "size">>, first, last) \in Seq(FrameByte)
    BY <1>1, <1>2, BytesType
  <1>8. \A k \in Nat, b \in BOOLEAN : <<(<<k, "header", b>>)>> \in Seq(FrameByte)
    <2> TAKE k \in Nat, b \in BOOLEAN
    <2> DEFINE x == <<k, "header", b>>
    <2>1. x \in FrameByte
      BY <1>1, <1>3
    <2> HIDE DEF x
    <2>2. <<x>> \in Seq(FrameByte)
      BY <1>4, <2>1
    <2> QED BY <2>2 DEF x
  <1>9. \A k \in Nat : <<(<<k, "extension">>)>> \in Seq(FrameByte)
    <2> TAKE k \in Nat
    <2> DEFINE x == <<k, "extension">>
    <2>1. x \in FrameByte
      BY <1>1, <1>2
    <2> HIDE DEF x
    <2>2. <<x>> \in Seq(FrameByte)
      BY <1>4, <2>1
    <2> QED BY <2>2 DEF x
  <1>10. <<>> \in Seq(FrameByte)
    OBVIOUS
  <1> QED BY <1>5, <1>6, <1>7, <1>8, <1>9, <1>10, Zenon

LEMMA Leb128Size ==
  ASSUME NEW n \in Nat
  PROVE  leb128_size(n) \in Int
  <1> DEFINE x == write_leb128(n)
  <1>1. x \in Seq(Octet)
    BY Leb128Parts
  <1> HIDE DEF x
  <1>2. Len(x) \in Int
    BY <1>1, LenProperties
  <1> QED BY <1>2 DEF x, leb128_size

\* What a unit begins with, and its own bytes.
LEMMA UnitBegins ==
  ASSUME NEW frame \in MediaFrames, NEW k \in 1..Len(frame.units)
  PROVE  UnitHead(frame, k) \in Seq(FrameByte) /\ UnitBytes(frame, k) \in Seq(FrameByte)
  <1> DEFINE u == frame.units[k]
             S == Seq(FrameByte)
             a == <<(<<k, "header", u.has_size>>)>>
             b == IF u.extension THEN <<(<<k, "extension">>)>> ELSE <<>>
             c == IF u.has_size THEN Bytes(<<k, "size">>, 1, leb128_size(u.size)) ELSE <<>>
  <1>1. /\ k \in Nat /\ u.size \in Nat /\ u.size \in Int /\ u.has_size \in BOOLEAN
        /\ 5 - u.code \in Int /\ 4 \in Int /\ 1 \in Int
    <2>1. Len(frame.units) \in Nat /\ u.size \in Nat /\ u.code \in Nat /\ u.has_size \in BOOLEAN
      BY UnitTypes
    <2> QED BY <2>1
  <1>2. leb128_size(u.size) \in Int
    BY <1>1, Leb128Size
  <1>3. a \in S /\ b \in S /\ c \in S /\ <<>> \in S
    BY <1>1, <1>2, FrameBytes, Zenon
  <1>4. Bytes("code", 5 - u.code, 4) \in S /\ Bytes(k, 1, u.size) \in S
    BY <1>1, FrameBytes
  <1>5. UnitBytes(frame, k) = Bytes(k, 1, u.size)
    BY DEF UnitBytes
  <1>6. UnitHead(frame, k) = IF frame.codec \in {"h264", "h265"} THEN Bytes("code", 5 - u.code, 4)
                             ELSE IF frame.codec = "av1" THEN a \o b \o c ELSE <<>>
    BY DEF UnitHead
  <1> HIDE DEF a, b, c, u
  <1>7. a \o b \o c \in S
    <2>1. a \o b \in S
      BY <1>3, ConcatProperties
    <2> HIDE DEF S
    <2> QED BY <1>3, <2>1, ConcatProperties DEF S
  <1> HIDE DEF S
  <1>8. UnitHead(frame, k) \in S
    BY <1>3, <1>4, <1>6, <1>7, Zenon
  <1> QED BY <1>4, <1>5, <1>8 DEF S

\* The bytes of a frame from a unit on.
LEMMA RawTypes ==
  ASSUME NEW frame \in MediaFrames, NEW k \in 1..(Len(frame.units) + 1)
  PROVE  RawFrom(frame, k) \in Seq(FrameByte)
  <1> DEFINE n == Len(frame.units)
             m == n + 1 - k
             parts == [j \in 1..m |-> UnitHead(frame, k + j - 1) \o UnitBytes(frame, k + j - 1)]
  <1>1. n \in Nat
    BY UnitTypes
  <1>2. m \in Nat /\ \A j \in 1..m : k + j - 1 \in 1..n
    BY <1>1
  <1>3. ASSUME NEW j \in 1..m PROVE parts[j] \in Seq(FrameByte)
    <2> DEFINE i == k + j - 1
    <2>1. i \in 1..n
      BY <1>2
    <2>2. parts[j] = UnitHead(frame, i) \o UnitBytes(frame, i)
      BY <1>3
    <2> HIDE DEF i
    <2>3. UnitHead(frame, i) \in Seq(FrameByte) /\ UnitBytes(frame, i) \in Seq(FrameByte)
      BY <2>1, UnitBegins
    <2> QED BY <2>2, <2>3, ConcatProperties
  <1>4. parts = [j \in 1..m |-> parts[j]]
    OBVIOUS
  <1>5. RawFrom(frame, k) = FlattenSeq(parts)
    BY DEF RawFrom
  <1> HIDE DEF parts, m
  <1>6. FlattenSeq(parts) \in Seq(FrameByte)
    BY <1>2, <1>3, <1>4, UnitPieces
  <1> QED BY <1>5, <1>6

LEMMA ContentTypes ==
  ASSUME NEW frame \in MediaFrames, NEW k \in 1..Len(frame.units)
  PROVE  Len(ContentFrom(frame, k)) \in Int
  <1>1. Len(frame.units) \in Nat
    BY UnitTypes
  <1>2. k + 1 \in 1..(Len(frame.units) + 1)
    BY <1>1
  <1>3. UnitBytes(frame, k) \in Seq(FrameByte) /\ RawFrom(frame, k + 1) \in Seq(FrameByte)
    BY <1>2, UnitBegins, RawTypes
  <1>4. ContentFrom(frame, k) \in Seq(FrameByte)
    BY <1>3, ConcatProperties DEF ContentFrom
  <1> QED BY <1>4, LenProperties

\* A part of a sequence, also one that reaches beyond it.
LEMMA PartType ==
  ASSUME NEW U, NEW b, NEW first \in Int, NEW last \in Int, \A i \in Int : b[i] \in U
  PROVE  SubSeq(b, first, last) \in Seq(U)
  <1>1. \A i \in first..last : b[i] \in U
    OBVIOUS
  <1> QED BY <1>1, SubSeqProperties

LEMMA RawFrameType ==
  ASSUME NEW frame \in MediaFrames
  PROVE  \E U : RawFrame(frame) \in Seq(U) /\ Len(RawFrame(frame)) \in Int
  <1> DEFINE b == RawFrom(frame, 1)
             U == {b[i] : i \in Int}
             last == Len(b) - frame.missing
  <1>1. Len(frame.units) \in Nat /\ frame.missing \in Nat
    BY UnitTypes
  <1>2. 1 \in 1..(Len(frame.units) + 1)
    BY <1>1
  <1>3. b \in Seq(FrameByte)
    BY <1>2, RawTypes
  <1>4. RawFrame(frame) = SubSeq(b, 1, last)
    BY DEF RawFrame
  <1> HIDE DEF b
  <1>5. Len(b) \in Nat
    BY <1>3, LenProperties
  <1>6. last \in Int /\ 1 \in Int
    BY <1>1, <1>5
  <1>7. \A i \in Int : b[i] \in U
    OBVIOUS
  <1> HIDE DEF last, U
  <1>8. SubSeq(b, 1, last) \in Seq(U)
    BY <1>6, <1>7, PartType
  <1>9. RawFrame(frame) \in Seq(U) /\ Len(RawFrame(frame)) \in Int
    BY <1>4, <1>8, LenProperties
  <1> QED BY <1>9, Zenon

LEMMA NalPieces ==
  ASSUME NEW frame \in MediaFrames
  PROVE  \E U : process_frame_h26x(frame) \in Seq(PieceOf(U))
  <1> DEFINE units == frame.units
             n == Len(units)
             U == FrameByte \union UNION {{ContentFrom(frame, k)[i] : i \in Int} : k \in 1..n}
             V == PieceOf(U)
             last(k) == IF units[k].size = ShownBytes(frame, k) - 1 THEN Len(ContentFrom(frame, k))
                        ELSE units[k].size
             front(k) == SubSeq(ContentFrom(frame, k), 1, ShownBytes(frame, k))
             back(k) == SubSeq(ContentFrom(frame, k), ShownBytes(frame, k) + 1, last(k))
             Part(k) == IF ~IsNalUnit(frame, k) THEN <<>>
                        ELSE <<Clear(NALU_LONG_START_CODE), Clear(front(k)), Secret(back(k))>>
             parts == [k \in DOMAIN units |-> Part(k)]
  <1>1. /\ n \in Nat /\ DOMAIN units = 1..n
        /\ \A k \in 1..n : units[k].size \in Nat /\ units[k].pps \in Nat
    BY UnitTypes
  <1>2. process_frame_h26x(frame) = FlattenSeq(parts)
    BY DEF process_frame_h26x
  <1>3. NALU_LONG_START_CODE \in Seq(U)
    <2> DEFINE c == NALU_LONG_START_CODE
    <2>1. c \in Seq(FrameByte)
      BY FrameBytes DEF NALU_LONG_START_CODE
    <2>2. FrameByte \subseteq U
      OBVIOUS
    <2> HIDE DEF U, c
    <2>3. c \in Seq(U)
      BY <2>1, <2>2
    <2> QED BY <2>3 DEF c
  <1>4. ASSUME NEW k \in 1..n PROVE front(k) \in Seq(U) /\ back(k) \in Seq(U)
    <2> DEFINE b == ContentFrom(frame, k)
               m == ShownBytes(frame, k)
    <2>1. Len(b) \in Int
      BY ContentTypes
    <2>2. m \in Nat
      BY <1>1 DEF ShownBytes
    <2>3. last(k) \in Int
      BY <1>1, <2>1
    <2>4. \A i \in Int : b[i] \in U
      OBVIOUS
    <2>5. front(k) = SubSeq(b, 1, m) /\ back(k) = SubSeq(b, m + 1, last(k))
      OBVIOUS
    <2> HIDE DEF b, m, last, front, back, U
    <2>6. 1 \in Int /\ m \in Int /\ m + 1 \in Int
      BY <2>2
    <2>7. SubSeq(b, 1, m) \in Seq(U)
      BY <2>4, <2>6, PartType
    <2>8. SubSeq(b, m + 1, last(k)) \in Seq(U)
      BY <2>3, <2>4, <2>6, PartType
    <2> QED BY <2>5, <2>7, <2>8
  <1> HIDE DEF U, front, back
  <1>5. \A b \in Seq(U) : Clear(b) \in V /\ Secret(b) \in V
    BY PieceTypes
  <1> HIDE DEF V
  <1>6. ASSUME NEW k \in 1..n PROVE parts[k] \in Seq(V)
    <2>1. Clear(NALU_LONG_START_CODE) \in V /\ Clear(front(k)) \in V /\ Secret(back(k)) \in V
      BY <1>3, <1>4, <1>5
    <2>2. parts[k] = Part(k)
      BY <1>1
    <2>3. <<Clear(NALU_LONG_START_CODE), Clear(front(k)), Secret(back(k))>> \in Seq(V)
      BY <2>1
    <2>4. <<>> \in Seq(V)
      OBVIOUS
    <2> QED BY <2>2, <2>3, <2>4, Zenon
  <1>7. parts = [k \in 1..n |-> parts[k]]
    BY <1>1
  <1> HIDE DEF parts, n
  <1>8. FlattenSeq(parts) \in Seq(V)
    BY <1>1, <1>6, <1>7, UnitPieces
  <1> QED BY <1>2, <1>8, Zenon DEF V

LEMMA ObuPieces ==
  ASSUME NEW frame \in MediaFrames
  PROVE  \E U : process_frame_av1(frame) \in Seq(PieceOf(U))
  <1> DEFINE units == frame.units
             n == Len(units)
             V == PieceOf(FrameByte)
             sized(k) == units[k].has_size /\ k < Len(units)
             Headed(k) == Clear(<<(<<k, "header", sized(k)>>)>>)
             Extended(k) == Clear(IF units[k].extension THEN <<(<<k, "extension">>)>> ELSE <<>>)
             Sized(k) == Clear(IF sized(k) THEN Bytes(<<k, "size">>, 1, leb128_size(units[k].size))
                               ELSE <<>>)
             Rest(k) == Secret(UnitBytes(frame, k))
             Part(k) == IF units[k].dropped THEN <<>>
                        ELSE <<Headed(k), Extended(k), Sized(k), Rest(k)>>
             parts == [k \in DOMAIN units |-> Part(k)]
  <1>1. /\ n \in Nat /\ DOMAIN units = 1..n
        /\ \A k \in 1..n : units[k].size \in Nat /\ units[k].has_size \in BOOLEAN
    BY UnitTypes
  <1>2. process_frame_av1(frame) = FlattenSeq(parts)
    BY DEF process_frame_av1
  <1>3. \A b \in Seq(FrameByte) : Clear(b) \in V /\ Secret(b) \in V
    BY PieceTypes
  <1>4. ASSUME NEW k \in 1..n
        PROVE  Headed(k) \in V /\ Extended(k) \in V /\ Sized(k) \in V /\ Rest(k) \in V
    <2> DEFINE size == leb128_size(units[k].size)
    <2>1. k \in Nat /\ 1 \in Int /\ units[k].size \in Nat /\ sized(k) \in BOOLEAN
      BY <1>1
    <2>2. size \in Int
      BY <2>1, Leb128Size
    <2>3. UnitBytes(frame, k) \in Seq(FrameByte)
      BY UnitBegins
    <2> HIDE DEF sized, size, V, units
    <2>4. /\ <<(<<k, "header", sized(k)>>)>> \in Seq(FrameByte)
          /\ <<(<<k, "extension">>)>> \in Seq(FrameByte)
          /\ Bytes(<<k, "size">>, 1, size) \in Seq(FrameByte)
          /\ <<>> \in Seq(FrameByte)
      BY <2>1, <2>2, FrameBytes, Zenon
    <2> QED BY <1>3, <2>3, <2>4, Zenon DEF size
  <1> HIDE DEF Headed, Extended, Sized, Rest, V
  <1>5. ASSUME NEW k \in 1..n PROVE parts[k] \in Seq(V)
    <2>1. parts[k] = Part(k)
      BY <1>1
    <2>2. <<Headed(k), Extended(k), Sized(k), Rest(k)>> \in Seq(V) /\ <<>> \in Seq(V)
      BY <1>4
    <2> QED BY <2>1, <2>2, Zenon
  <1>6. parts = [k \in 1..n |-> parts[k]]
    BY <1>1
  <1> HIDE DEF parts, n
  <1>7. FlattenSeq(parts) \in Seq(V)
    BY <1>1, <1>5, <1>6, UnitPieces
  <1> QED BY <1>2, <1>7, Zenon DEF V

\* Whatever the codec makes of a frame is a sequence of pieces.
LEMMA CodecPieces ==
  ASSUME NEW frame \in MediaFrames
  PROVE  \E U : Pieces(frame) \in Seq(PieceOf(U))
  <1> DEFINE raw == RawFrame(frame)
  <1>1. PICK W : raw \in Seq(W) /\ Len(raw) \in Int
    BY RawFrameType
  <1> HIDE DEF raw
  <1>2. \E U : <<Secret(raw)>> \in Seq(PieceOf(U))
    <2>1. Secret(raw) \in PieceOf(W)
      BY <1>1, PieceTypes
    <2>2. <<Secret(raw)>> \in Seq(PieceOf(W))
      BY <2>1
    <2> QED BY <2>2, Zenon
  <1>3. \E U : process_frame_vp8(frame) \in Seq(PieceOf(U))
    <2> DEFINE header == Vp8Header(frame)
               U == {raw[i] : i \in Int}
               a == SubSeq(raw, 1, header)
               b == SubSeq(raw, header + 1, Len(raw))
    <2>1. header \in Int /\ header + 1 \in Int /\ 1 \in Int
      BY DEF Vp8Header
    <2>2. process_frame_vp8(frame) = <<Clear(a), Secret(b)>>
      BY DEF process_frame_vp8, raw
    <2>3. \A i \in Int : raw[i] \in U
      OBVIOUS
    <2> HIDE DEF header, U
    <2>4. a \in Seq(U) /\ b \in Seq(U)
      BY <1>1, <2>1, <2>3, PartType
    <2> HIDE DEF a, b
    <2>5. Clear(a) \in PieceOf(U) /\ Secret(b) \in PieceOf(U)
      BY <2>4, PieceTypes
    <2>6. <<Clear(a), Secret(b)>> \in Seq(PieceOf(U))
      BY <2>5
    <2> QED BY <2>2, <2>6, Zenon
  <1>4. frame.codec \in {"opus", "vp8", "vp9", "h264", "h265", "av1"}
    BY LayoutConstants
  <1>5. CASE ~Parses(frame) \/ frame.codec \in {"opus", "vp9"}
    <2>1. Pieces(frame) = <<Secret(raw)>>
      BY <1>5 DEF Pieces, process_frame_opus, raw
    <2> QED BY <1>2, <2>1, Zenon
  <1>6. CASE Parses(frame) /\ frame.codec = "vp8"
    <2>1. Pieces(frame) = process_frame_vp8(frame)
      BY <1>6 DEF Pieces
    <2> QED BY <1>3, <2>1, Zenon
  <1>7. CASE Parses(frame) /\ frame.codec \in {"h264", "h265"}
    <2>1. Pieces(frame) = process_frame_h26x(frame)
      BY <1>7 DEF Pieces
    <2> QED BY <2>1, NalPieces, Zenon
  <1>8. CASE Parses(frame) /\ frame.codec = "av1"
    <2>1. Pieces(frame) = process_frame_av1(frame)
      BY <1>8 DEF Pieces
    <2> QED BY <2>1, ObuPieces, Zenon
  <1> QED BY <1>4, <1>5, <1>6, <1>7, <1>8

\* A remainder below the divisor.
LEMMA SmallMod ==
  ASSUME NEW i \in Nat, NEW m \in Nat, i < m
  PROVE  i % m = i
  OBVIOUS

IsFrameRead(frame, nonce, q) ==
  /\ Authentic(q, frame, nonce)
  /\ reconstruct_frame(q) = Sanitised(frame)

\* What encrypt writes of a frame is parsed and reconstructed byte for byte, if all
\* ranges were written, whether the codec took the frame or not
\* (Encryptor::encrypt, process_frame, parse_frame, reconstruct_frame).
THEOREM FrameReadsBack ==
  ASSUME NEW frame \in MediaFrames, NEW nonce \in Nonces, Fits(frame, nonce)
  PROVE  IsFrameRead(frame, nonce, parse_frame(encrypt(frame, nonce)))
  <1> DEFINE p == process_frame(frame)
             w == encrypt(frame, nonce)
             whole == Sanitised(frame)
             ranges == p.ranges
             number == write_leb128(nonce)
             written == RangeBytes(ranges)
  <1>1. PICK U : Pieces(frame) \in Seq(PieceOf(U))
    BY CodecPieces
  <1>2. PICK body : Framed(U, p, whole, body)
    BY <1>1, FrameProcessed
  <1>3. /\ p \in Progress(U) /\ Layout(Sealed(U), ranges, p.clear, p.secret, whole)
        /\ Layout(Sealed(U), ranges, p.clear, Seal(p.secret), body)
    BY <1>2, Zenon DEF Framed
  <1>4. ranges \in Seq(Ranges) /\ p.secret \in Seq(U)
    BY <1>3 DEF Progress
  <1>5. /\ do_reconstruct(ranges, p.clear, Seal(p.secret)) = body
        /\ do_reconstruct(ranges, p.clear, p.secret) = whole
    BY <1>3, Reconstructed, Zenon
  <1>6. Split(body, ranges) = [authenticated |-> p.clear, ciphertext |-> Seal(p.secret)]
    BY <1>3, TakenApart
  <1>7. Unseal(Seal(p.secret)) = p.secret
    BY <1>4, SealParts
  <1>8. nonce \in Nat /\ SizeWrap \in Nat
    BY LayoutConstants
  <1>9. /\ w.numbers = number \o written /\ 8 + Len(w.numbers) + 3 < SizeWrap
    BY DEF Fits, RangeBytes
  <1>10. w.body = body /\ w.bytes_size = (8 + Len(w.numbers) + 3) % SizeWrap
    <2>1. w.body = do_reconstruct(ranges, p.clear, Seal(p.secret))
      BY DEF encrypt, Assembled
    <2>2. w.bytes_size = (8 + Len(w.numbers) + 3) % SizeWrap
      BY DEF encrypt, Assembled
    <2> QED BY <1>5, <2>1, <2>2
  <1> HIDE DEF w, p, whole
  <1>11. /\ written \in Seq(Octet)
         /\ deserialize_unencrypted_ranges(written) = [ok |-> TRUE, rest |-> <<>>, ranges |-> ranges]
    BY <1>4, RangesRead
  <1> HIDE DEF written, ranges
  <1>12. read_leb128(w.numbers) = [ok |-> TRUE, value |-> nonce, rest |-> written]
    BY <1>8, <1>9, <1>11, Leb128ReadsBack
  <1> DEFINE s == 8 + Len(w.numbers) + 3
  <1>13. Len(w.numbers) \in Nat
    <2>1. number \in Seq(Octet)
      BY <1>8, Leb128Parts
    <2> HIDE DEF number
    <2>2. number \o written \in Seq(Octet)
      BY <1>11, <2>1, ConcatProperties
    <2> QED BY <1>9, <2>2, LenProperties
  <1>14. s \in Nat /\ s < SizeWrap /\ w.bytes_size = s % SizeWrap
    BY <1>9, <1>10, <1>13
  <1> HIDE DEF s
  <1>15. w.bytes_size = s
    BY <1>8, <1>14, SmallMod
  <1>16. validate_unencrypted_ranges(ranges, Len(body) + s)
    BY <1>3, <1>14, Validated
  <1> DEFINE q == [encrypted |-> TRUE, nonce |-> nonce, ranges |-> ranges,
                   authenticated |-> p.clear, ciphertext |-> Seal(p.secret)]
  <1>17. parse_frame(w) = q
    <2> DEFINE first == read_leb128(w.numbers)
               rest == deserialize_unencrypted_ranges(first.rest)
               parts == Split(w.body, rest.ranges)
    <2>1. first.ok = TRUE /\ first.value = nonce /\ first.rest = written
      BY <1>12
    <2>2. rest.ok = TRUE /\ rest.ranges = ranges
      BY <1>11, <2>1
    <2>3. parts.authenticated = p.clear /\ parts.ciphertext = Seal(p.secret)
      BY <1>6, <1>10, <2>2
    <2>4. parse_frame(w) =
            IF \/ w.bytes_size # s
               \/ ~first.ok \/ ~rest.ok
               \/ ~validate_unencrypted_ranges(rest.ranges, Len(w.body) + s)
            THEN NotEncrypted
            ELSE [encrypted |-> TRUE, nonce |-> first.value, ranges |-> rest.ranges,
                  authenticated |-> parts.authenticated, ciphertext |-> parts.ciphertext]
      BY DEF parse_frame, s
    <2> HIDE DEF first, rest, parts
    <2> QED BY <1>10, <1>15, <1>16, <2>1, <2>2, <2>3, <2>4
  <1>18. /\ q.encrypted /\ q.nonce = nonce /\ q.authenticated = p.clear
         /\ q.ciphertext = Seal(p.secret) /\ q.ranges = ranges
    OBVIOUS
  <1> HIDE DEF q
  <1>19. reconstruct_frame(q) = whole
    BY <1>5, <1>7, <1>18 DEF reconstruct_frame
  <1>20. IsFrameRead(frame, nonce, q)
    BY <1>18, <1>19, Zenon DEF IsFrameRead, Authentic, p, whole
  <1> QED BY <1>17, <1>20 DEF w

-----------------------------------------------------------------------------
(* The nonces of encrypted frames.                                         *)

Total == NoncesPerGeneration * GENERATION_WRAP

\* The window of nonces of a manager.
CursorInv(m) ==
  /\ m.again = {}
  /\ m.newest_nonce = NoNonce => m.played = {}
  /\ m.newest_nonce # NoNonce => m.newest_nonce \in m.played
  /\ \A p \in m.played : p <= m.newest_nonce
  /\ m.missing = Window(m) \ m.played
  /\ m.newest_nonce < Total

\* The keys of a manager.
KeyInv(m) ==
  /\ m.oldest <= m.newest
  /\ m.lifetime < GENERATION_WRAP
  /\ \A g \in m.ciphers :
       m.oldest <= g /\ g <= m.newest + MAX_GENERATION_GAP /\ g <= m.lifetime

Sound == {m \in CipherManager : CursorInv(m) /\ KeyInv(m)}

FInv ==
  /\ m_ratchet \in Epochs /\ m_truncated_nonce \in Nat
  /\ network \subseteq Frame
  /\ m_managers \in Seq(Sound)

-----------------------------------------------------------------------------
(* Arithmetic.                                                             *)

\* A nonce is told by its generation and its place in it.
LEMMA NonceParts ==
  ASSUME NEW n \in Nat
  PROVE  /\ Generation(n) \in Nat
         /\ n % NoncesPerGeneration \in 0..(NoncesPerGeneration - 1)
         /\ n = NoncesPerGeneration * Generation(n) + (n % NoncesPerGeneration)
  <1>1. NoncesPerGeneration \in Nat /\ NoncesPerGeneration > 0
    BY FrameConstants
  <1> QED
    BY <1>1 DEF Generation

\* The nonce of generation g, and its bound when g fits the byte.
LEMMA BigNonce ==
  ASSUME NEW g \in Nat, NEW n \in Nat
  PROVE  /\ compute_wrapped_big_nonce(g, n) \in Nat
         /\ g < GENERATION_WRAP => compute_wrapped_big_nonce(g, n) < Total
  <1>1. /\ NoncesPerGeneration \in Nat /\ NoncesPerGeneration > 0
        /\ GENERATION_WRAP \in Nat /\ GENERATION_WRAP > 0
    BY FrameConstants
  <1>2. n % NoncesPerGeneration \in 0..(NoncesPerGeneration - 1)
    BY NonceParts
  <1>3. g * NoncesPerGeneration \in Nat
    BY <1>1
  <1>4. ASSUME g < GENERATION_WRAP
        PROVE  g * NoncesPerGeneration + NoncesPerGeneration <= Total
    <2>1. PICK d \in Nat : GENERATION_WRAP = g + 1 + d
      <3>1. GENERATION_WRAP - g - 1 \in Nat /\ GENERATION_WRAP = g + 1 + (GENERATION_WRAP - g - 1)
        BY <1>1, <1>4
      <3> QED BY <3>1
    <2>2. Total = g * NoncesPerGeneration + NoncesPerGeneration + d * NoncesPerGeneration
      BY <1>1, <2>1 DEF Total
    <2>3. d * NoncesPerGeneration \in Nat
      BY <1>1
    <2> QED
      BY <1>1, <1>3, <2>2, <2>3
  <1>5. Total \in Nat
    BY <1>1 DEF Total
  <1> QED
    BY <1>1, <1>2, <1>3, <1>4, <1>5 DEF compute_wrapped_big_nonce

\* A generation at most one wrap above the oldest key is a number.
LEMMA WrappedGeneration ==
  ASSUME NEW m, m.oldest \in Nat, NEW g \in Nat
  PROVE  /\ compute_wrapped_generation(m, g) \in Nat
         /\ m.oldest <= g /\ g < GENERATION_WRAP => compute_wrapped_generation(m, g) = g
  <1>1. GENERATION_WRAP \in Nat /\ GENERATION_WRAP > 0
    BY FrameConstants
  <1> DEFINE k == m.oldest \div GENERATION_WRAP
             r == IF g < m.oldest % GENERATION_WRAP THEN 1 ELSE 0
  <1>2. k \in Nat /\ r \in 0..1
    BY <1>1
  <1>3. (k + r) * GENERATION_WRAP \in Nat
    <2>1. k + r \in Nat
      BY <1>2
    <2> HIDE DEF k, r
    <2> QED BY <1>1, <2>1
  <1>4. compute_wrapped_generation(m, g) = (k + r) * GENERATION_WRAP + g
    BY DEF compute_wrapped_generation
  <1>5. ASSUME m.oldest <= g, g < GENERATION_WRAP
        PROVE  k = 0 /\ r = 0
    BY <1>1, <1>5
  <1>6. ASSUME m.oldest <= g, g < GENERATION_WRAP
        PROVE  (k + r) * GENERATION_WRAP = 0
    <2>1. k + r = 0 /\ 0 * GENERATION_WRAP = 0
      BY <1>1, <1>5, <1>6
    <2> HIDE DEF k, r
    <2> QED BY <2>1
  <1> HIDE DEF k, r
  <1> QED
    BY <1>3, <1>4, <1>6

-----------------------------------------------------------------------------
(* Keys.                                                                   *)

\* The oldest key that is kept: the least generation with a cipher, or the
\* newest one.
LEMMA LeastKey ==
  ASSUME NEW lo \in Nat, NEW hi \in Nat, lo <= hi, NEW keys
  PROVE  \E g \in lo..hi : /\ g = hi \/ g \in keys
                           /\ \A h \in lo..(g - 1) : h \notin keys
  <1> DEFINE T == {g \in lo..hi : g = hi \/ g \in keys}
  <1>1. T \subseteq Nat /\ hi \in T
    OBVIOUS
  <1>2. PICK x \in T : \A y \in T : ~(<<y, x>> \in OpToRel(<, Nat))
    BY <1>1, NatLessThanWellFounded, WFMin, Zenon
  <1>3. \A y \in T : ~(y < x)
    BY <1>1, <1>2 DEF OpToRel
  <1> QED
    BY <1>1, <1>3

\* What CleanUp leaves: only the oldest key changes, and only upwards.
LEMMA CleanUpKeeps ==
  ASSUME NEW m \in Sound
  PROVE  /\ CleanUp(m) \in Sound
         /\ CleanUp(m).oldest \in m.oldest..m.newest
         /\ \A g \in m.ciphers : CleanUp(m).oldest <= g
         /\ CleanUp(m) = [m EXCEPT !.oldest = CleanUp(m).oldest]
  <1>1. /\ m \in CipherManager /\ m.oldest \in Nat /\ m.newest \in Nat
        /\ m.oldest <= m.newest /\ m.ciphers \subseteq Nat
    BY DEF Sound, KeyInv, CipherManager
  <1> DEFINE ch == CHOOSE g \in m.oldest..m.newest :
                     /\ g = m.newest \/ g \in m.ciphers
                     /\ \A h \in m.oldest..(g - 1) : h \notin m.ciphers
  <1>2. CleanUp(m) = [m EXCEPT !.oldest = ch]
    BY DEF CleanUp
  <1>3. /\ ch \in m.oldest..m.newest
        /\ \A h \in m.oldest..(ch - 1) : h \notin m.ciphers
    <2>1. \E g \in m.oldest..m.newest :
            /\ g = m.newest \/ g \in m.ciphers
            /\ \A h \in m.oldest..(g - 1) : h \notin m.ciphers
      BY <1>1, LeastKey
    <2> QED BY <2>1, Zenon
  <1> HIDE DEF ch
  <1>4. CleanUp(m).oldest = ch
    BY <1>1, <1>2, Zenon DEF CipherManager
  <1>5. \A g \in m.ciphers : ch <= g
    BY <1>1, <1>3 DEF Sound, KeyInv
  <1>6. CleanUp(m) \in CipherManager
    BY <1>1, <1>2, <1>3 DEF CipherManager
  <1>7. /\ CleanUp(m).again = m.again /\ CleanUp(m).newest_nonce = m.newest_nonce
        /\ CleanUp(m).played = m.played /\ CleanUp(m).missing = m.missing
        /\ CleanUp(m).newest = m.newest /\ CleanUp(m).lifetime = m.lifetime
        /\ CleanUp(m).ciphers = m.ciphers
    BY <1>1, <1>2 DEF CipherManager
  <1>8. CursorInv(CleanUp(m))
    BY <1>7 DEF Sound, CursorInv, Window
  <1>9. KeyInv(CleanUp(m))
    BY <1>3, <1>4, <1>5, <1>7 DEF Sound, KeyInv
  <1> QED
    BY <1>2, <1>3, <1>4, <1>5, <1>6, <1>8, <1>9 DEF Sound

\* get_cipher keeps the nonces, and what it fetches may be kept.
LEMMA GetCipherKeeps ==
  ASSUME NEW m \in Sound, NEW g \in Nat
  PROVE  LET c == get_cipher(m, g) IN
         /\ c \in Sound
         /\ c.newest_nonce = m.newest_nonce /\ c.missing = m.missing
         /\ c.played = m.played /\ c.again = m.again /\ c.epoch = m.epoch
         /\ c.lifetime = m.lifetime
  <1> DEFINE c == CleanUp(m)
             d == get_cipher(m, g)
  <1>1. /\ c \in Sound /\ c \in CipherManager /\ m \in CipherManager
        /\ c = [m EXCEPT !.oldest = c.oldest]
    BY CleanUpKeeps DEF Sound
  <1> HIDE DEF c
  <1>2. /\ c.newest_nonce = m.newest_nonce /\ c.missing = m.missing
        /\ c.played = m.played /\ c.again = m.again /\ c.epoch = m.epoch
        /\ c.lifetime = m.lifetime
    BY <1>1 DEF CipherManager
  <1>3. CASE ~GetsCipher(c, g) \/ g \in c.ciphers
    <2>1. d = c
      BY <1>3 DEF get_cipher, c
    <2> QED BY <1>1, <1>2, <2>1
  <1>4. CASE GetsCipher(c, g) /\ g \notin c.ciphers
    <2> DEFINE a == IF g < c.newest THEN c.aging \cup {g} ELSE c.aging
               k == c.ciphers \cup {g}
    <2>1. d = [c EXCEPT !.ciphers = k, !.aging = a]
      BY <1>4 DEF get_cipher, c
    <2>2. a \in SUBSET Nat /\ k \in SUBSET Nat
      BY <1>1 DEF CipherManager
    <2>3. /\ g >= c.oldest /\ g <= c.newest + MAX_GENERATION_GAP /\ g <= c.lifetime
      BY <1>4 DEF GetsCipher
    <2>4. \A h \in k : c.oldest <= h /\ h <= c.newest + MAX_GENERATION_GAP /\ h <= c.lifetime
      BY <1>1, <2>3 DEF Sound, KeyInv
    <2> HIDE DEF a, k
    <2>5. /\ d \in CipherManager
          /\ d.again = c.again /\ d.newest_nonce = c.newest_nonce /\ d.epoch = c.epoch
          /\ d.played = c.played /\ d.missing = c.missing /\ d.lifetime = c.lifetime
          /\ d.newest = c.newest /\ d.oldest = c.oldest /\ d.ciphers = k
      BY <1>1, <2>1, <2>2 DEF CipherManager
    <2> HIDE DEF d
    <2>6. CursorInv(d)
      BY <1>1, <2>5 DEF Sound, CursorInv, Window
    <2>7. KeyInv(d)
      BY <1>1, <2>4, <2>5 DEF Sound, KeyInv
    <2> QED
      BY <1>2, <2>5, <2>6, <2>7 DEF Sound, d
  <1> QED BY <1>3, <1>4

-----------------------------------------------------------------------------
(* Nonces.                                                                 *)

\* A frame that opens moves or closes the window as the property says.
LEMMA PlayKeepsCursor ==
  ASSUME NEW m \in Sound, NEW big \in Nat, big < Total, can_process_nonce(m, big),
         NEW t, t = Track(m, big),
         NEW d \in CipherManager,
         d.newest_nonce = t.newest_nonce, d.missing = t.missing,
         d.played = m.played \cup {big},
         d.again = IF big \in m.played THEN m.again \cup {big} ELSE m.again
  PROVE  CursorInv(d)
  <1>1. /\ m \in CipherManager /\ CursorInv(m)
        /\ m.newest_nonce \in Nat \cup {NoNonce} /\ m.played \subseteq Nat
        /\ m.missing \subseteq Nat /\ NoNonce = -1 /\ MAX_MISSING_NONCES \in Nat
    BY FrameConstants DEF Sound, CipherManager, NoNonce
  <1>2. big \notin m.played
    BY <1>1 DEF can_process_nonce, CursorInv
  <1>3. d.again = {}
    BY <1>1, <1>2 DEF CursorInv
  <1>4. CASE m.newest_nonce = NoNonce
    <2>1. t = [m EXCEPT !.newest_nonce = big]
      BY <1>4 DEF Track
    <2>2. d.newest_nonce = big /\ d.missing = m.missing /\ d.played = {big}
      BY <1>1, <1>4, <2>1 DEF CursorInv, CipherManager
    <2>3. m.missing = {}
      BY <1>1, <1>4 DEF CursorInv, Window
    <2>4. Window(d) = {}
      BY <2>2 DEF Window
    <2> QED
      BY <1>3, <2>2, <2>3, <2>4 DEF CursorInv, NoNonce
  <1>5. CASE m.newest_nonce # NoNonce /\ big > m.newest_nonce
    <2> DEFINE om == IF big > MAX_MISSING_NONCES THEN big - MAX_MISSING_NONCES ELSE 0
               mi == {n \in m.missing : n >= om}
                       \cup {n \in (m.newest_nonce + 1)..(big - 1) : n >= om}
    <2>1. t = [m EXCEPT !.newest_nonce = big, !.missing = mi]
      BY <1>5 DEF Track
    <2>2. d.newest_nonce = big /\ d.missing = mi
      <3> HIDE DEF mi
      <3> QED BY <1>1, <2>1 DEF CipherManager
    <2>3. m.newest_nonce \in Nat /\ m.newest_nonce \in m.played
      BY <1>1, <1>5 DEF CursorInv
    <2>4. \A p \in m.played : p <= m.newest_nonce
      BY <1>1 DEF CursorInv
    <2>5. om \in Nat /\ \A n \in Nat : n >= om <=> n >= big - MAX_MISSING_NONCES
      BY <1>1
    <2> HIDE DEF om
    <2>6. ASSUME NEW n \in mi PROVE n \in Window(d) \ d.played
      <3>1. CASE n \in m.missing /\ n >= om
        <4>1. n \in Window(m) /\ n \notin m.played
          BY <1>1, <3>1 DEF CursorInv
        <4>2. n \in Nat /\ n <= m.newest_nonce /\ \E p \in m.played : p < n
          BY <2>3, <4>1 DEF Window
        <4> QED
          BY <1>1, <1>5, <2>2, <2>3, <2>5, <3>1, <4>1, <4>2 DEF Window
      <3>2. CASE n \in (m.newest_nonce + 1)..(big - 1) /\ n >= om
        BY <1>1, <2>2, <2>3, <2>4, <2>5, <3>2 DEF Window
      <3> QED BY <2>6, <3>1, <3>2
    <2>7. ASSUME NEW n \in Window(d) \ d.played PROVE n \in mi
      <3>1. n \in Nat /\ n <= big /\ n >= om /\ n # big /\ n \notin m.played
        BY <1>1, <2>2, <2>5, <2>7 DEF Window
      <3>2. PICK p \in m.played : p < n
        BY <1>1, <2>2, <2>7, <3>1 DEF Window
      <3>3. CASE n <= m.newest_nonce
        <4>1. n >= m.newest_nonce - MAX_MISSING_NONCES
          BY <1>1, <1>5, <2>3, <2>5, <3>1
        <4> QED
          BY <1>1, <2>3, <3>1, <3>2, <3>3, <4>1 DEF CursorInv, Window
      <3>4. CASE n > m.newest_nonce
        BY <2>3, <3>1, <3>4
      <3> QED BY <2>3, <3>1, <3>3, <3>4
    <2>8. d.missing = Window(d) \ d.played
      BY <2>2, <2>6, <2>7
    <2> HIDE DEF mi
    <2>9. \A p \in d.played : p <= big
      BY <1>1, <1>5, <2>3, <2>4
    <2> QED
      BY <1>3, <2>2, <2>8, <2>9 DEF CursorInv, NoNonce
  <1>6. CASE m.newest_nonce # NoNonce /\ big <= m.newest_nonce
    <2>1. t = [m EXCEPT !.missing = m.missing \ {big}]
      BY <1>1, <1>6 DEF Track
    <2>2. d.newest_nonce = m.newest_nonce /\ d.missing = m.missing \ {big}
      BY <1>1, <2>1 DEF CipherManager
    <2>3. big \in m.missing
      BY <1>1, <1>6 DEF can_process_nonce
    <2>4. PICK p \in m.played : p < big
      BY <1>1, <2>3 DEF CursorInv, Window
    <2>5. Window(d) = Window(m)
      BY <1>1, <2>2, <2>4 DEF Window
    <2>6. d.missing = Window(d) \ d.played
      BY <1>1, <2>2, <2>5 DEF CursorInv
    <2> QED
      BY <1>1, <1>3, <1>6, <2>2, <2>6 DEF CursorInv
  <1> QED
    BY <1>1, <1>4, <1>5, <1>6

\* Track changes the nonces alone.
LEMMA TrackKeepsKeys ==
  ASSUME NEW m \in CipherManager, NEW big \in Nat
  PROVE  \E newest \in Nat, missing \in SUBSET Nat :
           Track(m, big) = [m EXCEPT !.newest_nonce = newest, !.missing = missing]
  <1>1. /\ m.newest_nonce \in Nat \cup {NoNonce} /\ m.missing \in SUBSET Nat
        /\ NoNonce = -1 /\ MAX_MISSING_NONCES \in Nat
    BY FrameConstants DEF CipherManager, NoNonce
  <1>2. CASE m.newest_nonce = NoNonce
    <2>1. Track(m, big) = [m EXCEPT !.newest_nonce = big, !.missing = m.missing]
      BY <1>2 DEF Track, CipherManager
    <2> QED BY <1>1, <2>1
  <1>3. CASE m.newest_nonce # NoNonce /\ big > m.newest_nonce
    <2> DEFINE om == IF big > MAX_MISSING_NONCES THEN big - MAX_MISSING_NONCES ELSE 0
               mi == {n \in m.missing : n >= om}
                       \cup {n \in (m.newest_nonce + 1)..(big - 1) : n >= om}
    <2>1. Track(m, big) = [m EXCEPT !.newest_nonce = big, !.missing = mi]
      BY <1>3 DEF Track
    <2>2. mi \in SUBSET Nat
      BY <1>1, <1>3
    <2> HIDE DEF mi
    <2> QED BY <2>1, <2>2
  <1>4. CASE m.newest_nonce # NoNonce /\ ~(big > m.newest_nonce)
    <2>1. m.newest_nonce \in Nat /\ m.missing \ {big} \in SUBSET Nat
      BY <1>1, <1>4
    <2>2. Track(m, big) = [m EXCEPT !.missing = m.missing \ {big}]
      BY <1>4 DEF Track
    <2>3. Track(m, big) = [m EXCEPT !.newest_nonce = m.newest_nonce,
                                    !.missing = m.missing \ {big}]
      BY <2>2 DEF CipherManager
    <2> QED BY <2>1, <2>3
  <1> QED BY <1>2, <1>3, <1>4

\* A frame of a generation within the manager's life leaves it sound.
LEMMA ReportKeeps ==
  ASSUME NEW m \in Sound, NEW g \in Nat, NEW big \in Nat, big < Total,
         can_process_nonce(m, big), g <= m.lifetime
  PROVE  report_cipher_success(m, g, big) \in Sound
  <1>1. m \in CipherManager /\ KeyInv(m) /\ m.played \subseteq Nat /\ m.again \subseteq Nat
    BY DEF Sound, CipherManager
  <1> DEFINE t == Track(m, big)
             a == Advance(t, g)
             pl == m.played \cup {big}
             ag == IF big \in m.played THEN m.again \cup {big} ELSE m.again
             d == report_cipher_success(m, g, big)
  <1>2. PICK newest \in Nat, missing \in SUBSET Nat :
          t = [m EXCEPT !.newest_nonce = newest, !.missing = missing]
    BY <1>1, TrackKeepsKeys
  <1> HIDE DEF t
  <1>3. /\ t \in CipherManager /\ t.newest = m.newest /\ t.oldest = m.oldest
        /\ t.ciphers = m.ciphers /\ t.lifetime = m.lifetime /\ t.played = m.played
        /\ t.again = m.again
    BY <1>1, <1>2 DEF CipherManager
  <1>4. PICK n \in Nat, aging \in SUBSET Nat :
          /\ n >= m.newest /\ a = [t EXCEPT !.newest = n, !.aging = aging]
    <2>1. CASE g <= t.newest
      <3>1. a = [t EXCEPT !.newest = t.newest, !.aging = t.aging]
        BY <1>3, <2>1 DEF Advance, CipherManager
      <3>2. t.newest \in Nat /\ t.aging \in SUBSET Nat /\ t.newest >= m.newest
        BY <1>3 DEF CipherManager
      <3> QED BY <3>1, <3>2
    <2>2. CASE ~(g <= t.newest)
      <3> DEFINE e == {h \in t.ciphers : h < g}
      <3>1. a = [t EXCEPT !.newest = g, !.aging = e]
        BY <2>2 DEF Advance
      <3>2. t.newest \in Nat /\ e \in SUBSET Nat
        BY <1>3 DEF CipherManager
      <3>3. g >= m.newest
        BY <1>3, <2>2, <3>2
      <3> HIDE DEF e
      <3> QED BY <3>1, <3>2, <3>3
    <2> QED BY <2>1, <2>2
  <1> HIDE DEF a
  <1>5. /\ a \in CipherManager /\ a.newest = n /\ a.oldest = m.oldest
        /\ a.ciphers = m.ciphers /\ a.lifetime = m.lifetime /\ a.played = m.played
        /\ a.again = m.again /\ a.newest_nonce = t.newest_nonce /\ a.missing = t.missing
    BY <1>3, <1>4 DEF CipherManager
  <1>6. d = [a EXCEPT !.played = pl, !.again = ag]
    <2>1. d = [a EXCEPT !.played = a.played \cup {big},
                        !.again = IF big \in m.played THEN a.again \cup {big} ELSE a.again]
      BY DEF report_cipher_success, a, t
    <2> QED BY <1>5, <2>1
  <1>7. pl \in SUBSET Nat /\ ag \in SUBSET Nat
    BY <1>1
  <1>8. d.played = pl /\ d.again = ag
    <2> HIDE DEF pl, ag, d
    <2> QED BY <1>5, <1>6 DEF CipherManager
  <1>9. /\ d \in CipherManager /\ d.newest = n /\ d.oldest = m.oldest
        /\ d.ciphers = m.ciphers /\ d.lifetime = m.lifetime
        /\ d.newest_nonce = t.newest_nonce /\ d.missing = t.missing
    <2> HIDE DEF pl, ag, d
    <2> QED BY <1>5, <1>6, <1>7 DEF CipherManager
  <1> HIDE DEF d
  <1>10. CursorInv(d)
    BY <1>8, <1>9, PlayKeepsCursor DEF t
  <1>11. KeyInv(d)
    <2>1. /\ m.newest \in Nat /\ m.oldest \in Nat /\ m.ciphers \subseteq Nat
          /\ MAX_GENERATION_GAP \in Nat
      BY <1>1, FrameConstants DEF CipherManager
    <2> QED
      BY <1>1, <1>4, <1>9, <2>1 DEF KeyInv
  <1> QED
    BY <1>9, <1>10, <1>11 DEF Sound, d

\* Whatever frame arrives, a sound manager stays sound.
LEMMA DecryptKeeps ==
  ASSUME NEW m \in Sound, NEW f \in Frame
  PROVE  decrypt_impl(m, f) \in Sound
  <1> DEFINE g == GenerationFor(m, f)
             big == BigNonceFor(m, f)
             c == get_cipher(m, g)
  <1>1. m.oldest \in Nat /\ f.nonce \in Nat /\ m \in CipherManager
    BY DEF Sound, CipherManager, Frame
  <1>2. g \in Nat
    BY <1>1, NonceParts, WrappedGeneration DEF GenerationFor
  <1>3. big \in Nat /\ (g < GENERATION_WRAP => big < Total)
    BY <1>1, <1>2, BigNonce DEF BigNonceFor
  <1>4. /\ c \in Sound /\ c.newest_nonce = m.newest_nonce /\ c.missing = m.missing
        /\ c.lifetime = m.lifetime
    BY <1>2, GetCipherKeeps
  <1>5. CASE ~can_process_nonce(m, big)
    BY <1>5 DEF decrypt_impl
  <1>6. CASE can_process_nonce(m, big) /\ ~Opens(m, f)
    BY <1>4, <1>6 DEF decrypt_impl
  <1>7. CASE can_process_nonce(m, big) /\ Opens(m, f)
    <2>1. decrypt_impl(m, f) = report_cipher_success(c, g, big)
      BY <1>7 DEF decrypt_impl
    <2>2. g <= CleanUp(m).lifetime
      BY <1>7 DEF Opens, GetsCipher
    <2>3. CleanUp(m).lifetime = m.lifetime
      <3>1. CleanUp(m) = [m EXCEPT !.oldest = CleanUp(m).oldest]
        BY CleanUpKeeps
      <3> QED BY <1>1, <3>1 DEF CipherManager
    <2>4. m.lifetime \in Nat /\ m.lifetime < GENERATION_WRAP /\ GENERATION_WRAP \in Nat
      BY <1>1, FrameConstants DEF Sound, KeyInv, CipherManager
    <2>5. g <= m.lifetime /\ g < GENERATION_WRAP
      BY <1>2, <2>2, <2>3, <2>4
    <2>6. can_process_nonce(c, big)
      BY <1>4, <1>7 DEF can_process_nonce
    <2> HIDE DEF g, big, c
    <2> QED
      BY <1>2, <1>3, <1>4, <2>1, <2>5, <2>6, ReportKeeps
  <1> QED BY <1>5, <1>6, <1>7

-----------------------------------------------------------------------------
(* The steps.                                                              *)

\* A manager that was just made.
LEMMA NewManagerSound ==
  ASSUME NEW e \in Epochs
  PROVE  NewManager(e) \in Sound
  <1> DEFINE m == NewManager(e)
  <1>1. /\ GENERATION_WRAP \in Nat /\ GENERATION_WRAP > 0
        /\ NoncesPerGeneration \in Nat /\ NoncesPerGeneration > 0
    BY FrameConstants
  <1>2. Total \in Nat
    BY <1>1 DEF Total
  <1>3. m \in CipherManager
    BY DEF NewManager, CipherManager
  <1>4. /\ m.again = {} /\ m.newest_nonce = NoNonce /\ m.played = {} /\ m.missing = {}
        /\ m.oldest = 0 /\ m.newest = 0 /\ m.lifetime = 0 /\ m.ciphers = {}
    BY DEF NewManager
  <1> HIDE DEF m
  <1>5. Window(m) = {}
    BY <1>4 DEF Window
  <1>6. CursorInv(m)
    BY <1>2, <1>4, <1>5 DEF CursorInv, NoNonce
  <1>7. KeyInv(m)
    BY <1>1, <1>4 DEF KeyInv
  <1> QED
    BY <1>3, <1>6, <1>7 DEF Sound, m

\* Changing the flags, the ciphers downwards or the lifetime within its bound
\* keeps a manager sound.
LEMMA AgeingKeeps ==
  ASSUME NEW m \in Sound, NEW c \in SUBSET m.ciphers, NEW a \in SUBSET Nat,
         NEW l \in Nat, m.lifetime <= l, l < GENERATION_WRAP, NEW b \in BOOLEAN
  PROVE  [m EXCEPT !.ciphers = c, !.aging = a, !.lifetime = l, !.dying = b] \in Sound
  <1> DEFINE d == [m EXCEPT !.ciphers = c, !.aging = a, !.lifetime = l, !.dying = b]
  <1>1. m \in CipherManager /\ CursorInv(m) /\ KeyInv(m) /\ c \in SUBSET Nat
    BY DEF Sound, CipherManager
  <1>2. d \in CipherManager
    BY <1>1, Zenon DEF CipherManager
  <1>3. /\ d.again = m.again /\ d.newest_nonce = m.newest_nonce /\ d.played = m.played
        /\ d.missing = m.missing /\ d.oldest = m.oldest /\ d.newest = m.newest
        /\ d.lifetime = l /\ d.ciphers = c
    BY <1>1, Zenon DEF CipherManager
  <1> HIDE DEF d
  <1>4. CursorInv(d)
    BY <1>1, <1>3 DEF CursorInv, Window
  <1>5. KeyInv(d)
    <2>1. m.lifetime \in Nat /\ m.ciphers \subseteq Nat
      BY <1>1 DEF CipherManager
    <2>2. \A g \in c : /\ g \in Nat /\ m.oldest <= g /\ g <= m.lifetime
                      /\ g <= m.newest + MAX_GENERATION_GAP
      BY <1>1, <2>1 DEF KeyInv
    <2>3. \A g \in c : g <= l
      BY <2>1, <2>2
    <2>4. m.oldest <= m.newest
      BY <1>1 DEF KeyInv
    <2> QED
      BY <1>3, <2>2, <2>3, <2>4, Zenon DEF KeyInv
  <1> QED
    BY <1>2, <1>4, <1>5 DEF Sound, d

\* One of the managers is replaced by a sound one.
LEMMA ReplaceOne ==
  ASSUME NEW s \in Seq(Sound), NEW i \in DOMAIN s, NEW d \in Sound
  PROVE  [s EXCEPT ![i] = d] \in Seq(Sound)
  OBVIOUS

\* The bound on frames keeps generations below the wrap.
LEMMA LastGeneration ==
  ASSUME NEW e \in Epochs
  PROVE  Generation(MaxNonce[e]) \in Nat /\ Generation(MaxNonce[e]) < GENERATION_WRAP
  <1> DEFINE n == MaxNonce[e]
             q == Generation(n)
  <1>1. /\ GENERATION_WRAP \in Nat /\ NoncesPerGeneration \in Nat
        /\ NoncesPerGeneration > 0 /\ n \in 0..(NoncesPerGeneration * GENERATION_WRAP - 1)
    BY FrameConstants
  <1>2. NoncesPerGeneration * GENERATION_WRAP \in Nat
    BY <1>1
  <1>3. n \in Nat /\ n < NoncesPerGeneration * GENERATION_WRAP
    BY <1>1, <1>2
  <1>4. /\ q \in Nat /\ n % NoncesPerGeneration >= 0 /\ n % NoncesPerGeneration \in Int
        /\ n = NoncesPerGeneration * q + (n % NoncesPerGeneration)
    <2> HIDE DEF n
    <2>1. /\ q \in Nat /\ n % NoncesPerGeneration \in 0..(NoncesPerGeneration - 1)
          /\ n = NoncesPerGeneration * q + (n % NoncesPerGeneration)
      BY <1>3, NonceParts
    <2> HIDE DEF q
    <2> QED BY <1>1, <2>1
  <1> HIDE DEF n, q
  <1>5. ASSUME q >= GENERATION_WRAP PROVE FALSE
    <2>1. PICK d \in Nat : q = GENERATION_WRAP + d
      <3>1. q - GENERATION_WRAP \in Nat /\ q = GENERATION_WRAP + (q - GENERATION_WRAP)
        BY <1>1, <1>4, <1>5
      <3> QED BY <3>1
    <2>2. NoncesPerGeneration * q
            = NoncesPerGeneration * GENERATION_WRAP + NoncesPerGeneration * d
      BY <1>1, <2>1
    <2>3. NoncesPerGeneration * d \in Nat
      BY <1>1
    <2> QED
      BY <1>2, <1>3, <1>4, <2>2, <2>3
  <1> QED
    BY <1>1, <1>4, <1>5 DEF n, q

\* Every step keeps the managers sound.
LEMMA FrameStep ==
  ASSUME FInv, [FNext]_fvars
  PROVE  FInv'
  <1>1. /\ m_ratchet \in Epochs /\ m_truncated_nonce \in Nat
        /\ network \subseteq Frame /\ m_managers \in Seq(Sound)
    BY DEF FInv
  <1>2. \A i \in DOMAIN m_managers : m_managers[i] \in Sound
    BY <1>1
  <1>3. CASE Encrypt
    <2>1. m_truncated_nonce' \in Nat
      BY <1>1, <1>3 DEF Encrypt
    <2> QED
      BY <1>1, <1>3, <2>1 DEF Encrypt, FInv, Frame
  <1>4. ASSUME NEW e \in Epochs, SetKeyRatchet(e) PROVE FInv'
    BY <1>1, <1>4 DEF SetKeyRatchet, FInv
  <1>5. ASSUME NEW e \in Epochs, TransitionToKeyRatchet(e) PROVE FInv'
    <2> DEFINE s == [i \in DOMAIN m_managers |-> [m_managers[i] EXCEPT !.dying = TRUE]]
    <2>1. ASSUME NEW i \in DOMAIN m_managers PROVE [m_managers[i] EXCEPT !.dying = TRUE] \in Sound
      <3> DEFINE m == m_managers[i]
      <3>1. m \in Sound /\ m \in CipherManager /\ KeyInv(m)
        BY <1>2 DEF Sound
      <3>2. m.ciphers \in SUBSET m.ciphers /\ m.aging \in SUBSET Nat /\ m.lifetime \in Nat
            /\ m.lifetime < GENERATION_WRAP
        BY <3>1 DEF CipherManager, KeyInv
      <3>3. m.lifetime <= m.lifetime
        BY <3>2
      <3> HIDE DEF m
      <3>4. [m EXCEPT !.ciphers = m.ciphers, !.aging = m.aging, !.lifetime = m.lifetime,
                      !.dying = TRUE] \in Sound
        BY <3>1, <3>2, <3>3, AgeingKeeps
      <3>5. [m EXCEPT !.ciphers = m.ciphers, !.aging = m.aging, !.lifetime = m.lifetime,
                      !.dying = TRUE] = [m EXCEPT !.dying = TRUE]
        BY <3>1, Zenon DEF CipherManager
      <3> QED
        BY <3>4, <3>5 DEF m
    <2>2. s \in Seq(Sound)
      <3>1. DOMAIN m_managers = 1..Len(m_managers) /\ Len(m_managers) \in Nat
        BY <1>1
      <3> QED BY <2>1, <3>1
    <2>3. m_managers' = Append(s, NewManager(e))
      BY <1>5 DEF TransitionToKeyRatchet
    <2> HIDE DEF s
    <2>4. m_managers' \in Seq(Sound)
      BY <2>2, <2>3, NewManagerSound
    <2> QED
      BY <1>1, <1>5, <2>4 DEF TransitionToKeyRatchet, FInv
  <1>6. ASSUME NEW e \in Epochs, InstallDecryptor(e) PROVE FInv'
    <2>1. m_managers' \in Seq(Sound)
      BY <1>6, NewManagerSound DEF InstallDecryptor
    <2> QED
      BY <1>1, <1>6, <2>1 DEF InstallDecryptor, FInv
  <1>7. ASSUME NEW f \in network, Deliver(f) PROVE FInv'
    <2> DEFINE D(i) == IF \E j \in DOMAIN m_managers : j > i /\ Opens(m_managers[j], f)
                       THEN m_managers[i] ELSE decrypt_impl(m_managers[i], f)
    <2>1. \A i \in DOMAIN m_managers : D(i) \in Sound
      BY <1>1, <1>2, <1>7, DecryptKeeps
    <2>2. m_managers' = [i \in DOMAIN m_managers |-> D(i)]
      BY <1>7 DEF Deliver
    <2> HIDE DEF D
    <2>3. m_managers' \in Seq(Sound)
      <3>1. DOMAIN m_managers = 1..Len(m_managers) /\ Len(m_managers) \in Nat
        BY <1>1
      <3> QED BY <2>1, <2>2, <3>1
    <2> QED
      BY <1>1, <1>7, <2>3 DEF Deliver, FInv
  <1>8. CASE ManagerExpires
    <2>1. m_managers' \in Seq(Sound)
      BY <1>1, <1>8 DEF ManagerExpires
    <2> QED
      BY <1>1, <1>8, <2>1 DEF ManagerExpires, FInv
  <1>9. ASSUME NEW i \in DOMAIN m_managers, NEW g, Expire(i, g) PROVE FInv'
    <2> DEFINE m == m_managers[i]
               d == [m EXCEPT !.ciphers = m.ciphers \ {g}, !.aging = m.aging \ {g},
                              !.lifetime = m.lifetime, !.dying = m.dying]
    <2>1. m \in Sound /\ m \in CipherManager /\ KeyInv(m)
      BY <1>2 DEF Sound
    <2>2. /\ m.ciphers \ {g} \in SUBSET m.ciphers /\ m.aging \ {g} \in SUBSET Nat
          /\ m.lifetime \in Nat /\ m.lifetime < GENERATION_WRAP /\ m.dying \in BOOLEAN
      BY <2>1 DEF CipherManager, KeyInv
    <2>3. m.lifetime <= m.lifetime
      BY <2>2
    <2> HIDE DEF m
    <2>4. d \in Sound
      BY <2>1, <2>2, <2>3, AgeingKeeps
    <2>5. d = [m EXCEPT !.ciphers = m.ciphers \ {g}, !.aging = m.aging \ {g}]
      BY <2>1, Zenon DEF CipherManager
    <2>6. m_managers' = [m_managers EXCEPT ![i] = d]
      BY <1>9, <2>5 DEF Expire, m
    <2> HIDE DEF d
    <2>7. m_managers' \in Seq(Sound)
      BY <1>1, <2>4, <2>6, ReplaceOne
    <2> QED
      BY <1>1, <1>9, <2>7 DEF Expire, FInv
  <1>10. ASSUME NEW i \in DOMAIN m_managers, Lives(i) PROVE FInv'
    <2> DEFINE m == m_managers[i]
               l == m.lifetime + 1
               d == [m EXCEPT !.ciphers = m.ciphers, !.aging = m.aging,
                              !.lifetime = l, !.dying = m.dying]
    <2>1. m \in Sound /\ m \in CipherManager /\ m.epoch \in Epochs
      BY <1>2 DEF Sound, CipherManager
    <2>2. /\ m.ciphers \in SUBSET m.ciphers /\ m.aging \in SUBSET Nat
          /\ m.lifetime \in Nat /\ m.dying \in BOOLEAN
      BY <2>1 DEF CipherManager
    <2>3. m.lifetime < Generation(MaxNonce[m.epoch])
      BY <1>10 DEF Lives
    <2>4. GENERATION_WRAP \in Nat
      BY FrameConstants
    <2> HIDE DEF m
    <2>5. l \in Nat /\ m.lifetime <= l /\ l < GENERATION_WRAP
      BY <2>1, <2>2, <2>3, <2>4, LastGeneration
    <2>6. m_managers' = [m_managers EXCEPT ![i] = [m EXCEPT !.lifetime = l]]
      BY <1>10 DEF Lives, m
    <2> HIDE DEF l
    <2>7. d \in Sound
      BY <2>1, <2>2, <2>5, AgeingKeeps
    <2>8. d = [m EXCEPT !.lifetime = l]
      BY <2>1, Zenon DEF CipherManager
    <2> HIDE DEF d
    <2>9. m_managers' \in Seq(Sound)
      BY <1>1, <2>6, <2>7, <2>8, ReplaceOne
    <2> QED
      BY <1>1, <1>10, <2>9 DEF Lives, FInv
  <1>11. CASE UNCHANGED fvars
    BY <1>1, <1>11 DEF fvars, FInv
  <1> QED
    BY <1>3, <1>4, <1>5, <1>6, <1>7, <1>8, <1>9, <1>10, <1>11 DEF FNext

\* What the window promises a late frame.
LEMMA MissingOpens ==
  ASSUME NEW m \in Sound, NEW n \in m.missing, Generation(n) \in m.ciphers
  PROVE  Opens(m, [epoch |-> m.epoch, nonce |-> n])
  <1> DEFINE f == [epoch |-> m.epoch, nonce |-> n]
             g == Generation(n)
             c == CleanUp(m)
  <1>1. m \in CipherManager /\ CursorInv(m) /\ KeyInv(m) /\ n \in Nat /\ m.oldest \in Nat
    BY DEF Sound, CipherManager
  <1>2. /\ g \in Nat /\ m.oldest <= g /\ g <= m.lifetime /\ m.lifetime < GENERATION_WRAP
        /\ g <= m.newest + MAX_GENERATION_GAP /\ m.lifetime \in Nat /\ GENERATION_WRAP \in Nat
    BY <1>1, NonceParts, FrameConstants DEF KeyInv, CipherManager
  <1>3. GenerationFor(m, f) = g
    <2>1. GenerationFor(m, f) = compute_wrapped_generation(m, g)
      BY DEF GenerationFor
    <2>2. g < GENERATION_WRAP
      BY <1>2
    <2> HIDE DEF g
    <2> QED
      BY <1>1, <1>2, <2>1, <2>2, WrappedGeneration
  <1>4. BigNonceFor(m, f) = n
    <2>1. BigNonceFor(m, f) = g * NoncesPerGeneration + (n % NoncesPerGeneration)
      BY <1>3 DEF BigNonceFor, compute_wrapped_big_nonce
    <2>2. n = NoncesPerGeneration * g + (n % NoncesPerGeneration)
      BY <1>1, NonceParts
    <2>3. NoncesPerGeneration * g = g * NoncesPerGeneration
      BY <1>2, FrameConstants
    <2> QED
      BY <2>1, <2>2, <2>3, Zenon
  <1>5. can_process_nonce(m, n)
    BY DEF can_process_nonce
  <1>6. /\ c.oldest <= g /\ c.newest = m.newest /\ c.lifetime = m.lifetime
        /\ c.ciphers = m.ciphers
    <2>1. c.oldest <= g /\ c = [m EXCEPT !.oldest = c.oldest]
      BY CleanUpKeeps
    <2> HIDE DEF c
    <2> QED BY <1>1, <2>1 DEF CipherManager
  <1>7. GetsCipher(c, g)
    <2>1. c.oldest \in Nat
      BY <1>1, CleanUpKeeps DEF Sound, CipherManager
    <2> HIDE DEF c, g
    <2> QED
      BY <1>2, <1>6, <2>1 DEF GetsCipher, g
  <1> QED
    BY <1>3, <1>4, <1>5, <1>7 DEF Opens

LEMMA FrameInit ==
  FInit => FInv
  BY DEF FInit, FInv

\* The inductive invariant: every manager of every reachable state is sound.
THEOREM FramesInductive == FSpec => []FInv
  BY FrameInit, FrameStep, PTL DEF FSpec

\* FInv says what the property does.
LEMMA FramesFollow ==
  FInv => ReplayWindow
  <1> SUFFICES ASSUME FInv, NEW i \in DOMAIN m_managers
               PROVE  LET m == m_managers[i] IN
                      /\ m.again = {}
                      /\ m.missing = Window(m) \ m.played
                      /\ \A n \in m.missing :
                           Generation(n) \in m.ciphers
                             => Opens(m, [epoch |-> m.epoch, nonce |-> n])
    BY Zenon DEF ReplayWindow
  <1>1. m_managers[i] \in Sound
    BY DEF FInv
  <1>2. CursorInv(m_managers[i])
    BY <1>1 DEF Sound
  <1> QED
    BY <1>1, <1>2, MissingOpens, Zenon DEF CursorInv

\* A frame is opened once, however often the network delivers it, and a late
\* one still opens while it is in the window and its key is kept.
THEOREM NoReplay == FSpec => []ReplayWindow
  BY FramesFollow, FramesInductive, PTL

-----------------------------------------------------------------------------
(* The four formats together.                                              *)

\* A packet is what the peer built, then its payload; a frame is what encrypt
\* writes of it, then what parse_frame makes of that.
PInv ==
  /\ stage \in {"new", "written", "read", "refused", "thrown", "overrun"}
  /\ IsPacket =>
       /\ media.packet \in Packets
       /\ stage = "written" => transmitted = RtpPacket(media.packet)
       /\ stage = "read" =>
            transmitted.delivered = IF IsOpus(media.packet) THEN <<media.packet.payload>> ELSE <<>>
  /\ ~IsPacket =>
       /\ media.frame \in MediaFrames /\ media.nonce \in Nonces
       /\ stage = "written" => transmitted = encrypt(media.frame, media.nonce)
       /\ stage = "read" => transmitted = parse_frame(encrypt(media.frame, media.nonce))

WireInv ==
  /\ IF format = "document" THEN DInv ELSE phase = "none"
  /\ IF format = "request" THEN RInv ELSE status = "none" /\ result = "none"
  /\ IF format = "media" THEN PInv ELSE stage = "none"
  /\ IF format = "nonces" THEN FInv ELSE m_managers = <<>>

LEMMA MediaInit ==
  LInit => PInv
  <1> SUFFICES ASSUME LInit PROVE PInv
    OBVIOUS
  <1>1. CASE media \in [packet : Packets]
    <2>1. media.packet \in Packets /\ DOMAIN media = {"packet"}
      BY <1>1
    <2> QED BY <2>1 DEF LInit, PInv, IsPacket
  <1>2. CASE media \in [frame : MediaFrames, nonce : Nonces]
    <2>1. media.frame \in MediaFrames /\ media.nonce \in Nonces /\ DOMAIN media = {"frame", "nonce"}
      BY <1>2
    <2> QED BY <2>1 DEF LInit, PInv, IsPacket
  <1> QED BY <1>1, <1>2 DEF LInit

LEMMA MediaStep ==
  PInv /\ [LNext]_layoutvars => PInv'
  <1> SUFFICES ASSUME PInv, [LNext]_layoutvars PROVE PInv'
    OBVIOUS
  <1> DEFINE p == media.packet
  <1>1. media' = media
    BY DEF LNext, WriteMedia, ReadMedia, layoutvars
  <1>2. IsPacket' = IsPacket
    BY <1>1 DEF IsPacket
  <1>3. CASE WriteMedia
    <2>1. Outcome(media.frame, media.nonce) \in {"thrown", "refused", "overrun", "written"}
      BY Zenon DEF Outcome
    <2>2. stage' # "new" /\ stage' # "read"
      BY <1>3, <2>1 DEF WriteMedia
    <2> QED BY <1>1, <1>2, <1>3, <2>1, <2>2 DEF WriteMedia, PInv
  <1>4. CASE ReadMedia /\ IsPacket
    <2>1. /\ transmitted = RtpPacket(p)
          /\ transmitted'.delivered = media_payload(transmitted) /\ stage' = "read"
          /\ p \in Packets
      BY <1>4 DEF ReadMedia, PInv
    <2>2. media_payload(RtpPacket(p)) = IF IsOpus(p) THEN <<p.payload>> ELSE <<>>
      BY <2>1, PayloadFound
    <2> QED BY <1>1, <1>2, <1>4, <2>1, <2>2 DEF PInv
  <1>5. CASE ReadMedia /\ ~IsPacket
    <2>1. /\ transmitted = encrypt(media.frame, media.nonce)
          /\ transmitted' = parse_frame(transmitted) /\ stage' = "read"
          /\ media.frame \in MediaFrames /\ media.nonce \in Nonces
      BY <1>5 DEF ReadMedia, PInv
    <2> QED BY <1>1, <1>2, <1>5, <2>1 DEF PInv
  <1>6. CASE UNCHANGED layoutvars
    BY <1>2, <1>6 DEF layoutvars, PInv
  <1> QED BY <1>3, <1>4, <1>5, <1>6 DEF LNext

\* The invariant gives both of FrameLayout's properties.
LEMMA MediaFollow ==
  PInv => PacketsReadBack /\ FramesReadBack
  <1> SUFFICES ASSUME PInv PROVE PacketsReadBack /\ FramesReadBack
    OBVIOUS
  <1>1. PacketsReadBack
    BY DEF PInv, PacketsReadBack, IsOpus
  <1>2. FramesReadBack
    <2> SUFFICES ASSUME stage = "read", ~IsPacket, Fits(media.frame, media.nonce)
                 PROVE  IsFrameRead(media.frame, media.nonce, transmitted)
      BY Zenon DEF FramesReadBack, IsFrameRead
    <2>1. /\ transmitted = parse_frame(encrypt(media.frame, media.nonce))
          /\ media.frame \in MediaFrames /\ media.nonce \in Nonces
      BY DEF PInv
    <2>2. IsFrameRead(media.frame, media.nonce, parse_frame(encrypt(media.frame, media.nonce)))
      BY <2>1, FrameReadsBack
    <2> QED BY <2>1, <2>2
  <1> QED BY <1>1, <1>2

\* In every behaviour the format that is exercised keeps its invariant, and the
\* others are not touched.
THEOREM WireInductive == WireSpec => []WireInv
  <1>1. WireInit => WireInv
    <2>1. NoDocuments => phase = "none"
      BY DEF NoDocuments
    <2>2. NoRequests => status = "none" /\ result = "none"
      BY DEF NoRequests
    <2>3. NoMedia => stage = "none"
      BY DEF NoMedia
    <2>4. NoFrames => m_managers = <<>>
      BY DEF NoFrames
    <2> QED BY <2>1, <2>2, <2>3, <2>4, DocumentInit, RequestInit, MediaInit, FrameInit
            DEF WireInit, WireInv
  <1>2. WireInv /\ [WireNext]_wirevars => WireInv'
    <2> SUFFICES ASSUME WireInv, [WireNext]_wirevars PROVE WireInv'
      OBVIOUS
    <2>1. format' = format
      BY DEF WireNext, wirevars
    <2>2. format = "document" => [DNext]_docvars
      BY DEF WireNext, wirevars
    <2>3. format # "document" => UNCHANGED docvars
      BY DEF WireNext, wirevars
    <2>4. format = "request" => [RNext]_reqvars
      BY DEF WireNext, wirevars
    <2>5. format # "request" => UNCHANGED reqvars
      BY DEF WireNext, wirevars
    <2>6. format = "media" => [LNext]_layoutvars
      BY DEF WireNext, wirevars
    <2>7. format # "media" => UNCHANGED layoutvars
      BY DEF WireNext, wirevars
    <2>8. format = "nonces" => [FNext]_fvars
      BY DEF WireNext, wirevars
    <2>9. format # "nonces" => UNCHANGED fvars
      BY DEF WireNext, wirevars
    <2>10. IF format' = "document" THEN DInv' ELSE phase' = "none"
      BY <2>1, <2>2, <2>3, DocumentStep DEF WireInv, docvars
    <2>11. IF format' = "request" THEN RInv' ELSE status' = "none" /\ result' = "none"
      BY <2>1, <2>4, <2>5, RequestStep DEF WireInv, reqvars
    <2>12. IF format' = "media" THEN PInv' ELSE stage' = "none"
      BY <2>1, <2>6, <2>7, MediaStep DEF WireInv, layoutvars
    <2>13. IF format' = "nonces" THEN FInv' ELSE m_managers' = <<>>
      BY <2>1, <2>8, <2>9, FrameStep DEF WireInv, fvars
    <2> QED BY <2>10, <2>11, <2>12, <2>13 DEF WireInv
  <1> QED BY <1>1, <1>2, PTL DEF WireSpec

\* What is proved of everything the library writes for a peer: objects, variants,
\* packets and frames are read back, a request says what was set, and no frame is
\* read twice.
WireProved ==
  /\ DocumentsReadBack /\ VariantsReadBack
  /\ PacketsReadBack /\ FramesReadBack
  /\ RequestSaysWhatWasSet /\ ReplayWindow

\* The library's formats are sound in every behaviour.
THEOREM WireReadsBack == WireSpec => []WireProved
  <1>1. WireInv => WireProved
    <2> SUFFICES ASSUME WireInv PROVE WireProved
      OBVIOUS
    <2>1. DocumentsReadBack /\ VariantsReadBack
      BY DocumentsFollow, VariantsFollow DEF WireInv, DocumentsReadBack, VariantsReadBack
    <2>2. PacketsReadBack /\ FramesReadBack
      <3>1. CASE format = "media"
        BY <3>1, MediaFollow DEF WireInv
      <3>2. CASE format # "media"
        BY <3>2 DEF WireInv, PacketsReadBack, FramesReadBack
      <3> QED BY <3>1, <3>2
    <2>3. RequestSaysWhatWasSet
      BY RequestsFollow DEF WireInv, RequestSaysWhatWasSet
    <2>4. ReplayWindow
      BY FramesFollow DEF WireInv, ReplayWindow
    <2> QED BY <2>1, <2>2, <2>3, <2>4 DEF WireProved
  <1> QED BY <1>1, WireInductive, PTL
=============================================================================
