----------------------------- MODULE JsonCodec -----------------------------
(***************************************************************************)
(* json_util: how one structure is written to and read from JSON.          *)
(*                                                                         *)
(* A structure is a function from field names to the kind of their C++     *)
(* type.  A document is a function from the keys that are present to JSON  *)
(* values: Null, or a value in one of the forms JSON has for it.  What the *)
(* values are does not matter; nested objects are values of the form "own".*)
(***************************************************************************)
EXTENDS Integers

Null == [form |-> "null", value |-> "null"]
Json(form, value) == [form |-> form, value |-> value]
Unset == <<"unset">>        \* std::nullopt
Default == <<"default">>    \* a value-initialised field
Empty == <<"empty">>        \* a nested object none of whose fields is set
Filler == <<"filler">>      \* text the writer puts in place of a missing one
Huge == <<"huge">>          \* a number the field's type does not hold,
Narrowed == <<"narrowed">>  \* and what is left of it in that type
NoNumber == <<"no number">> \* text that is no number
Renewed == <<"renewed">>    \* new nested responses, as many as were sent
-----------------------------------------------------------------------------
(* Kinds: the form the writer uses, the forms a peer uses, the forms the   *)
(* reader takes over, the forms it throws at; any other form is ignored.   *)

Kind(form, wire, reads) ==
  [form |-> form, wire |-> wire, reads |-> reads, throws |-> {},
   optional |-> FALSE, sparse |-> FALSE, integral |-> FALSE, signed |-> FALSE,
   loses |-> FALSE]

\* Snowflake and Permissions: written as a string, read from both forms.
Id == Kind("string", {"string", "number"}, {"string", "number"})

\* The unsigned integers, bool and int: read from text by deserialize_int.
Integral(form) == [Kind(form, {form, "string"}, {form, "string"}) EXCEPT !.integral = TRUE]
Num == Integral("number")
Flag == Integral("boolean")
Signed == [Num EXCEPT !.signed = TRUE]

\* Everything else: strings, enumerations, lists and nested structures.
Val == Kind("own", {"own"}, {"own"})

\* Nested responses of an interaction: each case of their reader assigns what
\* it read to a local of the same name, and the response stays a new one.
Interactive == [Val EXCEPT !.loses = TRUE]

\* A nested structure that may have no field set: to_json then leaves the
\* value it was given, null.
Sparse == [Val EXCEPT !.sparse = TRUE]

\* std::unordered_map<Snowflake, T>: written as a list of pairs, since the key
\* is no string, and read from an object only.
Map == Kind("pairs", {"object"}, {"object"})

\* variant<string, int64, double>: the reader visits the alternative a new
\* variant holds, the string, and throws at a number.
Choice == [Kind("string", {"string", "number"}, {"string"}) EXCEPT !.throws = {"number"}]

\* std::optional.  deserialize_int has no branch for an optional integer, so
\* its string form is ignored.
Opt(kind) ==
  [kind EXCEPT !.optional = TRUE,
               !.reads = IF kind.integral THEN @ \ {"string"} ELSE @]
-----------------------------------------------------------------------------
(* Codecs.                                                                 *)

Same(fields) == [f \in DOMAIN fields |-> f]
Except(f, S) == [x \in DOMAIN f \ S |-> f[x]]
Keyed(f, key, field) ==
  [k \in ((DOMAIN f \ {field}) \union {key}) |-> IF k = key THEN field ELSE f[k]]

\* to_json and from_json of a structure that serialize and deserialize every
\* field under its own name.  writes and reads map keys to fields; omits are
\* the fields left out while they are false or empty, fills the ones to_json
\* writes a text for when unset, nulls the ones it writes null for, kept the keys
\* raw keeps, needs the key a field's reader asks for besides its own; type is
\* the constant to_json writes as "type" (0: none).
Codec(fields) ==
  [fields |-> fields, writes |-> Same(fields), reads |-> Same(fields),
   omits |-> {}, fills |-> {}, nulls |-> {}, kept |-> {},
   needs |-> [f \in {} |-> "key"], type |-> 0, raw |-> FALSE]

\* to_json only: the reader is the server, which takes every key it is sent.
WriteOnly(fields) == Codec(fields)

\* A message component: to_json starts from the raw object from_json kept.
Raw(fields) == [Codec(fields) EXCEPT !.raw = TRUE]
Component(fields, type) == [Raw(fields) EXCEPT !.type = type]

\* A component response: to_json starts from {} and the type.
Response(fields, type) == [Codec(fields) EXCEPT !.type = type]

NotWritten(codec, S) == [codec EXCEPT !.writes = Except(@, S)]
NotRead(codec, S) == [codec EXCEPT !.reads = Except(@, S)]
NotInJson(codec, S) == NotRead(NotWritten(codec, S), S)
Renamed(codec, key, field) ==
  [codec EXCEPT !.writes = Keyed(@, key, field), !.reads = Keyed(@, key, field)]
-----------------------------------------------------------------------------
NoDocument == [k \in {} |-> Null]

\* A structure before from_json, and one a program makes itself.
Fresh(codec) ==
  [fields |-> [f \in DOMAIN codec.fields |->
                 IF codec.fields[f].optional THEN Unset ELSE Default],
   raw |-> NoDocument]

\* nlohmann's exception.
Thrown == [thrown |-> TRUE]

not_null_all(doc, key) == key \in DOMAIN doc /\ doc[key] # Null

\* Whether the reader takes a value over.  deserialize_int leaves the field as it
\* was when stoi, for an int, or stoull throws.
Takes(kind, json) ==
  /\ json.form \in kind.reads
  /\ kind.integral /\ json.form = "string" =>
       json.value # NoNumber /\ (kind.signed => json.value # Huge)

\* What it makes of it: stoull's result and nlohmann's number are cast.
Taken(kind, json) ==
  IF kind.loses THEN Renewed ELSE IF json.value = Huge THEN Narrowed ELSE json.value

\* deserialize of one field.
deserialize(codec, doc, field) ==
  LET kind == codec.fields[field]
      keys == {k \in DOMAIN codec.reads : codec.reads[k] = field
                 /\ not_null_all(doc, k) /\ Takes(kind, doc[k])
                 /\ (field \in DOMAIN codec.needs => not_null_all(doc, codec.needs[field]))}
  IN IF keys = {} THEN Fresh(codec).fields[field]
     ELSE Taken(kind, doc[CHOOSE k \in keys : TRUE])

from_json(codec, doc) ==
  IF \E k \in DOMAIN codec.reads \intersect DOMAIN doc :
       doc[k].form \in codec.fields[codec.reads[k]].throws
  THEN Thrown
  ELSE [fields |-> [f \in DOMAIN codec.fields |-> deserialize(codec, doc, f)],
        raw |-> IF codec.raw THEN doc ELSE NoDocument]

\* Mutant: numbers are written as text, the way identifiers are.
SerializeNumbersAsText(codec, object, key) ==
  LET field == codec.writes[key]  value == object.fields[field] IN
  IF value = Unset THEN {}
  ELSE {Json(IF codec.fields[field].form = "number" THEN "string"
             ELSE codec.fields[field].form, value)}

\* serialize of one field: the values to write, none for an optional that is
\* not set.
serialize(codec, object, key) ==
  LET field == codec.writes[key]  value == object.fields[field] IN
  IF key \in codec.kept /\ key \in DOMAIN object.raw THEN {}
  ELSE IF value = Unset
  THEN IF field \in codec.fills THEN {Json("own", Filler)}
       ELSE IF field \in codec.nulls THEN {Null} ELSE {}
  ELSE IF value = Default /\ field \in codec.omits THEN {}
  ELSE IF value = Empty \/ (value = Default /\ codec.fields[field].sparse) THEN {Null}
  ELSE {Json(codec.fields[field].form, value)}

to_json(codec, object) ==
  LET written == {k \in DOMAIN codec.writes : serialize(codec, object, k) # {}}
      typed == IF codec.type = 0 THEN {} ELSE {"type"}
      start == IF codec.raw THEN object.raw ELSE NoDocument
  IN [k \in DOMAIN start \union written \union typed |->
        IF k \in typed THEN Json("number", <<"type", codec.type>>)
        ELSE IF k \in written THEN CHOOSE v \in serialize(codec, object, k) : TRUE
        ELSE start[k]]
=============================================================================
