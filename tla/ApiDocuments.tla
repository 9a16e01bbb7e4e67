---------------------------- MODULE ApiDocuments ----------------------------
(***************************************************************************)
(* The life of one API object: a document arrives, is read, perhaps edited *)
(* by the program, and sent, to be read by a peer.  One behaviour follows  *)
(* one structure, variant or named value; the interesting field is in      *)
(* focus and takes every value, the other keys are all there or all absent.*)
(***************************************************************************)
EXTENDS ModelCodecs

CONSTANT MaxTag     \* largest "type" a component, interaction or option has

ASSUME MaxTagIsNat == MaxTag \in Nat

VARIABLES subject, focus, document, object, sent, phase

docvars == <<subject, focus, document, object, sent, phase>>

Codec_ == Codecs[subject]
-----------------------------------------------------------------------------
Keys(codec, field) == {k \in DOMAIN codec.reads : codec.reads[k] = field}

\* A key no structure knows, and the type a component carries.
Around(codec) == {"unknown_key"} \union (IF codec.type = 0 THEN {} ELSE {"type"})

ValuesOf(codec, field) ==
  LET kind == codec.fields[field] IN
  {Json(form, <<field, 1>>) : form \in kind.wire} \union {Null}
    \union (IF kind.sparse /\ kind.optional THEN {Json("own", Empty)} ELSE {})
    \union (IF kind.integral THEN {Json("string", Huge), Json("string", NoNumber)} ELSE {})
    \union (IF kind.form = "number" THEN {Json("number", Huge)} ELSE {})

Canonical(codec, key) ==
  IF key \in DOMAIN codec.reads
  THEN Json(codec.fields[codec.reads[key]].form, <<codec.reads[key], 1>>)
  ELSE Json("own", <<key, 1>>)

\* Documents a server sends, by the value of the field in focus.
Documents(codec, field) ==
  LET all == DOMAIN codec.reads \union Around(codec)  mine == Keys(codec, field)
      Build(keys, v) == [k \in keys |-> IF k \in mine THEN v ELSE Canonical(codec, k)]
  IN {Build(mine, v) : v \in ValuesOf(codec, field)}
       \union {Build(all, v) : v \in ValuesOf(codec, field)}
       \union {Build(all \ mine, Null), NoDocument}

DInit ==
  /\ \/ /\ subject \in DOMAIN Codecs
        /\ focus \in DOMAIN Codec_.fields
        /\ document \in Documents(Codec_, focus)
     \/ subject \in DOMAIN Unions /\ focus = "variant" /\ document \in 1..MaxTag
     \/ /\ subject \in DOMAIN Names /\ focus = "name"
        /\ document \in DOMAIN Names[subject].cases \union {"a new name"}
  /\ object = NoDocument
  /\ sent = NoDocument
  /\ phase = "new"
-----------------------------------------------------------------------------
\* j.get<T>() of a structure; an empty document also stands for an object the
\* program makes itself.
Receive ==
  /\ phase = "new" /\ subject \in DOMAIN Codecs
  /\ object' = from_json(Codec_, document)
  /\ phase' = IF object' = Thrown THEN "failed" ELSE "held"
  /\ UNCHANGED <<subject, focus, document, sent>>

\* What a program may put into a field.
Settable(kind, field) ==
  {<<field, 2>>} \union (IF kind.optional THEN {Unset} ELSE {})
                 \union (IF kind.sparse /\ kind.optional THEN {Empty} ELSE {})

\* The program, or a builder's setter, changes the field.
Edit ==
  /\ phase = "held"
  /\ \E v \in Settable(Codec_.fields[focus], focus) :
       /\ document = NoDocument /\ subject \in DOMAIN Builders =>
            focus \in Builders[subject] /\ v # Unset
       /\ object' = [object EXCEPT !.fields[focus] = v]
  /\ phase' = "edited"
  /\ UNCHANGED <<subject, focus, document, sent>>

Send ==
  /\ phase \in {"held", "edited"}
  /\ sent' = to_json(Codec_, object)
  /\ phase' = "sent"
  /\ UNCHANGED <<subject, focus, document, object>>

\* A variant or a named value is read, and written as what was read.
PassOn ==
  /\ phase = "new" /\ subject \notin DOMAIN Codecs
  /\ object' = ReadAlternative(IF focus = "variant" THEN Unions[subject]
                               ELSE Names[subject], document)
  /\ sent' = IF focus = "variant" THEN WriteAlternative(object')
             ELSE [tag |-> object'.alternative, content |-> TRUE]
  /\ phase' = "sent"
  /\ UNCHANGED <<subject, focus, document>>

DNext == Receive \/ Edit \/ Send \/ PassOn

DSpec == DInit /\ [][DNext]_docvars
-----------------------------------------------------------------------------
(* What the codecs have in common.                                         *)

\* Fields the code knowingly or not leaves behind: members the JSON does not
\* carry, request fields that are never written or never read, the maps of
\* resolved objects, which are not written the way they are read, and the nested
\* responses of an interaction, which are read as new ones.
NotCarried ==
  [Guild |-> {"members"}, GuildCreate |-> {"members"}, User |-> {"global_name"},
   LabelResponse |-> {"component"}, ActionRowResponse |-> {"components"},
   Invite |-> {"target_type"}, Message |-> {"crossposted", "deleted"},
   MessageCreate |-> {"crossposted", "deleted"},
   CreateGuildFields |-> {"afk_channel_id", "afk_timeout", "system_channel_id",
                          "system_channel_flags"},
   CreateInviteFields |-> DOMAIN CreateInviteFields,
   ApplicationCommandOption |-> {"value", "channel_types", "min_value", "max_value",
                                 "min_length", "max_length"},
   ApplicationCommandCreateFields |->
     {"name_localizations", "description_localizations",
      "default_member_permissions", "integration_types", "contexts"},
   ApplicationCommand |->
     {"name_localizations", "description_localizations", "dm_permission",
      "default_permission", "integration_types", "contexts"},
   ApplicationCommandInteractionDataResolved |->
     DOMAIN ApplicationCommandInteractionDataResolved]

CarriedBy(name) ==
  DOMAIN Codecs[name].fields \ (IF name \in DOMAIN NotCarried THEN NotCarried[name] ELSE {})

\* to_json always writes a value under the key.
AlwaysWritten(codec, key) ==
  /\ key \in DOMAIN codec.writes \ codec.kept /\ (codec.type # 0 => key # "type")
  /\ codec.writes[key] \in DOMAIN codec.fields \ codec.omits
  /\ LET kind == codec.fields[codec.writes[key]]
     IN  ~kind.optional /\ ~kind.sparse /\ kind.form # "null"

\* The field is written under the key in a form its reader takes over, and read
\* from nowhere else; a raw object leaves its unset fields alone.
CarriedUnder(codec, field, key) ==
  /\ key \in DOMAIN codec.writes /\ codec.writes[key] = field
  /\ key \in DOMAIN codec.reads /\ \A k \in DOMAIN codec.reads : codec.reads[k] = field <=> k = key
  /\ LET kind == codec.fields[field] IN
     /\ kind.form # "null" /\ kind.form \in kind.reads /\ ~kind.loses
     /\ kind.integral => kind.form # "string"
  /\ field \in codec.fills => "own" \in codec.fields[field].reads
  /\ field \in codec.omits => ~codec.fields[field].optional
  /\ field \in DOMAIN codec.needs => AlwaysWritten(codec, codec.needs[field])
  /\ codec.raw => field \notin codec.fills \union codec.nulls \union codec.omits
  /\ codec.type # 0 => key # "type"
  /\ key \in codec.kept \/ field \in codec.kept => key = field /\ codec.raw

\* Nothing to_json writes makes from_json throw, and no key is one of the words
\* the model uses itself.
Regular(codec) ==
  /\ \A k \in DOMAIN codec.writes : codec.writes[k] \in DOMAIN codec.fields
  /\ \A k \in DOMAIN codec.reads :
       LET throws == codec.fields[codec.reads[k]].throws IN
       /\ codec.reads[k] \in DOMAIN codec.fields
       /\ {"own", "null"} \intersect throws = {}
       /\ k \in DOMAIN codec.writes => codec.fields[codec.writes[k]].form \notin throws
       /\ codec.type # 0 /\ k = "type" => "number" \notin throws
  /\ {"thrown", "unknown_key"} \intersect (DOMAIN codec.writes \union DOMAIN codec.reads) = {}
  /\ \A k, j \in DOMAIN codec.reads : codec.reads[k] = codec.reads[j] => k = j
  /\ codec.raw => DOMAIN codec.needs = {}

\* The forms a peer uses and the reader does not know: a number in the text of an
\* optional member, or of the type of an unknown component.
UnknownForm(codec, field, form) ==
  LET kind == codec.fields[field] IN
  kind.integral /\ form = "string" /\ (kind.optional \/ codec.kept # {})

\* Facts about the tables of ModelCodecs, which TLC evaluates: every codec is
\* regular and carries every field but the ones listed, its reader knows the forms
\* a peer uses, and only a choice throws.
ASSUME CodecsAreRegular ==
  \A name \in DOMAIN Codecs :
    /\ Regular(Codecs[name])
    /\ \A f \in CarriedBy(name) : \E k \in DOMAIN Codecs[name].writes :
         CarriedUnder(Codecs[name], f, k)
    /\ name # "ApplicationCommandOptionChoice" =>
         \A f \in DOMAIN Codecs[name].fields : Codecs[name].fields[f].throws = {}
    /\ \A f \in DOMAIN Codecs[name].fields : \A form \in Codecs[name].fields[f].wire :
         form \in Codecs[name].fields[f].reads \union Codecs[name].fields[f].throws
           \/ UnknownForm(Codecs[name], f, form)

\* The tags a variant without an alternative for the unknown has one for, and
\* the tags whose values come through; an interactive response never does.
KnownTags ==
  [ActionRowComponent |-> (2..8) \union {19}, Label_component |-> (3..8) \union {19},
   InteractiveComponentResponse |-> {}, InteractionData |-> 2..5]

Survives(name) == IF Unions[name].keeps THEN 1..MaxTag ELSE KnownTags[name]

\* Facts about the variants: none has the name of a structure, an alternative
\* writes no type but the one it is read for, and a named value is read for its
\* own name.
ASSUME VariantsAreRegular ==
  /\ DOMAIN Codecs \intersect (DOMAIN Unions \union DOMAIN Names) = {}
  /\ \A name \in DOMAIN Unions :
       LET cases == Unions[name].cases
           Type(a) == IF a \in DOMAIN Codecs THEN Codecs[a].type ELSE 0
       IN /\ \A a \in DOMAIN cases : \A tag \in cases[a] : Type(a) \in {0, tag}
          /\ Type(Unions[name].otherwise) = 0 \/ ~Unions[name].keeps
          /\ ~Unions[name].keeps =>
               \A tag \in KnownTags[name] : \E a \in DOMAIN cases : tag \in cases[a]
  /\ \A name \in DOMAIN Names : \A a \in DOMAIN Names[name].cases : Names[name].cases[a] = {a}
-----------------------------------------------------------------------------
(* Properties.                                                             *)

Carried == CarriedBy(subject)

\* The value of a field the peer must find: an unset member of a component,
\* and the type of an unknown one, is what the raw object still holds; an
\* object without members is null.
Meant(codec, field) ==
  LET value == object.fields[field] IN
  IF \/ value = Unset /\ codec.raw
     \/ field \in codec.kept \intersect DOMAIN object.raw
  THEN deserialize(codec, object.raw, field)
  ELSE IF value = Unset /\ field \in codec.fills THEN Filler
  ELSE IF value = Empty THEN Unset ELSE value

\* The value under a key of the document is one the field can hold: it is there
\* in a form a peer uses, and its number fits the field's type.
Holdable(codec, doc, key) ==
  LET field == codec.reads[key] IN
  /\ not_null_all(doc, key) /\ doc[key].form \in codec.fields[field].wire
  /\ doc[key].value \notin {Huge, NoNumber}
  /\ field \in DOMAIN codec.needs => not_null_all(doc, codec.needs[field])

\* The object that was read holds what the document says.
HoldsDocument(codec) ==
  \A k \in DOMAIN codec.reads :
    LET f == codec.reads[k] IN
    Holdable(codec, document, k) /\ ~UnknownForm(codec, f, document[k].form)
      /\ ~codec.fields[f].loses => object.fields[f] = document[k].value

\* The peer, which read the object that was sent, finds what was meant.
Finds(peer, codec) ==
  /\ \A f \in Carried : peer.fields[f] = Meant(codec, f)
  /\ codec.raw /\ "unknown_key" \in DOMAIN document =>
       "unknown_key" \in DOMAIN sent
       /\ sent["unknown_key"] = document["unknown_key"]

\* What a document says is what the program holds when it has read it, in
\* whichever form a peer writes it (excused: UnknownForm, nested responses,
\* which are lost, and numbers the field's type does not hold); and what a
\* program holds when it sends an object is what the peer reads, whatever
\* document the object came from and however it was edited (excused: the fields
\* in NotCarried).  Only a choice with a number cannot be read.
DocumentsReadBack ==
  /\ phase = "failed" => subject = "ApplicationCommandOptionChoice"
  /\ phase = "held" /\ subject \in DOMAIN Codecs => HoldsDocument(Codec_)
  /\ phase = "sent" /\ subject \in DOMAIN Codecs => Finds(from_json(Codec_, sent), Codec_)

\* A component, a response, the data of an interaction, an option's value or a
\* named value that is read and sent on keeps its type and its content, also
\* when the library does not know the type, except where the variant has no
\* alternative for the unknown.
VariantsReadBack ==
  phase = "sent" /\ subject \notin DOMAIN Codecs =>
    IF focus = "variant"
    THEN document \in Survives(subject) => sent = [tag |-> document, content |-> TRUE]
    ELSE document # "a new name" => sent.tag = document
=============================================================================
