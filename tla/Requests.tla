------------------------------ MODULE Requests ------------------------------
(***************************************************************************)
(* The request builders: setters, the conversion to an HTTP request, and   *)
(* what becomes of the answer (RequestSender).  One behaviour follows one  *)
(* builder; MaxOptions setters are called, in any order, and the request   *)
(* is sent.                                                                *)
(*                                                                         *)
(* A path is a sequence of segments, "{}" a placeholder fmt::format fills; *)
(* an identifier is named by its parameter.  Identifiers and percent-      *)
(* encoded emoji are one segment each; values of options are abstract.     *)
(***************************************************************************)
EXTENDS ModelCodecs, Sequences, FiniteSets

CONSTANTS
  MaxOptions,      \* bound on the setters called
  MaxUploads,      \* 10 in the code
  UploadLists,     \* the file names given to attachments(); "" is refused
  KeptIds          \* the lists given to keep_attachment_ids()

ASSUME RequestConstants ==
  /\ {MaxOptions, MaxUploads} \subseteq Nat
  /\ UploadLists \subseteq Seq(STRING)
  /\ KeptIds \subseteq Seq(Nat)
  \* Attachments are kept by their snowflakes, which are no upload's number.
  /\ \A ids \in KeptIds : \A i, j \in DOMAIN ids :
       ids[i] >= MaxUploads /\ (ids[i] = ids[j] => i = j)

VARIABLES builder, options, request, status, result

reqvars == <<builder, options, request, status, result>>
-----------------------------------------------------------------------------
(* fmt::format, and the parts of a request.                                *)

Holes(template) == {k \in DOMAIN template : template[k] = "{}"}

\* fmt::format throws when it runs out of arguments and ignores extra ones.
Format(template, args) ==
  [k \in DOMAIN template |->
     IF k \in Holes(template)
     THEN LET n == Cardinality({j \in Holes(template) : j <= k})
          IN  IF n <= Len(args) THEN args[n] ELSE "{}"
     ELSE template[k]]

\* A request without a body whose answer must be 204.
Call(method, template, args) ==
  [method |-> method, path |-> Format(template, args),
   ids |-> {args[k] : k \in DOMAIN args},
   thrown |-> Cardinality(Holes(template)) > Len(args),
   query |-> <<>>, codec |-> "", json |-> {}, raw |-> FALSE,
   attachments |-> <<>>, files |-> <<>>, answer |-> "no_content"]

Reads(call, T) == [call EXCEPT !.answer = T]
Carries(call, keys) == [call EXCEPT !.json = keys]
Writes(call, codec, T) == [call EXCEPT !.codec = codec, !.answer = T]

Param(separator, key) == [separator |-> separator, key |-> key]

guild == <<"guilds", "{}">>
channel == <<"channels", "{}">>
message == channel \o <<"messages", "{}">>
G == <<"guild_id">>
C == <<"channel_id">>
CM == <<"channel_id", "message_id">>
-----------------------------------------------------------------------------
(* operator net::HttpRequest of the builders without a choice.             *)

AddGuildMember ==
  Writes(Call("put", guild \o <<"members", "{}">>, G \o <<"user_id">>),
         "AddGuildMemberFields", "GuildMember")
AddGuildMemberRole ==
  Call("put", guild \o <<"members", "{}", "roles", "{}">>, G \o <<"user_id", "role_id">>)
BulkDeleteMessages ==
  Carries(Call("post", channel \o <<"messages", "bulk-delete">>, C), {"messages"})
BulkOverwriteGlobalApplicationCommands ==
  Reads(Carries(Call("put", <<"applications", "{}", "commands">>, <<"application_id">>),
                {"commands"}), "ApplicationCommand")
BulkOverwriteGuildApplicationCommands ==
  Reads(Carries(Call("put", <<"applications", "{}", "guilds", "{}", "commands">>,
                     <<"application_id", "guild_id">>), {"commands"}),
        "ApplicationCommand")
CreateDM == Reads(Carries(Call("post", <<"users", "@me", "channels">>, <<>>),
                          {"recipient_id"}), "Channel")
CreateGuild == Writes(Call("post", <<"guilds">>, <<>>), "CreateGuildFields", "Guild")
CreateGuildChannel ==
  Writes(Call("post", guild \o <<"channels">>, G), "CreateGuildChannelFields", "Channel")
CreateInvite ==
  Writes(Call("post", channel \o <<"invites">>, C), "CreateInviteFields", "Invite")
CreateReaction ==
  Call("put", message \o <<"reactions", "{}", "@me">>, CM \o <<"emoji">>)
CreateResponse ==
  [Carries(Call("post", <<"interactions", "{}", "{}", "callback">>,
                <<"interaction_id", "interaction_token">>), {"type", "data"})
     EXCEPT !.answer = "any_success"]
CreateResponseWithResponse ==
  [Reads(CreateResponse, "InteractionCallbackResponse")
     EXCEPT !.query = <<Param("?", "with_response")>>]
CrosspostMessage == Reads(Call("post", message \o <<"crosspost">>, CM), "Message")
\* Three placeholders, two arguments.
DeleteAllReactions == Call("delete", message \o <<"reactions", "{}">>, CM)
DeleteAllReactionsForEmoji ==
  Call("delete", message \o <<"reactions", "{}">>, CM \o <<"emoji">>)
DeleteChannel == Reads(Call("delete", channel, C), "Channel")
DeleteChannelPermission ==
  Call("delete", channel \o <<"permissions", "{}">>, C \o <<"overwrite_id">>)
DeleteGuild == Call("delete", guild, G)
DeleteMessage == Call("delete", message, CM)
DeleteOwnReaction ==
  Call("delete", message \o <<"reactions", "{}", "@me">>, CM \o <<"emoji">>)
DeleteUserReaction ==
  Call("delete", message \o <<"reactions", "{}", "{}">>, CM \o <<"emoji", "user_id">>)
EditChannelPermissions ==
  Carries(Call("put", channel \o <<"permissions", "{}">>, C \o <<"overwrite_id">>),
          DOMAIN PermissionOverwrite)
FollowAnnouncementChannel ==
  Carries(Call("post", channel \o <<"webhooks">>, C), {"webhook_channel_id"})
GetChannel == Reads(Call("get", channel, C), "Channel")
GetChannelInvites == Reads(Call("get", channel \o <<"invites">>, C), "Invite")
GetChannelMessage == Reads(Call("get", message, CM), "Message")
GetCurrentUser == Reads(Call("get", <<"users", "@me">>, <<>>), "User")
GetGuildBan == Reads(Call("get", guild \o <<"bans", "{}">>, G \o <<"user_id">>), "Ban")
GetGuildChannels == Reads(Call("get", guild \o <<"channels">>, G), "Channel")
GetGuildInvites == Reads(Call("get", guild \o <<"invites">>, G), "Invite")
GetGuildMember ==
  Reads(Call("get", guild \o <<"members", "{}">>, G \o <<"user_id">>), "GuildMember")
GetGuildPreview == Reads(Call("get", guild \o <<"preview">>, G), "GuildPreview")
GetOriginalResponse ==
  Reads(Call("get", <<"webhooks", "{}", "{}", "messages", "@original">>,
             <<"application_id", "interaction_token">>), "Message")
GetPinnedMessages == Reads(Call("get", channel \o <<"pins">>, C), "Message")
GetUser == Reads(Call("get", <<"users", "{}">>, <<"user_id">>), "User")
ListActiveGuildThreads ==
  Reads(Call("get", guild \o <<"threads", "active">>, G), "ListActiveGuildThreadsResponse")
ModifyChannel == Writes(Call("patch", channel, C), "ModifyChannelFields", "Channel")
ModifyCurrentMember ==
  Writes(Call("patch", guild \o <<"members", "@me">>, G),
         "ModifyCurrentMemberFields", "GuildMember")
ModifyCurrentUser ==
  Writes(Call("patch", <<"users", "@me">>, <<>>), "ModifyCurrentUserFields", "User")
ModifyGuild == Writes(Call("patch", guild, G), "ModifyGuildFields", "Guild")
ModifyGuildChannelPositions ==
  Carries(Call("patch", guild \o <<"channels">>, G), {"channels"})
ModifyGuildMember ==
  Writes(Call("patch", guild \o <<"members", "{}">>, G \o <<"user_id">>),
         "ModifyGuildMemberFields", "GuildMember")
PinMessage == Call("put", channel \o <<"pins", "{}">>, CM)
RemoveGuildMember == Call("delete", guild \o <<"members", "{}">>, G \o <<"user_id">>)
RemoveGuildMemberRole ==
  Call("delete", guild \o <<"members", "{}", "roles", "{}">>,
       G \o <<"user_id", "role_id">>)
TriggerTypingIndicator == Call("post", channel \o <<"typing">>, C)
UnpinMessage == Call("delete", channel \o <<"pins", "{}">>, CM)
-----------------------------------------------------------------------------
(* The builders that look at their options o.                              *)

Has(o, key) == key \in DOMAIN o

\* A parameter joined by what the query already holds.
Join(query, key, o) ==
  IF ~Has(o, key) THEN query
  ELSE Append(query, Param(IF query = <<>> THEN "?" ELSE "&", key))

GetGuild(o) ==
  [Reads(Call("get", guild, G), "Guild") EXCEPT
     !.query = IF Has(o, "with_counts") THEN <<Param("?", "with_counts")>> ELSE @]

\* The limit's format string has two placeholders and one argument.
GetGuildBans(o) ==
  [Reads(Call("get", guild \o <<"bans">>, G), "Ban") EXCEPT
     !.thrown = Has(o, "limit"),
     !.query = Join(Join(<<>>, "before", o), "after", o)]

GetReactions(o) ==
  [Reads(Call("get", message \o <<"reactions", "{}">>, CM \o <<"emoji">>), "User") EXCEPT
     !.query = Join(IF Has(o, "after") THEN <<Param("?", "after")>> ELSE <<>>,
                    "limit", o)]

\* One parameter, then one joined by whether the first is there.
Two(first, second, o) ==
  (IF Has(o, first) THEN <<Param("?", first)>> ELSE <<>>)
  \o (IF Has(o, second) THEN <<Param(IF Has(o, first) THEN "&" ELSE "?", second)>>
      ELSE <<>>)

ListGuildMembers(o) ==
  [Reads(Call("get", guild \o <<"members">>, G), "GuildMember") EXCEPT
     !.query = Two("limit", "after", o)]

SearchGuildMembers(o) ==
  [Reads(Call("get", guild \o <<"members", "search">>, G), "GuildMember") EXCEPT
     !.query = Two("query", "limit", o)]

GetChannelMessages(o) ==
  [Reads(Call("get", channel \o <<"messages">>, C), "Message") EXCEPT
     !.query = IF Has(o, "limit") THEN <<Param("?", "limit")>> ELSE <<>>]

Directions == {"around", "before", "after"}

GetChannelMessagesConfigured(o) ==
  LET type == CHOOSE t \in Directions : Has(o, t) IN
  [GetChannelMessages(o) EXCEPT
     !.query = IF Has(o, "limit") THEN <<Param("?", "limit"), Param("&", type)>>
               ELSE <<Param("?", type)>>]

EditOriginalResponse(o) ==
  Reads(Carries(Call("patch", <<"webhooks", "{}", "{}", "messages", "@original">>,
                     <<"application_id", "interaction_token">>), DOMAIN o), "Message")

\* The field an option is kept in; uploads and kept ids are no JSON fields.
FieldOf(option) ==
  CASE option = "reply" -> "message_reference"
    [] option = "attachments" -> "m_upload_attachments"
    [] option = "keep_attachment_ids" -> "m_keep_attachment_ids"
    [] OTHER -> option

\* The keys of to_json of the fields, as the setters left them.
KeysOf(codec, o) ==
  LET set == {FieldOf(k) : k \in DOMAIN o}
      fresh == Fresh(codec)
  IN DOMAIN to_json(codec,
       [fresh EXCEPT !.fields = [f \in DOMAIN @ |-> IF f \in set THEN <<f, 1>> ELSE @[f]]])

FieldKeys(codec, o) == KeysOf(Codecs[codec], o)

NoName == ""    \* no file name

attachments_json_from_uploads(uploads) ==
  [i \in DOMAIN uploads |-> [id |-> i - 1, filename |-> uploads[i]]]
attachments_json_from_keep_ids(ids) == [i \in DOMAIN ids |-> [id |-> ids[i], filename |-> NoName]]

Uploads(o) == IF Has(o, "attachments") THEN o["attachments"] ELSE <<>>
Kept(o) == IF Has(o, "keep_attachment_ids") THEN o["keep_attachment_ids"] ELSE <<>>
GivenJson(o) == IF Has(o, "payload_json") THEN o["payload_json"] ELSE "none"

\* The attachments raw JSON may list itself.
PayloadList == <<[id |-> MaxUploads, filename |-> NoName]>>

\* payload["attachments"] = ...: takes the place of a list that is there.
Listing(call, attachments) ==
  [call EXCEPT !.json = @ \union {"attachments"}, !.attachments = attachments]

\* The parts: payload_json, then files[0], files[1], ...  Raw JSON that is no
\* object has no place for the list.
encode_multipart_form_data(call, o, attachments) ==
  [Listing(call, attachments) EXCEPT
     !.files = [i \in DOMAIN Uploads(o) |-> [part |-> i - 1, filename |-> Uploads(o)[i]]],
     !.thrown = @ \/ GivenJson(o) = "no object"]

\* payload_json is sent as it is, in place of the fields.  Fields none of which
\* is set are null, and null has nothing to erase payload_json from.
MessageBody(call, keys, o) ==
  IF GivenJson(o) = "with attachments" THEN Listing([call EXCEPT !.raw = TRUE], PayloadList)
  ELSE IF Has(o, "payload_json") THEN [call EXCEPT !.raw = TRUE]
  ELSE [call EXCEPT !.json = keys \ {"payload_json", "attachments"},
                    !.thrown = @ \/ keys = {}]

CreateMessage(o) ==
  LET call == MessageBody(Reads(Call("post", channel \o <<"messages">>, C), "Message"),
                          FieldKeys("CreateMessageFields", o), o)
  IN IF Uploads(o) = <<>> THEN call
     ELSE encode_multipart_form_data(call, o, attachments_json_from_uploads(Uploads(o)))

\* Mutant: uploads take the place of the attachments to keep.
EditMessageUploadsReplace(o) ==
  LET call == MessageBody(Reads(Call("patch", message, CM), "Message"),
                          FieldKeys("EditMessageFields", o), o)
      keeps == Has(o, "keep_attachment_ids") /\ ~call.raw
  IN IF Uploads(o) # <<>>
     THEN encode_multipart_form_data(call, o, attachments_json_from_uploads(Uploads(o)))
     ELSE IF keeps THEN Listing(call, attachments_json_from_keep_ids(Kept(o))) ELSE call

\* An empty list to keep is sent; without one the key is not.
EditMessage(o) ==
  LET call == MessageBody(Reads(Call("patch", message, CM), "Message"),
                          FieldKeys("EditMessageFields", o), o)
      keeps == Has(o, "keep_attachment_ids") /\ ~call.raw
      kept == attachments_json_from_keep_ids(IF keeps THEN Kept(o) ELSE <<>>)
  IN IF Uploads(o) # <<>>
     THEN encode_multipart_form_data(call, o,
            kept \o attachments_json_from_uploads(Uploads(o)))
     ELSE IF keeps THEN Listing(call, kept) ELSE call
-----------------------------------------------------------------------------
Plain ==
  [AddGuildMember |-> AddGuildMember, AddGuildMemberRole |-> AddGuildMemberRole,
   BulkDeleteMessages |-> BulkDeleteMessages,
   BulkOverwriteGlobalApplicationCommands |-> BulkOverwriteGlobalApplicationCommands,
   BulkOverwriteGuildApplicationCommands |-> BulkOverwriteGuildApplicationCommands,
   CreateDM |-> CreateDM, CreateGuild |-> CreateGuild,
   CreateGuildChannel |-> CreateGuildChannel, CreateInvite |-> CreateInvite,
   CreateReaction |-> CreateReaction, CreateResponse |-> CreateResponse,
   CreateResponseWithResponse |-> CreateResponseWithResponse,
   CrosspostMessage |-> CrosspostMessage, DeleteAllReactions |-> DeleteAllReactions,
   DeleteAllReactionsForEmoji |-> DeleteAllReactionsForEmoji,
   DeleteChannel |-> DeleteChannel, DeleteChannelPermission |-> DeleteChannelPermission,
   DeleteGuild |-> DeleteGuild, DeleteMessage |-> DeleteMessage,
   DeleteOwnReaction |-> DeleteOwnReaction, DeleteUserReaction |-> DeleteUserReaction,
   EditChannelPermissions |-> EditChannelPermissions,
   FollowAnnouncementChannel |-> FollowAnnouncementChannel, GetChannel |-> GetChannel,
   GetChannelInvites |-> GetChannelInvites, GetChannelMessage |-> GetChannelMessage,
   GetCurrentUser |-> GetCurrentUser, GetGuildBan |-> GetGuildBan,
   GetGuildChannels |-> GetGuildChannels, GetGuildInvites |-> GetGuildInvites,
   GetGuildMember |-> GetGuildMember, GetGuildPreview |-> GetGuildPreview,
   GetOriginalResponse |-> GetOriginalResponse, GetPinnedMessages |-> GetPinnedMessages,
   GetUser |-> GetUser, ListActiveGuildThreads |-> ListActiveGuildThreads,
   ModifyChannel |-> ModifyChannel, ModifyCurrentMember |-> ModifyCurrentMember,
   ModifyCurrentUser |-> ModifyCurrentUser, ModifyGuild |-> ModifyGuild,
   ModifyGuildChannelPositions |-> ModifyGuildChannelPositions,
   ModifyGuildMember |-> ModifyGuildMember, PinMessage |-> PinMessage,
   RemoveGuildMember |-> RemoveGuildMember,
   RemoveGuildMemberRole |-> RemoveGuildMemberRole,
   TriggerTypingIndicator |-> TriggerTypingIndicator, UnpinMessage |-> UnpinMessage]

Choosing ==
  {"GetGuild", "GetGuildBans", "GetReactions", "ListGuildMembers", "SearchGuildMembers",
   "GetChannelMessages", "GetChannelMessagesConfigured", "EditOriginalResponse",
   "CreateMessage", "EditMessage"}

\* A builder without a choice writes its fields, if it has any.
Filled(call, o) ==
  IF call.codec = "" THEN call ELSE [call EXCEPT !.json = FieldKeys(call.codec, o)]

HttpRequest(name, o) ==
  CASE name = "GetGuild" -> GetGuild(o)
    [] name = "GetGuildBans" -> GetGuildBans(o)
    [] name = "GetReactions" -> GetReactions(o)
    [] name = "ListGuildMembers" -> ListGuildMembers(o)
    [] name = "SearchGuildMembers" -> SearchGuildMembers(o)
    [] name = "GetChannelMessages" -> GetChannelMessages(o)
    [] name = "GetChannelMessagesConfigured" -> GetChannelMessagesConfigured(o)
    [] name = "EditOriginalResponse" -> EditOriginalResponse(o)
    [] name = "CreateMessage" -> CreateMessage(o)
    [] name = "EditMessage" -> EditMessage(o)
    [] OTHER -> Filled(Plain[name], o)
-----------------------------------------------------------------------------
(* Setters.                                                                *)

AddGuildMember_setters == DOMAIN AddGuildMemberFields \ {"access_token"}
CreateGuild_setters ==
  DOMAIN CreateGuildFields \ {"name", "region", "roles", "verification_level"}
CreateGuildChannel_setters ==
  DOMAIN CreateGuildChannelFields
    \ {"name", "available_tags", "default_sort_order", "default_thread_rate_limit_per_user"}
CreateInvite_setters == DOMAIN CreateInviteFields
CreateMessage_setters ==
  (DOMAIN CreateMessageFields \ {"message_reference"}) \union {"reply"}
EditMessage_setters == DOMAIN EditMessageFields \union {"keep_attachment_ids"}
EditOriginalResponse_setters ==
  {"allowed_mentions", "content", "components", "embeds", "flags"}
GetGuild_setters == {"with_counts"}
GetGuildBans_setters == {"limit", "before", "after"}
GetReactions_setters == {"after", "limit"}
ListGuildMembers_setters == {"after", "limit"}
SearchGuildMembers_setters == {"query", "limit"}
GetChannelMessages_setters == {"limit"}
ModifyChannel_setters == DOMAIN ModifyChannelFields
ModifyCurrentMember_setters == DOMAIN ModifyCurrentMemberFields
ModifyCurrentUser_setters == DOMAIN ModifyCurrentUserFields
ModifyGuild_setters == DOMAIN ModifyGuildFields
ModifyGuildMember_setters == DOMAIN ModifyGuildMemberFields

Setters ==
  [AddGuildMember |-> AddGuildMember_setters, CreateGuild |-> CreateGuild_setters,
   CreateGuildChannel |-> CreateGuildChannel_setters,
   CreateInvite |-> CreateInvite_setters, CreateMessage |-> CreateMessage_setters,
   EditMessage |-> EditMessage_setters,
   EditOriginalResponse |-> EditOriginalResponse_setters, GetGuild |-> GetGuild_setters,
   GetGuildBans |-> GetGuildBans_setters, GetReactions |-> GetReactions_setters,
   ListGuildMembers |-> ListGuildMembers_setters,
   SearchGuildMembers |-> SearchGuildMembers_setters,
   GetChannelMessages |-> GetChannelMessages_setters,
   GetChannelMessagesConfigured |-> GetChannelMessages_setters,
   ModifyChannel |-> ModifyChannel_setters,
   ModifyCurrentMember |-> ModifyCurrentMember_setters,
   ModifyCurrentUser |-> ModifyCurrentUser_setters, ModifyGuild |-> ModifyGuild_setters,
   ModifyGuildMember |-> ModifyGuildMember_setters]

Given(option) ==
  CASE option = "attachments" -> UploadLists
    [] option = "keep_attachment_ids" -> KeptIds
    [] option = "payload_json" -> {"object", "with attachments", "no object", "no JSON"}
    [] OTHER -> {"value"}
-----------------------------------------------------------------------------
NoOptions == [k \in {} |-> "value"]
NoRequest == Call("", <<>>, <<>>)

\* What a builder that was told o knows after one more setter.
Telling(o, option, value) ==
  [k \in DOMAIN o \union {option} |-> IF k = option THEN value ELSE o[k]]

RInit ==
  /\ builder \in (DOMAIN Plain \ {"CreateResponseWithResponse"})
                   \union (Choosing \ {"GetChannelMessagesConfigured"})
  /\ options = NoOptions
  /\ request = NoRequest
  /\ status = "building"
  /\ result = "none"

SetOption(option, value) ==
  /\ status = "building"
  /\ Cardinality(DOMAIN options) < MaxOptions
  /\ options' = Telling(options, option, value)
  /\ UNCHANGED <<builder, request, status, result>>

\* around(), before(), after() and with_response() make another builder, with
\* what this one was told.
Configure(type) ==
  /\ status = "building" /\ builder = "GetChannelMessages"
  /\ builder' = "GetChannelMessagesConfigured"
  /\ options' = Telling(options, type, "value")
  /\ UNCHANGED <<request, status, result>>

WithResponse ==
  /\ status = "building" /\ builder = "CreateResponse"
  /\ builder' = "CreateResponseWithResponse"
  /\ options' = Telling(NoOptions, "with_response", "value")
  /\ UNCHANGED <<request, status, result>>

\* The checks of CreateMessage::send and EditMessage::send.
Acceptable(o) ==
  Uploads(o) # <<>> =>
    /\ Len(Uploads(o)) <= MaxUploads
    /\ \A i \in DOMAIN Uploads(o) : Uploads(o)[i] # NoName
    /\ Has(o, "payload_json") => o["payload_json"] # "no JSON"

Refuse ==
  /\ status = "building" /\ ~Acceptable(options)
  /\ status' = "refused" /\ result' = "error"
  /\ UNCHANGED <<builder, options, request>>

SendRequest ==
  /\ status = "building" /\ Acceptable(options)
  /\ request' = HttpRequest(builder, options)
  /\ status' = IF request'.thrown THEN "thrown" ELSE "sent"
  /\ UNCHANGED <<builder, options, result>>

\* The rate limiter turns every status but 2xx into an error; a builder without
\* an answer wants 204, the others parse the body.
Answer(http, parses) ==
  /\ status = "sent"
  /\ status' = http
  /\ result' = IF \/ http = "error"
                  \/ request.answer = "no_content" /\ http # "204"
                  \/ request.answer \notin {"no_content", "any_success"}
                       /\ (http = "204" \/ ~parses)
               THEN "error" ELSE "success"
  /\ UNCHANGED <<builder, options, request>>

RNext ==
  \/ builder \in DOMAIN Setters
       /\ \E o \in Setters[builder] \ DOMAIN options : \E v \in Given(o) : SetOption(o, v)
  \/ \E type \in Directions : Configure(type)
  \/ WithResponse \/ Refuse \/ SendRequest
  \/ \E http \in {"200", "204", "error"}, parses \in BOOLEAN : Answer(http, parses)

RSpec == RInit /\ [][RNext]_reqvars
-----------------------------------------------------------------------------
(* Properties.                                                             *)

\* The options a query string carries.
InQuery == {"with_counts", "limit", "before", "after", "query", "around", "with_response"}

\* Setters whose field to_json never writes, whatever they were told: all of an
\* invite's, and four of a guild's.
LostBy(name) ==
  CASE name = "CreateInvite" -> CreateInvite_setters
    [] name = "CreateGuild" ->
         {"afk_channel_id", "afk_timeout", "system_channel_id", "system_channel_flags"}
    [] OTHER -> {}

\* The requests that may throw: a format string that asks for more than it gets,
\* a message none of whose fields is set, and raw JSON that is no object.
Cracks(name, o) ==
  \/ name = "DeleteAllReactions"
  \/ name = "GetGuildBans" /\ Has(o, "limit")
  \/ name \in {"CreateMessage", "EditMessage"}
       /\ DOMAIN o \subseteq {"attachments", "keep_attachment_ids"}
  \/ GivenJson(o) = "no object"

\* The keys of a body: the ones it always has and the fields that were told, or
\* none but the caller's own JSON; and the list of attachments, when there are
\* files, or attachments to keep, or the caller's own JSON has one.
Always(name) == IF name \in Choosing THEN {} ELSE Filled(Plain[name], NoOptions).json
ToldFields(name, o) ==
  {FieldOf(k) : k \in DOMAIN o \ (InQuery \union {"attachments", "keep_attachment_ids"})}
    \ LostBy(name)
Listed(o) ==
  \/ Uploads(o) # <<>>
  \/ GivenJson(o) = "with attachments"
  \/ Has(o, "keep_attachment_ids") /\ ~Has(o, "payload_json")
BodyKeys(name, o) ==
  (IF Has(o, "payload_json") THEN {} ELSE Always(name) \union ToldFields(name, o))
    \union (IF Listed(o) THEN {"attachments"} ELSE {})

\* Two builders that share an endpoint.
Family(name) ==
  IF name = "CreateResponseWithResponse" THEN "CreateResponse" ELSE name

Endpoint(call) == [method |-> call.method, path |-> call.path]

\* The request names its identifiers, is no other operation's and says nothing yet.
Bare(name, call) ==
  /\ call.ids \subseteq {call.path[k] : k \in DOMAIN call.path}
  /\ \A other \in {n \in DOMAIN Plain : ~Plain[n].thrown} :
       Endpoint(Plain[other]) = Endpoint(call) => Family(other) = Family(name)
  /\ DOMAIN call = DOMAIN NoRequest
  /\ call.raw = FALSE /\ call.attachments = <<>> /\ call.files = <<>>

\* to_json writes each field it writes at all under its name, unless it is unset.
Straight(codec) ==
  LET c == Codecs[codec] IN
  /\ DOMAIN c.writes \subseteq DOMAIN c.fields
  /\ \A k \in DOMAIN c.writes : c.writes[k] = k
  /\ c.kept = {} /\ c.fills = {} /\ c.nulls = {} /\ c.omits = {} /\ c.type = 0 /\ ~c.raw

Optional(codec) ==
  \A k \in DOMAIN Codecs[codec].writes : Codecs[codec].fields[k].optional

NoField == {"attachments", "keep_attachment_ids", "payload_json"}

\* Facts about the tables above, which TLC evaluates: every builder without a
\* choice but one formats its path, and each of its setters but the lost ones is
\* a field of its body; so is each setter of a message but the ones for uploads.
ASSUME BuildersAreRegular ==
  /\ \A name \in DOMAIN Plain :
       /\ name \notin Choosing /\ Bare(name, Plain[name])
       /\ Plain[name].thrown => name = "DeleteAllReactions"
       /\ Plain[name].query = IF name = "CreateResponseWithResponse"
                              THEN <<Param("?", "with_response")>> ELSE <<>>
       /\ (Plain[name].codec # "") = (name \in DOMAIN Setters)
       /\ name \in DOMAIN Setters =>
            /\ name # "CreateResponseWithResponse" /\ Straight(Plain[name].codec)
            /\ Setters[name] \intersect (InQuery \union NoField \union {"reply"}) = {}
            /\ Setters[name] \intersect DOMAIN Codecs[Plain[name].codec].writes =
                 Setters[name] \ LostBy(name)
  /\ \A m \in {<<CreateMessage_setters, "CreateMessageFields">>,
               <<EditMessage_setters, "EditMessageFields">>} :
       /\ Straight(m[2]) /\ Optional(m[2]) /\ InQuery \intersect m[1] = {}
       /\ \A o \in m[1] \ NoField : FieldOf(o) \in DOMAIN Codecs[m[2]].writes
       /\ {"m_upload_attachments", "m_keep_attachment_ids"}
            \intersect DOMAIN Codecs[m[2]].writes = {}
  /\ "keep_attachment_ids" \notin CreateMessage_setters

\* What a builder with a choice needs to be told to make a request.
Sample(name) ==
  CASE name = "GetChannelMessagesConfigured" -> Telling(NoOptions, "around", "value")
    [] name \in {"CreateMessage", "EditMessage"} -> Telling(NoOptions, "content", "value")
    [] OTHER -> NoOptions

\* The same of the builders with a choice, told no more than that.
ASSUME ChoosersAreRegular ==
  \A name \in Choosing :
    LET call == HttpRequest(name, Sample(name)) IN Bare(name, call) /\ ~call.thrown

\* Each file part has one attachment of its number and name, each attachment to
\* keep is listed, and nothing else is.  Raw JSON has no attachments to keep; a
\* list of its own gives way to the files.
Attached ==
  LET a == request.attachments IN
  /\ \A i, j \in DOMAIN a : a[i].id = a[j].id => i = j
  /\ {[part |-> a[i].id, filename |-> a[i].filename] : i \in DOMAIN a} =
       {request.files[i] : i \in DOMAIN request.files}
         \union IF ~request.raw
                THEN {[part |-> Kept(options)[i], filename |-> NoName] : i \in DOMAIN Kept(options)}
                ELSE IF GivenJson(options) = "with attachments" /\ Uploads(options) = <<>>
                THEN {[part |-> MaxUploads, filename |-> NoName]} ELSE {}
  /\ Len(request.files) = Len(Uploads(options))

\* A request that is sent (operator net::HttpRequest of the builders) names every
\* identifier the builder was given, in the endpoint of no other operation (of
\* those whose endpoint depends on no option).  Its query, if there is one, is
\* well formed and has exactly the parameters that were told.  Its body has the
\* keys it always has, the fields that were told and no others, or the raw JSON
\* instead; and "attachments" exactly when there is a list to send, even an empty
\* one, each file with its entry.  Excused are the setters LostBy names, which
\* the code forgets.  Nothing throws but what Cracks names, and the caller learns
\* of a success only if there was one.
RequestSaysWhatWasSet ==
  /\ status = "thrown" => Cracks(builder, options)
  /\ result = "success" => status \in {"200", "204"}
  /\ status \in {"sent", "200", "204", "error"} =>
       LET q == request.query IN
       /\ \A i \in DOMAIN q : q[i].separator = IF i = 1 THEN "?" ELSE "&"
       /\ \A i, j \in DOMAIN q : q[i].key = q[j].key => i = j
       /\ {q[i].key : i \in DOMAIN q} = DOMAIN options \intersect InQuery
       /\ request.ids \subseteq {request.path[k] : k \in DOMAIN request.path}
       /\ request.raw = Has(options, "payload_json")
       /\ request.json = BodyKeys(builder, options)
       /\ Attached
       /\ \A name \in {n \in DOMAIN Plain : ~Plain[n].thrown} :
            Endpoint(Plain[name]) = Endpoint(request) => Family(name) = Family(builder)
=============================================================================
