----------------------------- MODULE ModelCodecs -----------------------------
(***************************************************************************)
(* to_json and from_json of every structure, under src/src.  Codec(S)      *)
(* stands for the pair that handles each field of S under its own name;    *)
(* what a pair does differently is said by the operators around it.        *)
(***************************************************************************)
EXTENDS GatewayStructs
\* application_command.cpp
ApplicationCommandOptionChoice_json == Codec(ApplicationCommandOptionChoice)
\* application_command_data.cpp
ApplicationCommandInteractionDataOption_json ==
  [Codec(ApplicationCommandInteractionDataOption) EXCEPT !.omits = {"options"}]
ApplicationCommandData_json == Codec(ApplicationCommandData)
\* application_command_data_resolved.cpp
InteractionChannel_json == Codec(InteractionChannel)
InteractionMember_json == Codec(InteractionMember)
ApplicationCommandInteractionDataResolved_json ==
  Codec(ApplicationCommandInteractionDataResolved)
\* attachment.cpp
Attachment_json == Codec(Attachment)
PartialAttachment_json == Codec(PartialAttachment)
\* ban.cpp
Ban_json == Codec(Ban)
\* channel.cpp
DefaultReaction_json == Codec(DefaultReaction)
ForumTag_json == Codec(ForumTag)
PermissionOverwrite_json == Codec(PermissionOverwrite)
ThreadMetadata_json == Codec(ThreadMetadata)
ThreadMember_json == Codec(ThreadMember)
Channel_json == Codec(Channel)
\* component_interaction_response.cpp
StringSelectResponse_json == Response(StringSelectResponse, 3)
TextInputResponse_json == Response(TextInputResponse, 4)
UserSelectResponse_json == Response(UserSelectResponse, 5)
RoleSelectResponse_json == Response(RoleSelectResponse, 6)
MentionableSelectResponse_json == Response(MentionableSelectResponse, 7)
ChannelSelectResponse_json == Response(ChannelSelectResponse, 8)
TextDisplayResponse_json == Response(TextDisplayResponse, 10)
LabelResponse_json == Response(LabelResponse, 18)
FileUploadResponse_json == Response(FileUploadResponse, 19)
ActionRowResponse_json == Response(ActionRowResponse, 1)
UnknownComponentResponse_json ==
  [Raw(UnknownComponentResponse) EXCEPT !.kept = {"type"},
    !.fields = [@ EXCEPT !.type.reads = {"number"}]]
\* current_user.cpp
CurrentUser_json == Codec(CurrentUser)
\* embed.cpp
EmbedImage_json == Codec(EmbedImage)
EmbedProvider_json == Codec(EmbedProvider)
EmbedAuthor_json == Codec(EmbedAuthor)
EmbedFooter_json == Codec(EmbedFooter)
EmbedField_json == Renamed(Codec(EmbedField), "inline", "inline_")
Embed_json == Codec(Embed)
\* emoji.cpp
Emoji_json == Codec(Emoji)
PartialEmoji_json == Codec(PartialEmoji)
\* entitlement.cpp
Entitlement_json == Codec(Entitlement)
\* gateway/*.cpp
ChannelPinsUpdate_json == Codec(ChannelPinsUpdate)
GuildBanAdd_json == Codec(GuildBanAdd)
GuildBanRemove_json == Codec(GuildBanRemove)
GuildDelete_json == Codec(GuildDelete)
GuildMemberAdd_json == Codec(GuildMemberAdd)
GuildMemberRemove_json == Codec(GuildMemberRemove)
GuildMemberUpdate_json == Codec(GuildMemberUpdate)
GuildMembersChunk_json == Codec(GuildMembersChunk)
GuildRoleCreate_json == Codec(GuildRoleCreate)
GuildRoleDelete_json == Codec(GuildRoleDelete)
GuildRoleUpdate_json == Codec(GuildRoleUpdate)
GuildScheduledEventUserAdd_json == Codec(GuildScheduledEventUserAdd)
GuildScheduledEventUserRemove_json == Codec(GuildScheduledEventUserRemove)
GuildStickersUpdate_json == Codec(GuildStickersUpdate)
PartialUser_json == Codec(PartialUser)
InviteCreate_json == Codec(InviteCreate)
InviteDelete_json == Codec(InviteDelete)
MessageDelete_json == Codec(MessageDelete)
MessageDeleteBulk_json == Codec(MessageDeleteBulk)
MessageReactionAdd_json == Codec(MessageReactionAdd)
MessageReactionRemove_json == Codec(MessageReactionRemove)
MessageReactionRemoveAll_json == Codec(MessageReactionRemoveAll)
MessageReactionRemoveEmoji_json == Codec(MessageReactionRemoveEmoji)
MessageUpdate_json == Codec(MessageUpdate)
Ready_json == Codec(Ready)
ThreadDelete_json == Codec(ThreadDelete)
ThreadListSync_json == Codec(ThreadListSync)
ThreadMembersUpdate_json == Codec(ThreadMembersUpdate)
TypingStart_json == Codec(TypingStart)
VoiceServerUpdate_json == Codec(VoiceServerUpdate)
WebhooksUpdate_json == Codec(WebhooksUpdate)
\* guild.cpp
UnavailableGuild_json == Codec(UnavailableGuild)
Guild_json == NotWritten(Codec(Guild), {"members"})
\* guild_emojis_update.cpp
GuildEmojisUpdate_json == Codec(GuildEmojisUpdate)
\* guild_integrations_update.cpp
GuildIntegrationsUpdate_json == Codec(GuildIntegrationsUpdate)
\* guild_interaction.cpp
IntegrationAccount_json == Codec(IntegrationAccount)
IntegrationApplication_json == Codec(IntegrationApplication)
GuildIntegration_json == Codec(GuildIntegration)
\* guild_member.cpp
GuildMember_json == Codec(GuildMember)
\* guild_preview.cpp
GuildPreview_json == Codec(GuildPreview)
\* guild_scheduled_event.cpp
EntityMetadata_json == Codec(EntityMetadata)
GuildScheduledEvent_json == Codec(GuildScheduledEvent)
\* interaction.cpp
AuthorizingIntegrationOwners_json ==
  Renamed(Renamed(Codec(AuthorizingIntegrationOwners), "0", "guild_install"),
          "1", "user_install")
Interaction_json == [Codec(Interaction) EXCEPT !.needs = [data |-> "type"]]
\* interaction_callback.cpp
InteractionCallbackActivityInstance_json ==
  Codec(InteractionCallbackActivityInstance)
InteractionCallbackResource_json == Codec(InteractionCallbackResource)
InteractionCallback_json == Codec(InteractionCallback)
InteractionCallbackResponse_json == Codec(InteractionCallbackResponse)
\* invite.cpp
InviteChannel_json == Codec(InviteChannel)
InviteGuild_json == Codec(InviteGuild)
Invite_json == NotInJson(Codec(Invite), {"target_type"})
\* mention.cpp
Mention_json == Codec(Mention)
\* message.cpp
AllowedMentions_json == Codec(AllowedMentions)
ChannelMention_json == Codec(ChannelMention)
MessageActivity_json == Codec(MessageActivity)
MessageApplication_json == Codec(MessageApplication)
MessageInteraction_json == Codec(MessageInteraction)
MessageReference_json == Codec(MessageReference)
Message_json == NotInJson(Codec(Message), {"crossposted", "deleted"})
\* message_component.cpp
Button_json == Component(Button, 2)
SelectOptions_json == Renamed(Raw(SelectOptions), "default", "default_")
SelectMenuDefaultValue_json == Raw(SelectMenuDefaultValue)
SelectMenu_json == Component(SelectMenu, 3)
UserSelectMenu_json == Component(UserSelectMenu, 5)
RoleSelectMenu_json == Component(RoleSelectMenu, 6)
MentionableSelectMenu_json == Component(MentionableSelectMenu, 7)
ChannelSelectMenu_json == Component(ChannelSelectMenu, 8)
TextInput_json == Component(TextInput, 4)
ActionRow_json == Component(ActionRow, 1)
UnfurledMediaItem_json == Raw(UnfurledMediaItem)
TextDisplay_json == Component(TextDisplay, 10)
Thumbnail_json == Component(Thumbnail, 11)
Section_json == Component(Section, 9)
MediaGalleryItem_json == Raw(MediaGalleryItem)
MediaGallery_json == Component(MediaGallery, 12)
File_json == Component(File, 13)
Separator_json == Component(Separator, 14)
FileUpload_json == Component(FileUpload, 19)
Label_json == Component(Label, 18)
UnknownMessageComponent_json ==
  [Raw(UnknownMessageComponent) EXCEPT !.kept = {"type"},
    !.fields = [@ EXCEPT !.type.reads = {"number"}]]
Container_json == Component(Container, 17)
\* message_component_data.cpp
MessageComponentData_json ==
  Renamed(Codec(MessageComponentData), "component_type", "type")
\* modal_submit_data.cpp
ModalSubmitData_json == Codec(ModalSubmitData)
\* partial_application.cpp
PartialApplication_json == Codec(PartialApplication)
\* partial_guild.cpp
PartialGuild_json == Codec(PartialGuild)
\* partial_interaction_channel.cpp
PartialInteractionChannel_json == Codec(PartialInteractionChannel)
\* partial_interaction_guild.cpp
PartialInteractionGuild_json == Codec(PartialInteractionGuild)
\* partial_member.cpp
PartialMember_json == Codec(PartialMember)
\* poll.cpp
PollMedia_json == Codec(PollMedia)
PollAnswer_json == Codec(PollAnswer)
Poll_json == Codec(Poll)
\* presence.cpp
ActivityAssets_json == Codec(ActivityAssets)
ActivityButton_json == Codec(ActivityButton)
ActivityEmoji_json == Codec(ActivityEmoji)
ActivityParty_json == Codec(ActivityParty)
ActivitySecrets_json == Codec(ActivitySecrets)
ActivityTimestamps_json == Codec(ActivityTimestamps)
Activity_json == Codec(Activity)
ClientStatus_json == Codec(ClientStatus)
Presence_json == Codec(Presence)
\* request/*.cpp
AddGuildMemberFields_json == WriteOnly(AddGuildMemberFields)
ApplicationCommandOption_json ==
  NotRead(NotInJson([Codec(ApplicationCommandOption) EXCEPT !.omits = {"required", "autocomplete"}],
            {"value"}),
          {"channel_types", "min_value", "max_value", "min_length", "max_length"})
ApplicationCommandCreateFields_json ==
  NotRead([Codec(ApplicationCommandCreateFields) EXCEPT !.omits = {"nsfw"}, !.fills = {"description"}],
          {"name_localizations", "description_localizations",
           "default_member_permissions", "integration_types", "contexts"})
ApplicationCommand_json ==
  NotInJson([Codec(ApplicationCommand) EXCEPT !.omits = {"nsfw"}],
            {"name_localizations", "description_localizations", "dm_permission",
             "default_permission", "integration_types", "contexts"})
RoleFields_json == WriteOnly(RoleFields)
CategoryChannelFields_json == WriteOnly(CategoryChannelFields)
TextChannelFields_json == WriteOnly(TextChannelFields)
VoiceChannelFields_json == WriteOnly(VoiceChannelFields)
CreateGuildFields_json ==
  NotWritten(WriteOnly(CreateGuildFields),
  {"afk_channel_id", "afk_timeout", "system_channel_id", "system_channel_flags"})
CreateGuildChannelFields_json == Codec(CreateGuildChannelFields)
CreateInviteFields_json ==
  NotInJson(Codec(CreateInviteFields), DOMAIN CreateInviteFields)
CreateMessageFields_json == Codec(CreateMessageFields)
InteractionResponseData_json == Codec(InteractionResponseData)
InteractionResponse_json == Codec(InteractionResponse)
EditMessageFields_json == Codec(EditMessageFields)
FollowedChannel_json == Codec(FollowedChannel)
ListActiveGuildThreadsResponse_json == Codec(ListActiveGuildThreadsResponse)
ModifyChannelFields_json == Codec(ModifyChannelFields)
ModifyCurrentMemberFields_json == WriteOnly(ModifyCurrentMemberFields)
ModifyCurrentUserFields_json == Codec(ModifyCurrentUserFields)
ModifyGuildFields_json == Codec(ModifyGuildFields)
ModifyGuildChannelPosition_json == Codec(ModifyGuildChannelPosition)
ModifyGuildMemberFields_json == WriteOnly(ModifyGuildMemberFields)
\* role.cpp
RoleTags_json == Codec(RoleTags)
Role_json == Codec(Role)
\* shard.cpp
UpdatePresence_json ==
  [Renamed(WriteOnly(UpdatePresence), "since", "idle_since")
   EXCEPT !.nulls = {"idle_since"}]
\* stage_instance.cpp
StageInstance_json == Codec(StageInstance)
\* sticker.cpp
Sticker_json == Codec(Sticker)
\* user.cpp
User_json == NotInJson(Codec(User), {"global_name"})
\* voice_state.cpp
VoiceState_json == Codec(VoiceState)

\* Gateway events that are the object they carry: gateway/*.cpp
ChannelCreate_json == Channel_json
ChannelDelete_json == Channel_json
ChannelUpdate_json == Channel_json
GuildCreate_json == Guild_json
GuildScheduledEventCreate_json == GuildScheduledEvent_json
GuildScheduledEventDelete_json == GuildScheduledEvent_json
GuildScheduledEventUpdate_json == GuildScheduledEvent_json
GuildUpdate_json == PartialGuild_json
IntegrationCreate_json == GuildIntegration_json
IntegrationDelete_json == GuildIntegration_json
IntegrationUpdate_json == GuildIntegration_json
InteractionCreate_json == Interaction_json
MessageCreate_json == Message_json
PresenceUpdate_json == Presence_json
StageInstanceCreate_json == StageInstance_json
StageInstanceDelete_json == StageInstance_json
StageInstanceUpdate_json == StageInstance_json
ThreadCreate_json == Channel_json
ThreadMemberUpdate_json == ThreadMember_json
ThreadUpdate_json == Channel_json
UserUpdate_json == CurrentUser_json
VoiceStateUpdate_json == VoiceState_json
-----------------------------------------------------------------------------
Codecs ==
  [ApplicationCommandOptionChoice |-> ApplicationCommandOptionChoice_json,
   ApplicationCommandInteractionDataOption |-> ApplicationCommandInteractionDataOption_json,
   ApplicationCommandData |-> ApplicationCommandData_json,
   InteractionChannel |-> InteractionChannel_json,
   InteractionMember |-> InteractionMember_json,
   ApplicationCommandInteractionDataResolved |-> ApplicationCommandInteractionDataResolved_json,
   Attachment |-> Attachment_json,
   PartialAttachment |-> PartialAttachment_json, Ban |-> Ban_json,
   DefaultReaction |-> DefaultReaction_json, ForumTag |-> ForumTag_json,
   PermissionOverwrite |-> PermissionOverwrite_json,
   ThreadMetadata |-> ThreadMetadata_json, ThreadMember |-> ThreadMember_json,
   Channel |-> Channel_json,
   StringSelectResponse |-> StringSelectResponse_json,
   TextInputResponse |-> TextInputResponse_json,
   UserSelectResponse |-> UserSelectResponse_json,
   RoleSelectResponse |-> RoleSelectResponse_json,
   MentionableSelectResponse |-> MentionableSelectResponse_json,
   ChannelSelectResponse |-> ChannelSelectResponse_json,
   TextDisplayResponse |-> TextDisplayResponse_json,
   LabelResponse |-> LabelResponse_json,
   FileUploadResponse |-> FileUploadResponse_json,
   ActionRowResponse |-> ActionRowResponse_json,
   UnknownComponentResponse |-> UnknownComponentResponse_json,
   CurrentUser |-> CurrentUser_json, EmbedImage |-> EmbedImage_json,
   EmbedProvider |-> EmbedProvider_json, EmbedAuthor |-> EmbedAuthor_json,
   EmbedFooter |-> EmbedFooter_json, EmbedField |-> EmbedField_json,
   Embed |-> Embed_json, Emoji |-> Emoji_json,
   PartialEmoji |-> PartialEmoji_json, Entitlement |-> Entitlement_json,
   ChannelPinsUpdate |-> ChannelPinsUpdate_json,
   GuildBanAdd |-> GuildBanAdd_json, GuildBanRemove |-> GuildBanRemove_json,
   GuildDelete |-> GuildDelete_json, GuildMemberAdd |-> GuildMemberAdd_json,
   GuildMemberRemove |-> GuildMemberRemove_json,
   GuildMemberUpdate |-> GuildMemberUpdate_json,
   GuildMembersChunk |-> GuildMembersChunk_json,
   GuildRoleCreate |-> GuildRoleCreate_json,
   GuildRoleDelete |-> GuildRoleDelete_json,
   GuildRoleUpdate |-> GuildRoleUpdate_json,
   GuildScheduledEventUserAdd |-> GuildScheduledEventUserAdd_json,
   GuildScheduledEventUserRemove |-> GuildScheduledEventUserRemove_json,
   GuildStickersUpdate |-> GuildStickersUpdate_json,
   PartialUser |-> PartialUser_json, InviteCreate |-> InviteCreate_json,
   InviteDelete |-> InviteDelete_json, MessageDelete |-> MessageDelete_json,
   MessageDeleteBulk |-> MessageDeleteBulk_json,
   MessageReactionAdd |-> MessageReactionAdd_json,
   MessageReactionRemove |-> MessageReactionRemove_json,
   MessageReactionRemoveAll |-> MessageReactionRemoveAll_json,
   MessageReactionRemoveEmoji |-> MessageReactionRemoveEmoji_json,
   MessageUpdate |-> MessageUpdate_json, Ready |-> Ready_json,
   ThreadDelete |-> ThreadDelete_json, ThreadListSync |-> ThreadListSync_json,
   ThreadMembersUpdate |-> ThreadMembersUpdate_json,
   TypingStart |-> TypingStart_json,
   VoiceServerUpdate |-> VoiceServerUpdate_json,
   WebhooksUpdate |-> WebhooksUpdate_json,
   UnavailableGuild |-> UnavailableGuild_json, Guild |-> Guild_json,
   GuildEmojisUpdate |-> GuildEmojisUpdate_json,
   GuildIntegrationsUpdate |-> GuildIntegrationsUpdate_json,
   IntegrationAccount |-> IntegrationAccount_json,
   IntegrationApplication |-> IntegrationApplication_json,
   GuildIntegration |-> GuildIntegration_json,
   GuildMember |-> GuildMember_json, GuildPreview |-> GuildPreview_json,
   EntityMetadata |-> EntityMetadata_json,
   GuildScheduledEvent |-> GuildScheduledEvent_json,
   AuthorizingIntegrationOwners |-> AuthorizingIntegrationOwners_json,
   Interaction |-> Interaction_json,
   InteractionCallbackActivityInstance |-> InteractionCallbackActivityInstance_json,
   InteractionCallbackResource |-> InteractionCallbackResource_json,
   InteractionCallback |-> InteractionCallback_json,
   InteractionCallbackResponse |-> InteractionCallbackResponse_json,
   InviteChannel |-> InviteChannel_json, InviteGuild |-> InviteGuild_json,
   Invite |-> Invite_json, Mention |-> Mention_json,
   AllowedMentions |-> AllowedMentions_json,
   ChannelMention |-> ChannelMention_json,
   MessageActivity |-> MessageActivity_json,
   MessageApplication |-> MessageApplication_json,
   MessageInteraction |-> MessageInteraction_json,
   MessageReference |-> MessageReference_json, Message |-> Message_json,
   Button |-> Button_json, SelectOptions |-> SelectOptions_json,
   SelectMenuDefaultValue |-> SelectMenuDefaultValue_json,
   SelectMenu |-> SelectMenu_json, UserSelectMenu |-> UserSelectMenu_json,
   RoleSelectMenu |-> RoleSelectMenu_json,
   MentionableSelectMenu |-> MentionableSelectMenu_json,
   ChannelSelectMenu |-> ChannelSelectMenu_json, TextInput |-> TextInput_json,
   ActionRow |-> ActionRow_json, UnfurledMediaItem |-> UnfurledMediaItem_json,
   TextDisplay |-> TextDisplay_json, Thumbnail |-> Thumbnail_json,
   Section |-> Section_json, MediaGalleryItem |-> MediaGalleryItem_json,
   MediaGallery |-> MediaGallery_json, File |-> File_json,
   Separator |-> Separator_json, FileUpload |-> FileUpload_json,
   Label |-> Label_json,
   UnknownMessageComponent |-> UnknownMessageComponent_json,
   Container |-> Container_json,
   MessageComponentData |-> MessageComponentData_json,
   ModalSubmitData |-> ModalSubmitData_json,
   PartialApplication |-> PartialApplication_json,
   PartialGuild |-> PartialGuild_json,
   PartialInteractionChannel |-> PartialInteractionChannel_json,
   PartialInteractionGuild |-> PartialInteractionGuild_json,
   PartialMember |-> PartialMember_json, PollMedia |-> PollMedia_json,
   PollAnswer |-> PollAnswer_json, Poll |-> Poll_json,
   ActivityAssets |-> ActivityAssets_json,
   ActivityButton |-> ActivityButton_json,
   ActivityEmoji |-> ActivityEmoji_json, ActivityParty |-> ActivityParty_json,
   ActivitySecrets |-> ActivitySecrets_json,
   ActivityTimestamps |-> ActivityTimestamps_json, Activity |-> Activity_json,
   ClientStatus |-> ClientStatus_json, Presence |-> Presence_json,
   AddGuildMemberFields |-> AddGuildMemberFields_json,
   ApplicationCommandOption |-> ApplicationCommandOption_json,
   ApplicationCommandCreateFields |-> ApplicationCommandCreateFields_json,
   ApplicationCommand |-> ApplicationCommand_json,
   RoleFields |-> RoleFields_json,
   CategoryChannelFields |-> CategoryChannelFields_json,
   TextChannelFields |-> TextChannelFields_json,
   VoiceChannelFields |-> VoiceChannelFields_json,
   CreateGuildFields |-> CreateGuildFields_json,
   CreateGuildChannelFields |-> CreateGuildChannelFields_json,
   CreateInviteFields |-> CreateInviteFields_json,
   CreateMessageFields |-> CreateMessageFields_json,
   InteractionResponseData |-> InteractionResponseData_json,
   InteractionResponse |-> InteractionResponse_json,
   EditMessageFields |-> EditMessageFields_json,
   FollowedChannel |-> FollowedChannel_json,
   ListActiveGuildThreadsResponse |-> ListActiveGuildThreadsResponse_json,
   ModifyChannelFields |-> ModifyChannelFields_json,
   ModifyCurrentMemberFields |-> ModifyCurrentMemberFields_json,
   ModifyCurrentUserFields |-> ModifyCurrentUserFields_json,
   ModifyGuildFields |-> ModifyGuildFields_json,
   ModifyGuildChannelPosition |-> ModifyGuildChannelPosition_json,
   ModifyGuildMemberFields |-> ModifyGuildMemberFields_json,
   RoleTags |-> RoleTags_json, Role |-> Role_json,
   UpdatePresence |-> UpdatePresence_json,
   StageInstance |-> StageInstance_json, Sticker |-> Sticker_json,
   User |-> User_json, VoiceState |-> VoiceState_json,
   ChannelCreate |-> ChannelCreate_json, ChannelDelete |-> ChannelDelete_json,
   ChannelUpdate |-> ChannelUpdate_json, GuildCreate |-> GuildCreate_json,
   GuildScheduledEventCreate |-> GuildScheduledEventCreate_json,
   GuildScheduledEventDelete |-> GuildScheduledEventDelete_json,
   GuildScheduledEventUpdate |-> GuildScheduledEventUpdate_json,
   GuildUpdate |-> GuildUpdate_json,
   IntegrationCreate |-> IntegrationCreate_json,
   IntegrationDelete |-> IntegrationDelete_json,
   IntegrationUpdate |-> IntegrationUpdate_json,
   InteractionCreate |-> InteractionCreate_json,
   MessageCreate |-> MessageCreate_json,
   PresenceUpdate |-> PresenceUpdate_json,
   StageInstanceCreate |-> StageInstanceCreate_json,
   StageInstanceDelete |-> StageInstanceDelete_json,
   StageInstanceUpdate |-> StageInstanceUpdate_json,
   ThreadCreate |-> ThreadCreate_json,
   ThreadMemberUpdate |-> ThreadMemberUpdate_json,
   ThreadUpdate |-> ThreadUpdate_json, UserUpdate |-> UserUpdate_json,
   VoiceStateUpdate |-> VoiceStateUpdate_json]
-----------------------------------------------------------------------------
(* Variants and named values: the reader picks an alternative by a tag, the *)
(* "type" of a component, the type of the interaction or option around it, *)
(* or the string of a named value.  cases gives the tags of the switch;    *)
(* any other tag is kept with its JSON (keeps), or replaced by the         *)
(* alternative a new variant holds.                                        *)

Cases(cases, otherwise) == [cases |-> cases, otherwise |-> otherwise, keeps |-> FALSE]
CasesOrRaw(cases, otherwise) == [Cases(cases, otherwise) EXCEPT !.keeps = TRUE]

Selects ==
  [SelectMenu |-> {3}, UserSelectMenu |-> {5}, RoleSelectMenu |-> {6},
   MentionableSelectMenu |-> {7}, ChannelSelectMenu |-> {8}]
With(f, g) == [x \in DOMAIN f \union DOMAIN g |-> IF x \in DOMAIN f THEN f[x] ELSE g[x]]

\* message_component.cpp.  Children of an action row or a label overwrite the
\* raw list; an accessory that is not read stays in the section's raw object.
ActionRowComponent_json ==
  Cases(With(Selects, [Button |-> {2}, TextInput |-> {4}, FileUpload |-> {19}]), "Button")
label_component_json ==
  Cases(With(Selects, [TextInput |-> {4}, FileUpload |-> {19}]), "TextInput")
SectionAccessory_json ==
  CasesOrRaw([Button |-> {2}, Thumbnail |-> {11}], "unset")
container_child_json ==
  CasesOrRaw(With(Selects,
    [ActionRow |-> {1}, Section |-> {9}, TextDisplay |-> {10}, Thumbnail |-> {11},
     MediaGallery |-> {12}, File |-> {13}, Separator |-> {14}, Button |-> {2}]),
    "UnknownMessageComponent")
MessageComponent_json ==
  CasesOrRaw(With(Selects,
    [ActionRow |-> {1}, Button |-> {2}, TextInput |-> {4}, Section |-> {9},
     TextDisplay |-> {10}, Thumbnail |-> {11}, MediaGallery |-> {12}, File |-> {13},
     Separator |-> {14}, Container |-> {17}, Label |-> {18}, FileUpload |-> {19}]),
    "UnknownMessageComponent")

\* component_interaction_response.cpp.  Each case of the first reader assigns
\* the response it read to a local of the same name: the variant stays new.
InteractiveComponentResponse_json == Cases([TextInputResponse |-> {}], "TextInputResponse")
ComponentInteractionResponse_json ==
  CasesOrRaw(
    [ActionRowResponse |-> {1}, StringSelectResponse |-> {3}, TextInputResponse |-> {4},
     UserSelectResponse |-> {5}, RoleSelectResponse |-> {6},
     MentionableSelectResponse |-> {7}, ChannelSelectResponse |-> {8},
     TextDisplayResponse |-> {10}, LabelResponse |-> {18}, FileUploadResponse |-> {19}],
    "UnknownComponentResponse")

\* interaction.cpp: by the type of the interaction; a ping's data is not read.
InteractionData_json ==
  Cases([ApplicationCommandData |-> {2, 4}, MessageComponentData |-> {3},
         ModalSubmitData |-> {5}], "unset")

\* application_command_data.cpp: by the type of the option, else by the form of
\* the value itself.
option_value_json ==
  CasesOrRaw([text |-> {3}, int64 |-> {4}, bool |-> {5}, double |-> {10},
              snowflake |-> {6, 7, 8, 9, 11}], "by form")

\* guild_feature.cpp, guild_interaction.cpp, presence.cpp
Named(names, unknown) == Cases([n \in names |-> {n}], unknown)
GuildFeature_json ==
  Named({"ANIMATED_BANNER", "ANIMATED_ICON", "AUTO_MODERATION", "BANNER", "COMMUNITY",
         "CREATOR_MONETIZABLE_PROVISIONAL", "CREATOR_STORE_PAGE",
         "DEVELOPER_SUPPORT_SERVER", "DISCOVERABLE", "FEATURABLE", "INVITES_DISABLED",
         "INVITE_SPLASH", "MEMBER_VERIFICATION_GATE_ENABLED", "MONETIZATION_ENABLED",
         "MORE_STICKERS", "NEWS", "PARTNERED", "PREVIEW_ENABLED", "PRIVATE_THREADS",
         "ROLE_ICONS", "ROLE_SUBSCRIPTIONS_AVAILABLE_FOR_PURCHASE",
         "ROLE_SUBSCRIPTIONS_ENABLED", "TICKETED_EVENTS_ENABLED", "VANITY_URL",
         "VERIFIED", "VIP_REGIONS", "WELCOME_SCREEN_ENABLED"}, "UNKNOWN")
GuildIntegrationType_json ==
  Named({"twitch", "youtube", "discord", "guild_subscription"}, "unknown")
Status_json == Named({"online", "dnd", "idle", "offline"}, "unknown")

Unions ==
  [ActionRowComponent |-> ActionRowComponent_json, Label_component |-> label_component_json,
   SectionAccessory |-> SectionAccessory_json, Container_child |-> container_child_json,
   MessageComponent |-> MessageComponent_json,
   InteractiveComponentResponse |-> InteractiveComponentResponse_json,
   ComponentInteractionResponse |-> ComponentInteractionResponse_json,
   InteractionData |-> InteractionData_json, option_value |-> option_value_json]
Names ==
  [GuildFeature |-> GuildFeature_json, GuildIntegrationType |-> GuildIntegrationType_json,
   Status |-> Status_json]

\* What the reader of a variant makes of a value: its alternative, its content
\* and the tag it was read with.
ReadAlternative(union, tag) ==
  LET found == {a \in DOMAIN union.cases : tag \in union.cases[a]} IN
  [alternative |-> IF found = {} THEN union.otherwise ELSE CHOOSE a \in found : TRUE,
   content |-> union.keeps \/ found # {}, tag |-> tag]

\* std::visit: an alternative with a type of its own writes that type.
WriteAlternative(read) ==
  [tag |-> IF read.alternative \in DOMAIN Codecs /\ Codecs[read.alternative].type # 0
           THEN Codecs[read.alternative].type ELSE read.tag,
   content |-> read.content]
=============================================================================
