---------------------------- MODULE ModelStructs ----------------------------
(***************************************************************************)
(* The structures of the Discord API: every field with the kind of its     *)
(* C++ type, in the order of the headers under include/ekizu.  The member  *)
(* raw of the message components is kept by JsonCodec.                     *)
(***************************************************************************)
EXTENDS JsonCodec

\* application_command.hpp
ApplicationCommandOptionChoice ==
  [name |-> Val, name_localizations |-> Opt(Val), value |-> Choice]

\* application_command_data.hpp
ApplicationCommandInteractionDataOption ==
  [name |-> Val, type |-> Val, value |-> Opt(Val), options |-> Val,
   focused |-> Opt(Flag)]
ApplicationCommandData ==
  [id |-> Id, name |-> Val, type |-> Val, resolved |-> Opt(Val),
   options |-> Val, guild_id |-> Opt(Id), target_id |-> Opt(Id)]

\* application_command_data_resolved.hpp
InteractionChannel ==
  [id |-> Id, type |-> Val, name |-> Val, parent_id |-> Opt(Id),
   permissions |-> Id, thread_metadata |-> Opt(Val)]
InteractionMember ==
  [avatar |-> Opt(Val), communication_disabled_until |-> Opt(Val),
   flags |-> Val, joined_at |-> Val, nick |-> Opt(Val), pending |-> Flag,
   permissions |-> Id, premium_since |-> Opt(Val), roles |-> Val]
ApplicationCommandInteractionDataResolved ==
  [users |-> Map, members |-> Map, roles |-> Map, channels |-> Map,
   messages |-> Map, attachments |-> Map]

\* attachment.hpp
Attachment ==
  [id |-> Id, filename |-> Val, description |-> Val, content_type |-> Val,
   size |-> Num, url |-> Val, proxy_url |-> Val, height |-> Num,
   width |-> Num, ephemeral |-> Flag]
PartialAttachment ==
  [id |-> Opt(Id), filename |-> Opt(Val), description |-> Opt(Val)]

\* ban.hpp
Ban == [reason |-> Opt(Val), user |-> Val]

\* channel.hpp
DefaultReaction == [emoji_id |-> Id, emoji_name |-> Opt(Val)]
ForumTag ==
  [id |-> Id, name |-> Val, moderated |-> Flag, emoji_id |-> Opt(Id),
   emoji_name |-> Opt(Val)]
PermissionOverwrite == [id |-> Id, type |-> Val, allow |-> Id, deny |-> Id]
ThreadMetadata ==
  [archived |-> Flag, auto_archive_duration |-> Signed, archive_timestamp |-> Val,
   locked |-> Flag, invitable |-> Opt(Flag), create_timestamp |-> Opt(Val)]
ThreadMember ==
  [id |-> Opt(Id), user_id |-> Opt(Id), join_timestamp |-> Val, flags |-> Num,
   member |-> Opt(Val), presence |-> Opt(Val)]
Channel ==
  [id |-> Id, type |-> Val, guild_id |-> Opt(Id), position |-> Opt(Signed),
   permission_overwrites |-> Opt(Val), name |-> Opt(Val), topic |-> Opt(Val),
   nsfw |-> Flag, last_message_id |-> Opt(Id), bitrate |-> Opt(Signed),
   user_limit |-> Opt(Signed), rate_limit_per_user |-> Signed,
   recipients |-> Opt(Val), icon |-> Opt(Val), owner_id |-> Opt(Id),
   application_id |-> Opt(Id), managed |-> Flag, parent_id |-> Opt(Id),
   last_pin_timestamp |-> Opt(Val), rtc_region |-> Opt(Val),
   video_quality_mode |-> Opt(Signed), message_count |-> Opt(Signed),
   member_count |-> Opt(Signed), thread_metadata |-> Opt(Val),
   member |-> Opt(Val), default_auto_archive_duration |-> Opt(Signed),
   permissions |-> Opt(Val), flags |-> Opt(Signed),
   total_messages_sent |-> Opt(Signed), available_tags |-> Opt(Val),
   applied_tags |-> Opt(Val), default_reaction_emoji |-> Opt(Val),
   default_thread_rate_limit_per_user |-> Opt(Signed),
   default_sort_order |-> Opt(Signed), default_forum_layout |-> Opt(Signed)]

\* component_interaction_response.hpp
StringSelectResponse == [id |-> Opt(Num), custom_id |-> Val, values |-> Val]
TextInputResponse == [id |-> Opt(Num), custom_id |-> Val, value |-> Val]
UserSelectResponse == [id |-> Opt(Num), custom_id |-> Val, values |-> Val]
RoleSelectResponse == [id |-> Opt(Num), custom_id |-> Val, values |-> Val]
MentionableSelectResponse ==
  [id |-> Opt(Num), custom_id |-> Val, values |-> Val]
ChannelSelectResponse == [id |-> Opt(Num), custom_id |-> Val, values |-> Val]
TextDisplayResponse == [id |-> Opt(Num)]
LabelResponse == [id |-> Opt(Num), component |-> Opt(Interactive)]
FileUploadResponse == [id |-> Opt(Num), custom_id |-> Val, values |-> Val]
ActionRowResponse == [id |-> Opt(Num), components |-> Interactive]
UnknownComponentResponse == [type |-> Num]

\* current_user.hpp
CurrentUser ==
  [id |-> Id, username |-> Val, discriminator |-> Val, avatar |-> Opt(Val),
   bot |-> Flag, mfa_enabled |-> Flag, banner |-> Opt(Val),
   accent_color |-> Opt(Num), locale |-> Val, verified |-> Flag, flags |-> Val,
   premium_type |-> Val, public_flags |-> Val]

\* embed.hpp
EmbedImage ==
  [url |-> Opt(Val), proxy_url |-> Opt(Val), height |-> Opt(Num),
   width |-> Opt(Num)]
EmbedProvider == [name |-> Opt(Val), url |-> Opt(Val)]
EmbedAuthor ==
  [name |-> Val, url |-> Opt(Val), icon_url |-> Opt(Val),
   proxy_icon_url |-> Opt(Val)]
EmbedFooter ==
  [text |-> Val, icon_url |-> Opt(Val), proxy_icon_url |-> Opt(Val)]
EmbedField == [name |-> Val, value |-> Val, inline_ |-> Opt(Flag)]
Embed ==
  [title |-> Opt(Val), description |-> Opt(Val), url |-> Opt(Val),
   timestamp |-> Opt(Val), color |-> Opt(Num), footer |-> Opt(Val),
   image |-> Opt(Sparse), thumbnail |-> Opt(Val), video |-> Opt(Val),
   provider |-> Opt(Sparse), author |-> Opt(Val), fields |-> Opt(Val)]

\* emoji.hpp
Emoji ==
  [id |-> Opt(Id), name |-> Opt(Val), roles |-> Val, user_id |-> Id,
   require_colons |-> Flag, managed |-> Flag, animated |-> Flag,
   available |-> Flag, user |-> Val]
PartialEmoji == [id |-> Id, name |-> Val, animated |-> Opt(Flag)]

\* entitlement.hpp
Entitlement ==
  [id |-> Id, sku_id |-> Id, application_id |-> Id, user_id |-> Opt(Id),
   guild_id |-> Opt(Id), type |-> Val, deleted |-> Flag,
   starts_at |-> Opt(Val), ends_at |-> Opt(Val), consumed |-> Opt(Flag),
   promotion_id |-> Opt(Id), gift_code_flags |-> Opt(Num),
   subscription_id |-> Opt(Id)]

\* guild.hpp
UnavailableGuild == [id |-> Id, unavailable |-> Flag]
Guild ==
  [id |-> Id, name |-> Val, icon |-> Opt(Val), icon_hash |-> Opt(Val),
   splash |-> Opt(Val), discovery_splash |-> Opt(Val), owner |-> Flag,
   owner_id |-> Id, permissions |-> Val, region |-> Opt(Val),
   afk_channel_id |-> Opt(Id), afk_timeout |-> Num, widget_enabled |-> Flag,
   widget_channel_id |-> Opt(Id), verification_level |-> Val,
   default_message_notifications |-> Val, explicit_content_filter |-> Val,
   roles |-> Val, emojis |-> Val, features |-> Val, mfa_level |-> Val,
   application_id |-> Opt(Id), system_channel_id |-> Opt(Id),
   system_channel_flags |-> Val, rules_channel_id |-> Opt(Id),
   max_presences |-> Opt(Num), vanity_url_code |-> Val, description |-> Val,
   banner |-> Val, premium_tier |-> Val, premium_subscription_count |-> Num,
   preferred_locale |-> Val, public_updates_channel_id |-> Opt(Id),
   max_video_channel_users |-> Num, approximate_member_count |-> Num,
   approximate_presence_count |-> Num, nsfw_level |-> Val, stickers |-> Val,
   premium_progress_bar_enabled |-> Flag, safety_alerts_channel_id |-> Opt(Id),
   members |-> Val, voice_states |-> Val]

\* guild_interaction.hpp
IntegrationAccount == [id |-> Id, name |-> Val]
IntegrationApplication ==
  [id |-> Id, name |-> Val, icon |-> Opt(Val), description |-> Opt(Val),
   bot |-> Opt(Val)]
GuildIntegration ==
  [id |-> Id, name |-> Val, type |-> Val, enabled |-> Opt(Flag),
   syncing |-> Opt(Flag), role_id |-> Opt(Id), enable_emoticons |-> Opt(Flag),
   expire_behavior |-> Opt(Val), expire_grace_period |-> Opt(Num),
   user |-> Opt(Val), account |-> Val, synced_at |-> Opt(Val),
   subscriber_count |-> Opt(Num), revoked |-> Opt(Flag),
   application |-> Opt(Val), scopes |-> Opt(Val)]

\* guild_member.hpp
GuildMember ==
  [user |-> Val, nick |-> Opt(Val), avatar |-> Opt(Val), roles |-> Val,
   joined_at |-> Val, premium_since |-> Opt(Val), deaf |-> Flag, mute |-> Flag,
   pending |-> Flag, permissions |-> Val, communication_disabled_until |-> Val]

\* guild_preview.hpp
GuildPreview ==
  [id |-> Id, name |-> Val, icon |-> Opt(Val), splash |-> Opt(Val),
   discovery_splash |-> Opt(Val), emojis |-> Val, features |-> Val,
   approximate_member_count |-> Num, approximate_presence_count |-> Num,
   description |-> Opt(Val), stickers |-> Val]

\* guild_scheduled_event.hpp
EntityMetadata == [location |-> Opt(Val)]
GuildScheduledEvent ==
  [id |-> Id, guild_id |-> Id, channel_id |-> Opt(Id), creator_id |-> Opt(Id),
   name |-> Val, description |-> Opt(Val), scheduled_start_time |-> Val,
   scheduled_end_time |-> Opt(Val), privacy_level |-> Val, status |-> Val,
   entity_type |-> Val, entity_id |-> Opt(Id),
   entity_metadata |-> Opt(Sparse), creator |-> Val, user_count |-> Opt(Signed),
   image |-> Opt(Val)]

\* interaction.hpp
AuthorizingIntegrationOwners ==
  [guild_install |-> Opt(Id), user_install |-> Opt(Id)]
Interaction ==
  [id |-> Id, application_id |-> Id, type |-> Val, data |-> Opt(Val),
   guild_id |-> Opt(Id), guild |-> Opt(Val), channel |-> Opt(Val),
   channel_id |-> Opt(Id), member |-> Opt(Val), user |-> Opt(Val),
   token |-> Val, version |-> Signed, message |-> Opt(Val),
   app_permissions |-> Opt(Id), entitlements |-> Opt(Val),
   authorizing_integration_owners |-> Opt(Val), locale |-> Opt(Val),
   guild_locale |-> Opt(Val), context |-> Opt(Val),
   attachment_size_limit |-> Opt(Num)]

\* interaction_callback.hpp
InteractionCallbackActivityInstance == [id |-> Val]
InteractionCallbackResource ==
  [type |-> Val, activity_instance |-> Opt(Val), message |-> Opt(Val)]
InteractionCallback ==
  [id |-> Id, type |-> Val, activity_instance_id |-> Opt(Val),
   response_message_id |-> Opt(Id), response_message_loading |-> Opt(Flag),
   response_message_ephemeral |-> Opt(Flag)]
InteractionCallbackResponse == [interaction |-> Val, resource |-> Opt(Val)]

\* invite.hpp
InviteChannel == [id |-> Id, name |-> Val, type |-> Val]
InviteGuild ==
  [id |-> Id, name |-> Val, splash |-> Opt(Val), banner |-> Opt(Val),
   description |-> Opt(Val), icon |-> Opt(Val), features |-> Val,
   verification_level |-> Val, vanity_url_code |-> Opt(Val),
   nsfw_level |-> Val, premium_subscription_count |-> Num]
Invite ==
  [code |-> Val, guild |-> Opt(Val), channel |-> Val, inviter |-> Opt(Val),
   target_type |-> Val, target_user |-> Opt(Val),
   approximate_presence_count |-> Opt(Num),
   approximate_member_count |-> Opt(Num), expires_at |-> Opt(Val)]

\* mention.hpp
Mention ==
  [id |-> Id, username |-> Val, discriminator |-> Val,
   global_name |-> Opt(Val), avatar |-> Opt(Val), bot |-> Flag,
   system |-> Opt(Flag), mfa_enabled |-> Opt(Flag), banner |-> Opt(Val),
   accent_color |-> Opt(Signed), locale |-> Opt(Val), verified |-> Opt(Flag),
   email |-> Opt(Val), flags |-> Opt(Signed), premium_type |-> Opt(Signed),
   public_flags |-> Opt(Signed), avatar_decoration |-> Opt(Val)]

\* message.hpp
AllowedMentions ==
  [parse |-> Val, roles |-> Val, users |-> Val, replied_user |-> Flag]
ChannelMention == [id |-> Id, guild_id |-> Id, type |-> Val, name |-> Val]
MessageActivity == [type |-> Val, party_id |-> Opt(Val)]
MessageApplication ==
  [id |-> Id, name |-> Val, icon |-> Opt(Val), description |-> Val,
   cover_image |-> Opt(Val)]
MessageInteraction ==
  [id |-> Id, type |-> Val, name |-> Val, user |-> Val, member |-> Opt(Val)]
MessageReference ==
  [message_id |-> Opt(Id), channel_id |-> Opt(Id), guild_id |-> Opt(Id),
   fail_if_not_exists |-> Opt(Flag)]
Message ==
  [id |-> Id, channel_id |-> Id, guild_id |-> Opt(Id), author |-> Val,
   content |-> Val, timestamp |-> Val, edited_timestamp |-> Opt(Val),
   tts |-> Flag, mention_everyone |-> Flag, mentions |-> Val,
   mention_roles |-> Val, mention_channels |-> Val, attachments |-> Val,
   embeds |-> Val, nonce |-> Val, pinned |-> Flag, webhook_id |-> Id,
   type |-> Val, activity |-> Opt(Val), application |-> Opt(Val),
   application_id |-> Opt(Id), message_reference |-> Sparse, flags |-> Val,
   referenced_message |-> Id, interaction |-> Opt(Val), components |-> Val,
   crossposted |-> Flag, deleted |-> Flag]

\* message_component.hpp
Button ==
  [id |-> Opt(Num), style |-> Val, label |-> Opt(Val), emoji |-> Opt(Val),
   custom_id |-> Opt(Val), url |-> Opt(Val), sku_id |-> Opt(Num),
   disabled |-> Flag]
SelectOptions ==
  [label |-> Val, value |-> Val, description |-> Opt(Val), emoji |-> Opt(Val),
   default_ |-> Opt(Flag)]
SelectMenuDefaultValue == [id |-> Num, type |-> Val]
SelectMenu ==
  [id |-> Opt(Num), custom_id |-> Val, options |-> Val,
   placeholder |-> Opt(Val), min_values |-> Opt(Num), max_values |-> Opt(Num),
   disabled |-> Opt(Flag)]
UserSelectMenu ==
  [id |-> Opt(Num), custom_id |-> Val, placeholder |-> Opt(Val),
   min_values |-> Opt(Num), max_values |-> Opt(Num), disabled |-> Opt(Flag),
   default_values |-> Opt(Val)]
RoleSelectMenu ==
  [id |-> Opt(Num), custom_id |-> Val, placeholder |-> Opt(Val),
   min_values |-> Opt(Num), max_values |-> Opt(Num), disabled |-> Opt(Flag),
   default_values |-> Opt(Val)]
MentionableSelectMenu ==
  [id |-> Opt(Num), custom_id |-> Val, placeholder |-> Opt(Val),
   min_values |-> Opt(Num), max_values |-> Opt(Num), disabled |-> Opt(Flag),
   default_values |-> Opt(Val)]
ChannelSelectMenu ==
  [id |-> Opt(Num), custom_id |-> Val, placeholder |-> Opt(Val),
   min_values |-> Opt(Num), max_values |-> Opt(Num), disabled |-> Opt(Flag),
   channel_types |-> Opt(Val), default_values |-> Opt(Val)]
TextInput ==
  [id |-> Opt(Num), custom_id |-> Val, style |-> Val, label |-> Val,
   min_length |-> Opt(Num), max_length |-> Opt(Num), required |-> Opt(Flag),
   value |-> Opt(Val), placeholder |-> Opt(Val)]
ActionRow == [id |-> Opt(Num), components |-> Val]
UnfurledMediaItem == [url |-> Val]
TextDisplay == [id |-> Opt(Num), content |-> Val]
Thumbnail ==
  [id |-> Opt(Num), media |-> Val, description |-> Opt(Val),
   spoiler |-> Opt(Flag)]
Section == [id |-> Opt(Num), components |-> Val, accessory |-> Opt(Val)]
MediaGalleryItem ==
  [media |-> Val, description |-> Opt(Val), spoiler |-> Opt(Flag)]
MediaGallery == [id |-> Opt(Num), items |-> Val]
File == [id |-> Opt(Num), file |-> Val, spoiler |-> Opt(Flag)]
Separator == [id |-> Opt(Num), divider |-> Opt(Flag), spacing |-> Opt(Num)]
FileUpload ==
  [id |-> Opt(Num), custom_id |-> Val, min_values |-> Opt(Num),
   max_values |-> Opt(Num), required |-> Opt(Flag)]
Label ==
  [id |-> Opt(Num), label |-> Val, description |-> Opt(Val), component |-> Val]
UnknownMessageComponent == [type |-> Num]
Container ==
  [id |-> Opt(Num), accent_color |-> Opt(Num), spoiler |-> Opt(Flag),
   components |-> Val]

\* message_component_data.hpp
MessageComponentData ==
  [custom_id |-> Val, type |-> Val, values |-> Opt(Val), resolved |-> Opt(Val)]

\* modal_submit_data.hpp
ModalSubmitData ==
  [custom_id |-> Val, components |-> Val, resolved |-> Opt(Val)]

\* partial_application.hpp
PartialApplication == [id |-> Id, flags |-> Val]

\* partial_guild.hpp
PartialGuild ==
  [id |-> Id, name |-> Val, icon |-> Opt(Val), icon_hash |-> Opt(Val),
   splash |-> Opt(Val), discovery_splash |-> Opt(Val), owner |-> Opt(Flag),
   owner_id |-> Id, permissions |-> Opt(Id), region |-> Opt(Val),
   afk_channel_id |-> Opt(Id), afk_timeout |-> Num,
   widget_enabled |-> Opt(Flag), widget_channel_id |-> Opt(Id),
   verification_level |-> Val, default_message_notifications |-> Val,
   explicit_content_filter |-> Val, roles |-> Val, emojis |-> Val,
   features |-> Val, mfa_level |-> Val, application_id |-> Opt(Id),
   system_channel_id |-> Opt(Id), system_channel_flags |-> Val,
   rules_channel_id |-> Opt(Id), max_presences |-> Opt(Num),
   max_members |-> Opt(Num), vanity_url_code |-> Opt(Val),
   description |-> Opt(Val), banner |-> Opt(Val), premium_tier |-> Val,
   premium_subscription_count |-> Opt(Num), preferred_locale |-> Val,
   public_updates_channel_id |-> Opt(Id), nsfw_level |-> Val,
   stickers |-> Val, premium_progress_bar_enabled |-> Flag,
   max_video_channel_users |-> Opt(Num),
   max_stage_video_channel_users |-> Opt(Num),
   approximate_member_count |-> Opt(Num),
   approximate_presence_count |-> Opt(Num)]

\* partial_interaction_channel.hpp
PartialInteractionChannel ==
  [id |-> Id, type |-> Val, name |-> Val, parent_id |-> Opt(Id),
   permissions |-> Id, thread_metadata |-> Opt(Val)]

\* partial_interaction_guild.hpp
PartialInteractionGuild == [id |-> Id, locale |-> Val, features |-> Val]

\* partial_member.hpp
PartialMember ==
  [user |-> Opt(Val), nick |-> Opt(Val), avatar |-> Opt(Val),
   roles |-> Opt(Val), joined_at |-> Val, premium_since |-> Opt(Val),
   deaf |-> Flag, mute |-> Flag, pending |-> Opt(Flag), permissions |-> Opt(Val),
   communication_disabled_until |-> Opt(Val)]

\* poll.hpp
PollMedia == [text |-> Opt(Val), emoji |-> Opt(Val)]
PollAnswer == [answer_id |-> Num, poll_media |-> Sparse]
Poll ==
  [question |-> Sparse, answers |-> Val, duration |-> Opt(Num),
   allow_multiselect |-> Opt(Flag), layout_type |-> Opt(Val)]

\* presence.hpp
ActivityAssets ==
  [large_image |-> Opt(Val), large_text |-> Opt(Val),
   small_image |-> Opt(Val), small_text |-> Opt(Val)]
ActivityButton == [label |-> Val, url |-> Val]
ActivityEmoji == [name |-> Val, id |-> Id, animated |-> Opt(Flag)]
ActivityParty == [id |-> Opt(Val), size |-> Opt(Val)]
ActivitySecrets ==
  [join |-> Opt(Val), spectate |-> Opt(Val), match |-> Opt(Val)]
ActivityTimestamps == [start |-> Opt(Num), end |-> Opt(Num)]
Activity ==
  [name |-> Val, type |-> Val, url |-> Opt(Val), created_at |-> Opt(Num),
   timestamps |-> Opt(Sparse), application_id |-> Opt(Id),
   details |-> Opt(Val), state |-> Opt(Val), emoji |-> Opt(Val),
   party |-> Opt(Sparse), assets |-> Opt(Sparse), secrets |-> Opt(Sparse),
   instance |-> Opt(Flag), flags |-> Opt(Val), buttons |-> Opt(Val)]
ClientStatus == [desktop |-> Opt(Val), mobile |-> Opt(Val), web |-> Opt(Val)]
Presence ==
  [activities |-> Val, client_status |-> Sparse, guild_id |-> Id,
   status |-> Val]

\* request/*.hpp
AddGuildMemberFields ==
  [access_token |-> Val, nick |-> Opt(Val), roles |-> Opt(Val),
   mute |-> Opt(Flag), deaf |-> Opt(Flag)]

\* application_command.hpp
ApplicationCommandOption ==
  [type |-> Val, name |-> Val, name_localizations |-> Opt(Val),
   description |-> Val, description_localizations |-> Opt(Val),
   required |-> Flag, choices |-> Opt(Val), options |-> Opt(Val),
   channel_types |-> Opt(Val), min_value |-> Opt(Val), max_value |-> Opt(Val),
   min_length |-> Opt(Signed), max_length |-> Opt(Signed), autocomplete |-> Flag,
   value |-> Val]

\* request/*.hpp
ApplicationCommandCreateFields ==
  [name |-> Val, name_localizations |-> Opt(Val), description |-> Opt(Val),
   description_localizations |-> Opt(Val), options |-> Opt(Val),
   default_member_permissions |-> Opt(Val), integration_types |-> Opt(Val),
   contexts |-> Opt(Val), type |-> Val, nsfw |-> Flag]

\* application_command.hpp
ApplicationCommand ==
  [id |-> Id, type |-> Val, application_id |-> Id, guild_id |-> Opt(Id),
   name |-> Val, name_localizations |-> Opt(Val), description |-> Val,
   description_localizations |-> Opt(Val), options |-> Opt(Val),
   default_member_permissions |-> Opt(Val), dm_permission |-> Opt(Flag),
   default_permission |-> Opt(Flag), nsfw |-> Flag,
   integration_types |-> Opt(Val), contexts |-> Opt(Val), version |-> Id]

\* request/*.hpp
RoleFields ==
  [id |-> Id, name |-> Val, color |-> Opt(Num), hoist |-> Opt(Flag),
   position |-> Opt(Num), permissions |-> Opt(Id), mentionable |-> Opt(Flag)]
CategoryChannelFields ==
  [id |-> Id, type |-> Val, name |-> Val, permission_overwrites |-> Opt(Val)]
TextChannelFields ==
  [id |-> Id, type |-> Val, name |-> Val, topic |-> Opt(Val),
   nsfw |-> Opt(Flag), rate_limit_per_user |-> Opt(Num), parent_id |-> Opt(Id)]
VoiceChannelFields ==
  [id |-> Id, type |-> Val, permission_overwrites |-> Opt(Val), name |-> Val,
   bitrate |-> Opt(Num), user_limit |-> Opt(Num), parent_id |-> Opt(Id)]
CreateGuildFields ==
  [name |-> Val, region |-> Opt(Val), icon |-> Opt(Val),
   verification_level |-> Opt(Val),
   default_message_notifications |-> Opt(Val),
   explicit_content_filter |-> Opt(Val), roles |-> Opt(Val),
   channels |-> Opt(Val), afk_channel_id |-> Opt(Id),
   afk_timeout |-> Opt(Num), system_channel_id |-> Opt(Id),
   system_channel_flags |-> Opt(Val)]
CreateGuildChannelFields ==
  [name |-> Val, type |-> Opt(Val), topic |-> Opt(Val), bitrate |-> Opt(Num),
   user_limit |-> Opt(Num), rate_limit_per_user |-> Opt(Num),
   position |-> Opt(Num), permission_overwrites |-> Opt(Val),
   parent_id |-> Opt(Id), nsfw |-> Opt(Flag), rtc_region |-> Opt(Val),
   video_quality_mode |-> Opt(Val),
   default_auto_archive_duration |-> Opt(Num),
   default_reaction_emoji |-> Opt(Val), available_tags |-> Opt(Val),
   default_sort_order |-> Opt(Val), default_forum_layout |-> Opt(Val),
   default_thread_rate_limit_per_user |-> Opt(Num)]
CreateInviteFields ==
  [max_age |-> Opt(Num), max_uses |-> Opt(Num), temporary |-> Opt(Flag),
   unique |-> Opt(Flag), target_type |-> Opt(Val), target_user_id |-> Opt(Id),
   target_application_id |-> Opt(Id)]
CreateMessageFields ==
  [content |-> Opt(Val), nonce |-> Opt(Num), tts |-> Opt(Flag),
   embeds |-> Opt(Val), allowed_mentions |-> Opt(Val),
   message_reference |-> Opt(Sparse), components |-> Opt(Val),
   sticker_ids |-> Opt(Val), payload_json |-> Opt(Val),
   attachments |-> Opt(Val), flags |-> Opt(Val)]
InteractionResponseData ==
  [tts |-> Opt(Flag), content |-> Opt(Val), embeds |-> Opt(Val),
   allowed_mentions |-> Opt(Val), flags |-> Opt(Val), components |-> Opt(Val),
   attachments |-> Opt(Val), choices |-> Opt(Val), custom_id |-> Opt(Val),
   title |-> Opt(Val), poll |-> Opt(Val)]
InteractionResponse == [type |-> Val, data |-> Opt(Sparse)]
EditMessageFields ==
  [content |-> Opt(Val), embeds |-> Opt(Val), flags |-> Opt(Val),
   allowed_mentions |-> Opt(Val), components |-> Opt(Val),
   payload_json |-> Opt(Val), attachments |-> Opt(Val)]
FollowedChannel == [channel_id |-> Id, webhook_id |-> Id]
ListActiveGuildThreadsResponse == [threads |-> Val, members |-> Val]
ModifyChannelFields ==
  [name |-> Opt(Val), type |-> Opt(Val), position |-> Opt(Num),
   topic |-> Opt(Val), nsfw |-> Opt(Flag), rate_limit_per_user |-> Opt(Num),
   bitrate |-> Opt(Num), user_limit |-> Opt(Num),
   permission_overwrites |-> Opt(Val), parent_id |-> Opt(Id),
   rtc_region |-> Opt(Val), video_quality_mode |-> Opt(Val),
   flags |-> Opt(Val), available_tags |-> Opt(Val),
   default_reaction_emoji |-> Opt(Val),
   default_thread_rate_limit_per_user |-> Opt(Num),
   default_sort_order |-> Opt(Val), default_forum_layout |-> Opt(Val)]
ModifyCurrentMemberFields == [nick |-> Opt(Val)]
ModifyCurrentUserFields == [avatar |-> Opt(Val), username |-> Opt(Val)]
ModifyGuildFields ==
  [name |-> Opt(Val), region |-> Opt(Val), verification_level |-> Opt(Val),
   default_message_notifications |-> Opt(Val),
   explicit_content_filter |-> Opt(Val), afk_channel_id |-> Opt(Id),
   afk_timeout |-> Opt(Num), icon |-> Opt(Val), owner_id |-> Opt(Id),
   splash |-> Opt(Val), discovery_splash |-> Opt(Val), banner |-> Opt(Val),
   system_channel_id |-> Opt(Id), system_channel_flags |-> Opt(Val),
   rules_channel_id |-> Opt(Id), public_updates_channel_id |-> Opt(Id),
   preferred_locale |-> Opt(Val), features |-> Opt(Val),
   description |-> Opt(Val), premium_progress_bar_enabled |-> Opt(Flag),
   safety_alerts_channel_id |-> Opt(Id)]
ModifyGuildChannelPosition ==
  [id |-> Id, position |-> Opt(Num), lock_permissions |-> Opt(Flag),
   parent_id |-> Opt(Id)]
ModifyGuildMemberFields ==
  [nick |-> Opt(Val), roles |-> Opt(Val), mute |-> Opt(Flag),
   deaf |-> Opt(Flag), channel_id |-> Opt(Id),
   communication_disabled_until |-> Opt(Val), flags |-> Opt(Val)]

\* role.hpp
RoleTags ==
  [bot_id |-> Id, integration_id |-> Id, premium_subscriber |-> Flag,
   subscription_listing_id |-> Id, available_for_purchase |-> Flag,
   guild_connections |-> Flag]
Role ==
  [id |-> Id, name |-> Val, color |-> Num, hoist |-> Flag, icon |-> Opt(Val),
   unicode_emoji |-> Opt(Val), position |-> Num, permissions |-> Num,
   managed |-> Flag, mentionable |-> Flag, tags |-> Val, flags |-> Num]

\* shard.hpp
UpdatePresence ==
  [idle_since |-> Opt(Num), activities |-> Val, status |-> Val, afk |-> Flag]

\* stage_instance.hpp
StageInstance ==
  [id |-> Id, guild_id |-> Id, channel_id |-> Id, topic |-> Val,
   privacy_level |-> Signed, discoverable_disabled |-> Flag,
   guild_scheduled_event_id |-> Opt(Id)]

\* sticker.hpp
Sticker ==
  [id |-> Id, pack_id |-> Id, name |-> Val, description |-> Opt(Val),
   tags |-> Val, type |-> Val, format_type |-> Val, available |-> Flag,
   guild_id |-> Id, user |-> Val, sort_value |-> Signed]

\* user.hpp
User ==
  [id |-> Id, username |-> Val, discriminator |-> Val,
   global_name |-> Opt(Val), avatar |-> Opt(Val), bot |-> Flag, system |-> Flag,
   mfa_enabled |-> Flag, banner |-> Opt(Val), accent_color |-> Opt(Num),
   locale |-> Val, verified |-> Flag, email |-> Opt(Val), flags |-> Val,
   premium_type |-> Val, public_flags |-> Val, avatar_decoration |-> Opt(Val)]

\* voice_state.hpp
VoiceState ==
  [guild_id |-> Opt(Id), channel_id |-> Opt(Id), user_id |-> Id,
   member |-> Opt(Val), session_id |-> Val, deaf |-> Flag, mute |-> Flag,
   self_deaf |-> Flag, self_mute |-> Flag, self_stream |-> Opt(Flag),
   self_video |-> Flag, suppress |-> Flag,
   request_to_speak_timestamp |-> Opt(Val)]

-----------------------------------------------------------------------------
(* Builders: the fields their setters reach.                               *)

ApplicationCommandOptionBuilder == DOMAIN ApplicationCommandOption \ {"value"}
EmbedBuilder == DOMAIN Embed \ {"timestamp"}
EmojiBuilder == DOMAIN PartialEmoji
ButtonBuilder == DOMAIN Button
SelectOptionsBuilder == DOMAIN SelectOptions
SelectMenuDefaultValueBuilder == DOMAIN SelectMenuDefaultValue
SelectMenuBuilder == DOMAIN SelectMenu
UserSelectMenuBuilder == DOMAIN UserSelectMenu
RoleSelectMenuBuilder == DOMAIN RoleSelectMenu
MentionableSelectMenuBuilder == DOMAIN MentionableSelectMenu
ChannelSelectMenuBuilder == DOMAIN ChannelSelectMenu
TextInputBuilder == DOMAIN TextInput
UnfurledMediaItemBuilder == DOMAIN UnfurledMediaItem
TextDisplayBuilder == DOMAIN TextDisplay
ThumbnailBuilder == DOMAIN Thumbnail
SectionBuilder == DOMAIN Section
MediaGalleryItemBuilder == DOMAIN MediaGalleryItem
MediaGalleryBuilder == DOMAIN MediaGallery
FileBuilder == DOMAIN File
SeparatorBuilder == DOMAIN Separator
FileUploadBuilder == DOMAIN FileUpload
LabelBuilder == DOMAIN Label
ActionRowBuilder == DOMAIN ActionRow
ContainerBuilder == DOMAIN Container
InteractionResponseBuilder == DOMAIN InteractionResponse

Builders ==
  [ApplicationCommandOption |-> ApplicationCommandOptionBuilder,
   Embed |-> EmbedBuilder, PartialEmoji |-> EmojiBuilder,
   Button |-> ButtonBuilder, SelectOptions |-> SelectOptionsBuilder,
   SelectMenuDefaultValue |-> SelectMenuDefaultValueBuilder,
   SelectMenu |-> SelectMenuBuilder, UserSelectMenu |-> UserSelectMenuBuilder,
   RoleSelectMenu |-> RoleSelectMenuBuilder,
   MentionableSelectMenu |-> MentionableSelectMenuBuilder,
   ChannelSelectMenu |-> ChannelSelectMenuBuilder,
   TextInput |-> TextInputBuilder,
   UnfurledMediaItem |-> UnfurledMediaItemBuilder,
   TextDisplay |-> TextDisplayBuilder, Thumbnail |-> ThumbnailBuilder,
   Section |-> SectionBuilder, MediaGalleryItem |-> MediaGalleryItemBuilder,
   MediaGallery |-> MediaGalleryBuilder, File |-> FileBuilder,
   Separator |-> SeparatorBuilder, FileUpload |-> FileUploadBuilder,
   Label |-> LabelBuilder, ActionRow |-> ActionRowBuilder,
   Container |-> ContainerBuilder,
   InteractionResponse |-> InteractionResponseBuilder]
=============================================================================
