--------------------------- MODULE GatewayStructs ---------------------------
(***************************************************************************)
(* The structures of gateway events: every field with the kind of its C++  *)
(* type, as in ModelStructs.                                               *)
(***************************************************************************)
EXTENDS ModelStructs

\* gateway/*.hpp
ChannelPinsUpdate ==
  [guild_id |-> Opt(Id), channel_id |-> Id, last_pin_timestamp |-> Opt(Val)]
GuildBanAdd == [guild_id |-> Id, user |-> Val]
GuildBanRemove == [guild_id |-> Id, user |-> Val]
GuildDelete == [guild_id |-> Id, unavailable |-> Flag]
GuildMemberAdd == [guild_id |-> Id, member |-> Val]
GuildMemberRemove == [guild_id |-> Id, member |-> Val]
GuildMemberUpdate ==
  [guild_id |-> Id, roles |-> Val, user |-> Val, nick |-> Opt(Val),
   avatar |-> Opt(Val), joined_at |-> Opt(Val), premium_since |-> Opt(Val),
   deaf |-> Opt(Flag), mute |-> Opt(Flag), pending |-> Flag,
   communication_disabled_until |-> Opt(Val)]
GuildMembersChunk ==
  [guild_id |-> Id, members |-> Val, chunk_index |-> Signed, chunk_count |-> Signed,
   not_found |-> Opt(Val), presences |-> Opt(Val), nonce |-> Opt(Val)]
GuildRoleCreate == [guild_id |-> Id, role |-> Val]
GuildRoleDelete == [guild_id |-> Id, role_id |-> Id]
GuildRoleUpdate == [guild_id |-> Id, role |-> Val]
GuildScheduledEventUserAdd ==
  [guild_id |-> Id, guild_scheduled_event_id |-> Id, user_id |-> Id]
GuildScheduledEventUserRemove ==
  [guild_id |-> Id, guild_scheduled_event_id |-> Id, user_id |-> Id]
GuildStickersUpdate == [guild_id |-> Id, stickers |-> Val]
PartialUser ==
  [id |-> Id, username |-> Val, discriminator |-> Val, avatar |-> Val]
InviteCreate ==
  [channel_id |-> Id, code |-> Val, created_at |-> Val, guild_id |-> Id,
   inviter |-> Val, max_age |-> Num, max_uses |-> Num,
   target_user_type |-> Val, target_user |-> Val, temporary |-> Flag,
   uses |-> Num]
InviteDelete == [channel_id |-> Id, code |-> Val, guild_id |-> Id]
MessageDelete == [id |-> Id, channel_id |-> Id, guild_id |-> Opt(Id)]
MessageDeleteBulk == [ids |-> Val, channel_id |-> Id, guild_id |-> Opt(Id)]
MessageReactionAdd ==
  [user_id |-> Id, channel_id |-> Id, message_id |-> Id, guild_id |-> Opt(Id),
   member |-> Opt(Val), emoji |-> Val, message_author_id |-> Id]
MessageReactionRemove ==
  [user_id |-> Id, channel_id |-> Id, message_id |-> Id, guild_id |-> Opt(Id),
   emoji |-> Val]
MessageReactionRemoveAll ==
  [channel_id |-> Id, message_id |-> Id, guild_id |-> Opt(Id)]
MessageReactionRemoveEmoji ==
  [channel_id |-> Id, guild_id |-> Opt(Id), message_id |-> Id, emoji |-> Val]
MessageUpdate ==
  [id |-> Id, channel_id |-> Id, author |-> Opt(Val), content |-> Opt(Val),
   timestamp |-> Opt(Val), edited_timestamp |-> Opt(Val), tts |-> Opt(Flag),
   mention_everyone |-> Opt(Flag), mentions |-> Opt(Val),
   mention_roles |-> Opt(Val), attachments |-> Opt(Val), embeds |-> Opt(Val),
   pinned |-> Opt(Flag), type |-> Opt(Val)]
Ready ==
  [v |-> Num, user |-> Val, guilds |-> Val, session_id |-> Val,
   resume_gateway_url |-> Val, shard_info |-> Opt(Val), application |-> Val]
ThreadDelete == [id |-> Id, guild_id |-> Id, parent_id |-> Id, type |-> Val]
ThreadListSync ==
  [guild_id |-> Id, channel_ids |-> Opt(Val), threads |-> Val, members |-> Val]
ThreadMembersUpdate ==
  [id |-> Id, guild_id |-> Id, member_count |-> Num,
   added_members |-> Opt(Val), removed_member_ids |-> Val]
TypingStart ==
  [channel_id |-> Id, guild_id |-> Opt(Id), user_id |-> Id, timestamp |-> Num,
   member |-> Opt(Val)]
VoiceServerUpdate == [token |-> Val, guild_id |-> Id, endpoint |-> Opt(Val)]
WebhooksUpdate == [guild_id |-> Id, channel_id |-> Id]

GuildEmojisUpdate == [guild_id |-> Id, emojis |-> Val]
GuildIntegrationsUpdate == [guild_id |-> Id]

\* gateway/*.hpp: events with one member
ChannelCreate == Channel
ChannelDelete == Channel
ChannelUpdate == Channel
GuildCreate == Guild
GuildScheduledEventCreate == GuildScheduledEvent
GuildScheduledEventDelete == GuildScheduledEvent
GuildScheduledEventUpdate == GuildScheduledEvent
GuildUpdate == PartialGuild
IntegrationCreate == GuildIntegration
IntegrationDelete == GuildIntegration
IntegrationUpdate == GuildIntegration
InteractionCreate == Interaction
MessageCreate == Message
PresenceUpdate == Presence
StageInstanceCreate == StageInstance
StageInstanceDelete == StageInstance
StageInstanceUpdate == StageInstance
ThreadCreate == Channel
ThreadMemberUpdate == ThreadMember
ThreadUpdate == Channel
UserUpdate == CurrentUser
VoiceStateUpdate == VoiceState
=============================================================================
