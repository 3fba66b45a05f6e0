----------------------------- MODULE EventTypes -----------------------------
(***************************************************************************)
(* The payload structs of src/inc/tpp/dispatcher.h as they are declared:   *)
(* the subscription type and the router their comment names, and the type  *)
(* of every member.  A listener is told to expect what is declared here;   *)
(* what the handlers really do is in EventHandlers.                        *)
(***************************************************************************)
EXTENDS EventPayload

Payload(of, through, members) == [of |-> of, through |-> through, members |-> members]

chat_message_t == Payload("channel.chat.message", "on_chat_message", Members("message", {"msg"}))

automod_message_hold_t == Payload("automod.message.hold", "on_automod_message_hold",
  Members("string", {"category", "held_at", "reason"}) @@ Members("int", {"level"})
  @@ Members("message", {"msg"}) @@ Members("automod_check_result", {"automod"})
  @@ Members("blocked_term_check_result", {"blocked_term"}))

automod_message_update_t == Payload("automod.message.update", "on_automod_message_update",
  Members("user", {"moderator"}) @@ Members("string", {"status", "category", "held_at", "reason"})
  @@ Members("int", {"level"}) @@ Members("message", {"msg"})
  @@ Members("automod_check_result", {"automod"})
  @@ Members("blocked_term_check_result", {"blocked_term"}))

automod_settings_update_t == Payload("automod.settings.update", "on_automod_settings_update",
  Members("user", {"broadcaster", "moderator"})
  @@ Members("int", {"overall_level", "bullying", "disability", "race_ethnicity_or_religion",
      "misogyny", "sexuality_sex_or_gender", "aggression", "sex_based_terms", "swearing"}))

automod_terms_update_t == Payload("automod.terms.update", "on_automod_terms_update",
  Members("user", {"broadcaster", "moderator"}) @@ Members("string", {"action"})
  @@ Members("bool", {"from_automod"}) @@ Lists("string", {"terms"}))

channel_update_t == Payload("channel.update", "on_channel_update",
  Members("user", {"broadcaster"})
  @@ Members("string", {"title", "language", "category_id", "category_name"})
  @@ Lists("string", {"content_classification_labels"}))

channel_follow_t == Payload("channel.follow", "on_channel_follow",
  Members("user", {"broadcaster", "follower"}) @@ Members("string", {"followed_at"}))

channel_ad_break_begin_t == Payload("channel.ad_break.begin", "on_channel_ad_break_begin",
  Members("user", {"broadcaster", "requester"}) @@ Members("string", {"started_at"})
  @@ Members("int", {"duration_seconds"}) @@ Members("bool", {"is_automatic"}))

channel_chat_clear_t == Payload("channel.chat.clear", "on_channel_chat_clear",
  Members("user", {"broadcaster"}))

channel_chat_clear_user_messages_t == Payload(
  "channel.chat.clear_user_messages", "on_channel_chat_clear_user_messages",
  Members("user", {"broadcaster", "target"}))

channel_chat_message_delete_t == Payload(
  "channel.chat.message_delete", "on_channel_chat_message_delete",
  Members("user", {"broadcaster", "target"}) @@ Members("string", {"message_id"}))

channel_chat_notification_t == Payload(
  "channel.chat.notification", "on_channel_chat_notification",
  Members("string", {"color", "system_message", "notice_type"})
  @@ Members("bool", {"chatter_is_anonymous"}) @@ Members("message", {"msg"})
  @@ Members("chat_notice_metadata", {"notice_metadata"}) @@ Lists("chat_badge", {"badges"}))

channel_chat_settings_update_t == Payload(
  "channel.chat_settings.update", "on_channel_chat_settings_update",
  Members("user", {"broadcaster"})
  @@ Members("int", {"follower_mode_duration_minutes", "slow_mode_wait_time_seconds"})
  @@ Members("bool", {"emote_mode", "follower_mode", "slow_mode", "subscriber_mode",
      "unique_chat_mode"}))

channel_chat_user_message_hold_t == Payload(
  "channel.chat.user_message_hold", "on_channel_chat_user_message_hold",
  Members("message", {"msg"}))

channel_chat_user_message_update_t == Payload(
  "channel.chat.user_message_update", "on_channel_chat_user_message_update",
  Members("string", {"status"}) @@ Members("message", {"msg"}))

channel_shared_chat_begin_t == Payload(
  "channel.shared_chat.begin", "on_channel_shared_chat_begin",
  Members("user", {"broadcaster", "host_broadcaster"}) @@ Members("string", {"session_id"})
  @@ Lists("user", {"participants"}))

channel_shared_chat_update_t == Payload(
  "channel.shared_chat.update", "on_channel_shared_chat_update",
  Members("user", {"broadcaster", "host_broadcaster"}) @@ Members("string", {"session_id"})
  @@ Lists("user", {"participants"}))

channel_shared_chat_end_t == Payload("channel.shared_chat.end", "on_channel_shared_chat_end",
  Members("user", {"broadcaster", "host_broadcaster"}) @@ Members("string", {"session_id"}))

channel_subscribe_t == Payload("channel.subscribe", "on_channel_subscribe",
  Members("user", {"broadcaster", "subscriber"}) @@ Members("string", {"tier"})
  @@ Members("bool", {"is_gift"}))

channel_subscription_end_t == Payload("channel.subscription.end", "on_channel_subscription_end",
  Members("user", {"broadcaster", "subscriber"}) @@ Members("string", {"tier"})
  @@ Members("bool", {"is_gift"}))

channel_subscription_gift_t == Payload(
  "channel.subscription.gift", "on_channel_subscription_gift",
  Members("user", {"broadcaster", "gifter"}) @@ Members("string", {"tier"})
  @@ Members("int", {"total", "cumulative_total"})
  @@ Members("bool", {"is_anonymous", "cumulative_total_is_null"}))

channel_subscription_message_t == Payload(
  "channel.subscription.message", "on_channel_subscription_message",
  Members("string", {"tier"})
  @@ Members("int", {"cumulative_months", "streak_months", "duration_months"})
  @@ Members("bool", {"streak_months_is_null"}) @@ Members("message", {"msg"}))

channel_cheer_t == Payload("channel.cheer", "on_channel_cheer",
  Members("user", {"broadcaster", "chatter"}) @@ Members("string", {"message"})
  @@ Members("int", {"bits"}) @@ Members("bool", {"is_anonymous"}))

channel_raid_t == Payload("channel.raid", "on_channel_raid",
  Members("user", {"from_broadcaster", "to_broadcaster"}) @@ Members("int", {"viewers"}))

channel_ban_t == Payload("channel.ban", "on_channel_ban",
  Members("user", {"broadcaster", "target", "moderator"})
  @@ Members("string", {"reason", "banned_at", "ends_at"}) @@ Members("bool", {"is_permanent"}))

channel_unban_t == Payload("channel.unban", "on_channel_unban",
  Members("user", {"broadcaster", "target", "moderator"}))

channel_unban_request_create_t == Payload(
  "channel.unban_request.create", "on_channel_unban_request_create",
  Members("user", {"broadcaster", "target"}) @@ Members("string", {"id", "text", "created_at"}))

channel_unban_request_resolve_t == Payload(
  "channel.unban_request.resolve", "on_channel_unban_request_resolve",
  Members("user", {"broadcaster", "moderator", "target"})
  @@ Members("string", {"id", "resolution_text", "status"}))

channel_moderate_t == Payload("channel.moderate", "on_channel_moderate",
  Members("user", {"broadcaster", "source_broadcaster", "moderator"})
  @@ Members("string", {"action"})
  @@ Members("channel_moderate_action_metadata", {"action_metadata"}))

channel_moderator_add_t == Payload("channel.moderator.add", "on_channel_moderator_add",
  Members("user", {"broadcaster", "moderator"}))

channel_moderator_remove_t == Payload("channel.moderator.remove", "on_channel_moderator_remove",
  Members("user", {"broadcaster", "moderator"}))

channel_guest_star_session_begin_t == Payload(
  "channel.guest_star_session.begin", "on_channel_guest_star_session_begin",
  Members("user", {"broadcaster"}) @@ Members("string", {"session_id", "started_at"}))

channel_guest_star_session_end_t == Payload(
  "channel.guest_star_session.end", "on_channel_guest_star_session_end",
  Members("user", {"broadcaster", "host"})
  @@ Members("string", {"session_id", "started_at", "ended_at"}))

channel_guest_star_guest_update_t == Payload(
  "channel.guest_star_guest.update", "on_channel_guest_star_guest_update",
  Members("user", {"broadcaster", "moderator", "guest", "host"})
  @@ Members("string", {"session_id", "slot_id", "state"}) @@ Members("int", {"host_volume"})
  @@ Members("bool", {"host_video_enabled", "host_audio_enabled"}))

channel_guest_star_settings_update_t == Payload(
  "channel.guest_star_settings.update", "on_channel_guest_star_settings_update",
  Members("user", {"broadcaster"}) @@ Members("string", {"group_layout"})
  @@ Members("int", {"slot_count"})
  @@ Members("bool", {"is_moderator_send_live_enabled", "is_browser_source_audio_enabled"}))

channel_channel_points_automatic_reward_redemption_add_t == Payload(
  "channel.channel_points_automatic_reward_redemption.add", "on_channel_channel_points_automatic_reward_redemption_add",
  Members("user", {"broadcaster", "redeemer"})
  @@ Members("string", {"reward_id", "reward_title", "reward_prompt", "user_input",
      "redeemed_at"}) @@ Members("int", {"reward_cost"}))

channel_channel_points_custom_reward_add_t == Payload(
  "channel.channel_points_custom_reward.add", "on_channel_channel_points_custom_reward_add",
  Members("user", {"broadcaster"})
  @@ Members("string", {"id", "title", "prompt", "cooldown_expires_at", "background_color"})
  @@ Members("int", {"cost", "redemptions_redeemed_current_stream"})
  @@ Members("bool", {"is_enabled", "is_paused", "is_in_stock", "is_user_input_required",
      "should_redemptions_skip_request_queue"})
  @@ Members("reward_limit_setting", {"max_per_stream", "max_per_user_per_stream"})
  @@ Members("reward_cooldown_setting", {"global_cooldown"})
  @@ Members("reward_image", {"image", "default_image"}))

channel_channel_points_custom_reward_update_t == Payload(
  "channel.channel_points_custom_reward.update", "on_channel_channel_points_custom_reward_update",
  Members("user", {"broadcaster"})
  @@ Members("string", {"id", "title", "prompt", "cooldown_expires_at", "background_color"})
  @@ Members("int", {"cost", "redemptions_redeemed_current_stream"})
  @@ Members("bool", {"is_enabled", "is_paused", "is_in_stock", "is_user_input_required",
      "should_redemptions_skip_request_queue"})
  @@ Members("reward_limit_setting", {"max_per_stream", "max_per_user_per_stream"})
  @@ Members("reward_cooldown_setting", {"global_cooldown"})
  @@ Members("reward_image", {"image", "default_image"}))

channel_channel_points_custom_reward_remove_t == Payload(
  "channel.channel_points_custom_reward.remove", "on_channel_channel_points_custom_reward_remove",
  Members("user", {"broadcaster"})
  @@ Members("string", {"id", "title", "prompt", "cooldown_expires_at", "background_color"})
  @@ Members("int", {"cost", "redemptions_redeemed_current_stream"})
  @@ Members("bool", {"is_enabled", "is_paused", "is_in_stock", "is_user_input_required",
      "should_redemptions_skip_request_queue"})
  @@ Members("reward_limit_setting", {"max_per_stream", "max_per_user_per_stream"})
  @@ Members("reward_cooldown_setting", {"global_cooldown"})
  @@ Members("reward_image", {"image", "default_image"}))

channel_channel_points_custom_reward_redemption_add_t == Payload(
  "channel.channel_points_custom_reward_redemption.add", "on_channel_channel_points_custom_reward_redemption_add",
  Members("user", {"broadcaster", "redeemer"})
  @@ Members("string", {"id", "user_input", "status", "redeemed_at"})
  @@ Members("redemption_reward", {"reward"}))

channel_channel_points_custom_reward_redemption_update_t == Payload(
  "channel.channel_points_custom_reward_redemption.update", "on_channel_channel_points_custom_reward_redemption_update",
  Members("user", {"broadcaster", "redeemer"})
  @@ Members("string", {"id", "user_input", "status", "redeemed_at"})
  @@ Members("redemption_reward", {"reward"}))

channel_poll_begin_t == Payload("channel.poll.begin", "on_channel_poll_begin",
  Members("user", {"broadcaster"}) @@ Members("string", {"id", "title", "started_at", "ends_at"})
  @@ Members("poll_voting", {"bits_voting", "channel_points_voting"})
  @@ Lists("poll_choice", {"choices"}))

channel_poll_progress_t == Payload("channel.poll.progress", "on_channel_poll_progress",
  Members("user", {"broadcaster"}) @@ Members("string", {"id", "title", "started_at", "ends_at"})
  @@ Members("poll_voting", {"bits_voting", "channel_points_voting"})
  @@ Lists("poll_choice", {"choices"}))

channel_poll_end_t == Payload("channel.poll.end", "on_channel_poll_end",
  Members("user", {"broadcaster"})
  @@ Members("string", {"id", "title", "started_at", "ended_at", "status"})
  @@ Members("poll_voting", {"bits_voting", "channel_points_voting"})
  @@ Lists("poll_choice", {"choices"}))

channel_prediction_begin_t == Payload("channel.prediction.begin", "on_channel_prediction_begin",
  Members("user", {"broadcaster"}) @@ Members("string", {"id", "title", "created_at", "locks_at"})
  @@ Members("int", {"prediction_window_seconds"}) @@ Lists("prediction_outcome", {"outcomes"}))

channel_prediction_progress_t == Payload(
  "channel.prediction.progress", "on_channel_prediction_progress",
  Members("user", {"broadcaster"}) @@ Members("string", {"id", "title", "created_at", "locks_at"})
  @@ Members("int", {"prediction_window_seconds"}) @@ Lists("prediction_outcome", {"outcomes"}))

channel_prediction_lock_t == Payload("channel.prediction.lock", "on_channel_prediction_lock",
  Members("user", {"broadcaster"})
  @@ Members("string", {"id", "title", "created_at", "locks_at", "locked_at"})
  @@ Members("int", {"prediction_window_seconds"}) @@ Lists("prediction_outcome", {"outcomes"}))

channel_prediction_end_t == Payload("channel.prediction.end", "on_channel_prediction_end",
  Members("user", {"broadcaster"})
  @@ Members("string", {"id", "title", "winning_outcome_id", "created_at", "ended_at",
      "ended_reason"}) @@ Lists("prediction_outcome", {"outcomes"}))

channel_suspicious_user_message_t == Payload(
  "channel.suspicious_user.message", "on_channel_suspicious_user_message",
  Members("user", {"broadcaster", "target"})
  @@ Members("string", {"low_trust_status", "ban_evasion_evaluation", "message_id",
      "message_text"}) @@ Lists("string", {"shared_ban_channel_ids", "types"})
  @@ Lists("chat_fragment", {"message_fragments"}))

channel_suspicious_user_update_t == Payload(
  "channel.suspicious_user.update", "on_channel_suspicious_user_update",
  Members("user", {"broadcaster", "moderator", "target"})
  @@ Members("string", {"low_trust_status"}))

channel_vip_add_t == Payload("channel.vip.add", "on_channel_vip_add",
  Members("user", {"broadcaster", "target"}))

channel_vip_remove_t == Payload("channel.vip.remove", "on_channel_vip_remove",
  Members("user", {"broadcaster", "target"}))

channel_warning_acknowledge_t == Payload(
  "channel.warning.acknowledge", "on_channel_warning_acknowledge",
  Members("user", {"broadcaster", "target"}))

channel_warning_send_t == Payload("channel.warning.send", "on_channel_warning_send",
  Members("user", {"broadcaster", "moderator", "target"}) @@ Members("string", {"reason"})
  @@ Lists("string", {"chat_rules_cited"}))

channel_charity_campaign_donate_t == Payload(
  "channel.charity_campaign.donate", "on_channel_charity_campaign_donate",
  Members("user", {"broadcaster", "donor"})
  @@ Members("string", {"id", "campaign_id", "charity_name", "charity_description",
      "charity_logo", "charity_website", "amount_currency"})
  @@ Members("int", {"amount_value", "amount_decimal_places"}))

channel_charity_campaign_start_t == Payload(
  "channel.charity_campaign.start", "on_channel_charity_campaign_start",
  Members("user", {"broadcaster"})
  @@ Members("string", {"id", "charity_name", "charity_description", "charity_logo",
      "charity_website", "current_amount_currency", "target_amount_currency", "started_at"})
  @@ Members("int", {"current_amount_value", "current_amount_decimal_places",
      "target_amount_value", "target_amount_decimal_places"}))

channel_charity_campaign_progress_t == Payload(
  "channel.charity_campaign.progress", "on_channel_charity_campaign_progress",
  Members("user", {"broadcaster"})
  @@ Members("string", {"id", "charity_name", "charity_description", "charity_logo",
      "charity_website", "current_amount_currency", "target_amount_currency"})
  @@ Members("int", {"current_amount_value", "current_amount_decimal_places",
      "target_amount_value", "target_amount_decimal_places"}))

channel_charity_campaign_stop_t == Payload(
  "channel.charity_campaign.stop", "on_channel_charity_campaign_stop",
  Members("user", {"broadcaster"})
  @@ Members("string", {"id", "charity_name", "charity_description", "charity_logo",
      "charity_website", "current_amount_currency", "target_amount_currency", "stopped_at"})
  @@ Members("int", {"current_amount_value", "current_amount_decimal_places",
      "target_amount_value", "target_amount_decimal_places"}))

channel_goal_begin_t == Payload("channel.goal.begin", "on_channel_goal_begin",
  Members("user", {"broadcaster"})
  @@ Members("string", {"id", "type", "description", "started_at"})
  @@ Members("int", {"current_amount", "target_amount"}))

channel_goal_progress_t == Payload("channel.goal.progress", "on_channel_goal_progress",
  Members("user", {"broadcaster"})
  @@ Members("string", {"id", "type", "description", "started_at"})
  @@ Members("int", {"current_amount", "target_amount"}))

channel_goal_end_t == Payload("channel.goal.end", "on_channel_goal_end",
  Members("user", {"broadcaster"})
  @@ Members("string", {"id", "type", "description", "started_at", "ended_at"})
  @@ Members("int", {"current_amount", "target_amount"}) @@ Members("bool", {"is_achieved"}))

channel_hype_train_begin_t == Payload("channel.hype_train.begin", "on_channel_hype_train_begin",
  Members("user", {"broadcaster"}) @@ Members("string", {"id", "started_at", "expires_at"})
  @@ Members("int", {"total", "progress", "goal", "level"})
  @@ Members("bool", {"is_shared_train"})
  @@ Members("hype_train_contribution", {"last_contribution"})
  @@ Lists("hype_train_contribution", {"top_contributions"}))

channel_hype_train_progress_t == Payload(
  "channel.hype_train.progress", "on_channel_hype_train_progress",
  Members("user", {"broadcaster"}) @@ Members("string", {"id", "started_at", "expires_at"})
  @@ Members("int", {"total", "progress", "goal", "level"})
  @@ Members("bool", {"is_shared_train"})
  @@ Members("hype_train_contribution", {"last_contribution"})
  @@ Lists("hype_train_contribution", {"top_contributions"}))

channel_hype_train_end_t == Payload("channel.hype_train.end", "on_channel_hype_train_end",
  Members("user", {"broadcaster"})
  @@ Members("string", {"id", "started_at", "ended_at", "cooldown_ends_at"})
  @@ Members("int", {"total", "level"}) @@ Members("bool", {"is_shared_train"})
  @@ Lists("hype_train_contribution", {"top_contributions"}))

channel_shield_mode_begin_t == Payload(
  "channel.shield_mode.begin", "on_channel_shield_mode_begin",
  Members("user", {"broadcaster", "moderator"}) @@ Members("string", {"started_at"}))

channel_shield_mode_end_t == Payload("channel.shield_mode.end", "on_channel_shield_mode_end",
  Members("user", {"broadcaster", "moderator"}) @@ Members("string", {"ended_at"}))

channel_shoutout_create_t == Payload("channel.shoutout.create", "on_channel_shoutout_create",
  Members("user", {"broadcaster", "to_broadcaster", "moderator"})
  @@ Members("string", {"started_at", "cooldown_ends_at", "target_cooldown_ends_at"})
  @@ Members("int", {"viewer_count"}))

channel_shoutout_receive_t == Payload("channel.shoutout.receive", "on_channel_shoutout_receive",
  Members("user", {"broadcaster", "from_broadcaster"}) @@ Members("string", {"started_at"})
  @@ Members("int", {"viewer_count"}))

conduit_shard_disabled_t == Payload("conduit.shard.disabled", "on_conduit_shard_disabled",
  Members("string", {"conduit_id", "shard_id", "status"})
  @@ Members("eventsub_transport", {"transport"}))

drop_entitlement_grant_t == Payload("drop.entitlement.grant", "on_drop_entitlement_grant",
  Members("user", {"recipient"})
  @@ Members("string", {"organization_id", "category_id", "category_name", "campaign_id",
      "entitlement_id", "benefit_id", "created_at"}))

extension_bits_transaction_create_t == Payload(
  "extension.bits_transaction.create", "on_extension_bits_transaction_create",
  Members("user", {"broadcaster", "purchaser"})
  @@ Members("string", {"id", "extension_client_id", "product_name", "product_sku"})
  @@ Members("int", {"product_bits"}) @@ Members("bool", {"product_in_development"}))

stream_online_t == Payload("stream.online", "on_stream_online",
  Members("user", {"broadcaster"}) @@ Members("string", {"id", "type", "started_at"}))

stream_offline_t == Payload("stream.offline", "on_stream_offline",
  Members("user", {"broadcaster"}))

user_authorization_grant_t == Payload("user.authorization.grant", "on_user_authorization_grant",
  Members("user", {"authorized"}) @@ Members("string", {"client_id"}))

user_authorization_revoke_t == Payload(
  "user.authorization.revoke", "on_user_authorization_revoke",
  Members("user", {"revoked"}) @@ Members("string", {"client_id"}))

user_update_t == Payload("user.update", "on_user_update",
  Members("user", {"updated"}) @@ Members("string", {"email", "description"})
  @@ Members("bool", {"email_verified"}))

user_whisper_message_t == Payload("user.whisper.message", "on_user_whisper_message",
  Members("user", {"from_user", "to_user"}) @@ Members("string", {"whisper_id", "text"}))

\* Every struct derived from event_dispatch_t.
Declared ==
  {chat_message_t, automod_message_hold_t, automod_message_update_t, automod_settings_update_t,
   automod_terms_update_t, channel_update_t, channel_follow_t, channel_ad_break_begin_t,
   channel_chat_clear_t, channel_chat_clear_user_messages_t, channel_chat_message_delete_t,
   channel_chat_notification_t, channel_chat_settings_update_t,
   channel_chat_user_message_hold_t, channel_chat_user_message_update_t,
   channel_shared_chat_begin_t, channel_shared_chat_update_t, channel_shared_chat_end_t,
   channel_subscribe_t, channel_subscription_end_t, channel_subscription_gift_t,
   channel_subscription_message_t, channel_cheer_t, channel_raid_t, channel_ban_t,
   channel_unban_t, channel_unban_request_create_t, channel_unban_request_resolve_t,
   channel_moderate_t, channel_moderator_add_t, channel_moderator_remove_t,
   channel_guest_star_session_begin_t, channel_guest_star_session_end_t,
   channel_guest_star_guest_update_t, channel_guest_star_settings_update_t,
   channel_channel_points_automatic_reward_redemption_add_t,
   channel_channel_points_custom_reward_add_t, channel_channel_points_custom_reward_update_t,
   channel_channel_points_custom_reward_remove_t,
   channel_channel_points_custom_reward_redemption_add_t,
   channel_channel_points_custom_reward_redemption_update_t, channel_poll_begin_t,
   channel_poll_progress_t, channel_poll_end_t, channel_prediction_begin_t,
   channel_prediction_progress_t, channel_prediction_lock_t, channel_prediction_end_t,
   channel_suspicious_user_message_t, channel_suspicious_user_update_t, channel_vip_add_t,
   channel_vip_remove_t, channel_warning_acknowledge_t, channel_warning_send_t,
   channel_charity_campaign_donate_t, channel_charity_campaign_start_t,
   channel_charity_campaign_progress_t, channel_charity_campaign_stop_t, channel_goal_begin_t,
   channel_goal_progress_t, channel_goal_end_t, channel_hype_train_begin_t,
   channel_hype_train_progress_t, channel_hype_train_end_t, channel_shield_mode_begin_t,
   channel_shield_mode_end_t, channel_shoutout_create_t, channel_shoutout_receive_t,
   conduit_shard_disabled_t, drop_entitlement_grant_t, extension_bits_transaction_create_t,
   stream_online_t, stream_offline_t, user_authorization_grant_t, user_authorization_revoke_t,
   user_update_t, user_whisper_message_t}
=============================================================================
