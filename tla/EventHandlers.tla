---------------------------- MODULE EventHandlers ---------------------------
(***************************************************************************)
(* The handler of every subscription type, src/src/events/*.cpp, the table *)
(* that finds it and the event:: factories that subscribe to it,           *)
(* src/src/eventsub_events.cpp.  In each of the 77 files the router that   *)
(* is asked whether it is empty and the router that is called are the one  *)
(* named here, and the handler does nothing else before it enqueues.       *)
(***************************************************************************)
EXTENDS EventTypes

Handle(router, fills) == [router |-> router, fills |-> fills]

automod_message_hold == Handle("on_automod_message_hold",
  [msg |-> Message("user"), automod |-> In("automod", automod_check_result_fill),
      blocked_term |-> In("blocked_term", blocked_term_check_result_fill)]
  @@ Texts({"category", "held_at", "reason"}) @@ Ints({"level"}))

automod_message_update == Handle("on_automod_message_update",
  [msg |-> Message("user"), moderator |-> User("moderator_user"), automod |-> In("automod",
      automod_check_result_fill), blocked_term |-> In("blocked_term",
      blocked_term_check_result_fill)] @@ Texts({"status", "category", "held_at", "reason"})
  @@ Ints({"level"}))

automod_settings_update == Handle("on_automod_settings_update",
  [broadcaster |-> User("broadcaster_user"), moderator |-> User("moderator_user")]
  @@ Ints({"overall_level", "bullying", "disability", "race_ethnicity_or_religion", "misogyny",
      "sexuality_sex_or_gender", "aggression", "sex_based_terms", "swearing"}))

automod_terms_update == Handle("on_automod_terms_update",
  [broadcaster |-> User("broadcaster_user"), moderator |-> User("moderator_user"),
      terms |-> Strings("terms")] @@ Texts({"action"}) @@ Bools({"from_automod"}))

channel_ad_break_begin == Handle("on_channel_ad_break_begin",
  [broadcaster |-> User("broadcaster_user"), requester |-> User("requester_user")]
  @@ Texts({"started_at"}) @@ Ints({"duration_seconds"}) @@ Bools({"is_automatic"}))

\* Fault: the moderator is not filled.
channel_ban_without_moderator == Handle("on_channel_ban",
  [broadcaster |-> User("broadcaster_user"), target |-> User("user")]
  @@ Texts({"reason", "banned_at", "ends_at"}) @@ Bools({"is_permanent"}))

channel_ban == Handle("on_channel_ban",
  [broadcaster |-> User("broadcaster_user"), target |-> User("user"),
      moderator |-> User("moderator_user")] @@ Texts({"reason", "banned_at", "ends_at"})
  @@ Bools({"is_permanent"}))

channel_channel_points_automatic_reward_redemption_add == Handle(
  "on_channel_channel_points_automatic_reward_redemption_add",
  [broadcaster |-> User("broadcaster_user"), redeemer |-> User("user")]
  @@ Texts({"reward_id", "reward_title", "reward_prompt", "user_input", "redeemed_at"})
  @@ Ints({"reward_cost"}))

channel_channel_points_custom_reward_add == Handle(
  "on_channel_channel_points_custom_reward_add",
  [broadcaster |-> User("broadcaster_user"), max_per_stream |-> In("max_per_stream",
      reward_limit_setting_fill), max_per_user_per_stream |-> In("max_per_user_per_stream",
      reward_limit_setting_fill), global_cooldown |-> In("global_cooldown",
      reward_cooldown_setting_fill), image |-> In("image", reward_image_fill),
      default_image |-> In("default_image", reward_image_fill)]
  @@ Texts({"id", "title", "prompt", "cooldown_expires_at", "background_color"})
  @@ Ints({"cost", "redemptions_redeemed_current_stream"})
  @@ Bools({"is_enabled", "is_paused", "is_in_stock", "is_user_input_required",
      "should_redemptions_skip_request_queue"}))

channel_channel_points_custom_reward_redemption_add == Handle(
  "on_channel_channel_points_custom_reward_redemption_add",
  [broadcaster |-> User("broadcaster_user"), redeemer |-> User("user"), reward |-> In("reward",
      redemption_reward_fill)] @@ Texts({"id", "user_input", "status", "redeemed_at"}))

channel_channel_points_custom_reward_redemption_update == Handle(
  "on_channel_channel_points_custom_reward_redemption_update",
  [broadcaster |-> User("broadcaster_user"), redeemer |-> User("user"), reward |-> In("reward",
      redemption_reward_fill)] @@ Texts({"id", "user_input", "status", "redeemed_at"}))

channel_channel_points_custom_reward_remove == Handle(
  "on_channel_channel_points_custom_reward_remove",
  [broadcaster |-> User("broadcaster_user"), max_per_stream |-> In("max_per_stream",
      reward_limit_setting_fill), max_per_user_per_stream |-> In("max_per_user_per_stream",
      reward_limit_setting_fill), global_cooldown |-> In("global_cooldown",
      reward_cooldown_setting_fill), image |-> In("image", reward_image_fill),
      default_image |-> In("default_image", reward_image_fill)]
  @@ Texts({"id", "title", "prompt", "cooldown_expires_at", "background_color"})
  @@ Ints({"cost", "redemptions_redeemed_current_stream"})
  @@ Bools({"is_enabled", "is_paused", "is_in_stock", "is_user_input_required",
      "should_redemptions_skip_request_queue"}))

channel_channel_points_custom_reward_update == Handle(
  "on_channel_channel_points_custom_reward_update",
  [broadcaster |-> User("broadcaster_user"), max_per_stream |-> In("max_per_stream",
      reward_limit_setting_fill), max_per_user_per_stream |-> In("max_per_user_per_stream",
      reward_limit_setting_fill), global_cooldown |-> In("global_cooldown",
      reward_cooldown_setting_fill), image |-> In("image", reward_image_fill),
      default_image |-> In("default_image", reward_image_fill)]
  @@ Texts({"id", "title", "prompt", "cooldown_expires_at", "background_color"})
  @@ Ints({"cost", "redemptions_redeemed_current_stream"})
  @@ Bools({"is_enabled", "is_paused", "is_in_stock", "is_user_input_required",
      "should_redemptions_skip_request_queue"}))

channel_charity_campaign_donate == Handle("on_channel_charity_campaign_donate",
  [broadcaster |-> User("broadcaster_user"), donor |-> User("user")]
  @@ Texts({"id", "campaign_id", "charity_name", "charity_description", "charity_logo",
      "charity_website"}) @@ Within("amount", [amount_value |-> Number("value"),
      amount_decimal_places |-> Number("decimal_places"), amount_currency |-> Text("currency")]))

channel_charity_campaign_progress == Handle("on_channel_charity_campaign_progress",
  [broadcaster |-> User("broadcaster_user")]
  @@ Texts({"id", "charity_name", "charity_description", "charity_logo", "charity_website"})
  @@ Within("current_amount", [current_amount_value |-> Number("value"),
      current_amount_decimal_places |-> Number("decimal_places"),
      current_amount_currency |-> Text("currency")])
  @@ Within("target_amount", [target_amount_value |-> Number("value"),
      target_amount_decimal_places |-> Number("decimal_places"),
      target_amount_currency |-> Text("currency")]))

channel_charity_campaign_start == Handle("on_channel_charity_campaign_start",
  [broadcaster |-> User("broadcaster_user")]
  @@ Texts({"id", "charity_name", "charity_description", "charity_logo", "charity_website",
      "started_at"}) @@ Within("current_amount", [current_amount_value |-> Number("value"),
      current_amount_decimal_places |-> Number("decimal_places"),
      current_amount_currency |-> Text("currency")])
  @@ Within("target_amount", [target_amount_value |-> Number("value"),
      target_amount_decimal_places |-> Number("decimal_places"),
      target_amount_currency |-> Text("currency")]))

channel_charity_campaign_stop == Handle("on_channel_charity_campaign_stop",
  [broadcaster |-> User("broadcaster_user")]
  @@ Texts({"id", "charity_name", "charity_description", "charity_logo", "charity_website",
      "stopped_at"}) @@ Within("current_amount", [current_amount_value |-> Number("value"),
      current_amount_decimal_places |-> Number("decimal_places"),
      current_amount_currency |-> Text("currency")])
  @@ Within("target_amount", [target_amount_value |-> Number("value"),
      target_amount_decimal_places |-> Number("decimal_places"),
      target_amount_currency |-> Text("currency")]))

channel_chat_clear == Handle("on_channel_chat_clear", [broadcaster |-> User("broadcaster_user")])

channel_chat_clear_user_messages == Handle("on_channel_chat_clear_user_messages",
  [broadcaster |-> User("broadcaster_user"), target |-> User("target_user")])

channel_chat_message == Handle("on_chat_message", [msg |-> Message("chatter_user")])

channel_chat_message_delete == Handle("on_channel_chat_message_delete",
  [broadcaster |-> User("broadcaster_user"), target |-> User("target_user")]
  @@ Texts({"message_id"}))

channel_chat_notification == Handle("on_channel_chat_notification",
  [msg |-> Message("chatter_user"), badges |-> Each("badges", chat_badge_fill),
      notice_metadata |-> In("<notice_type>", chat_notice_metadata_fill)]
  @@ Texts({"color", "system_message", "notice_type"}) @@ Bools({"chatter_is_anonymous"}))

channel_chat_settings_update == Handle("on_channel_chat_settings_update",
  [broadcaster |-> User("broadcaster_user")]
  @@ Ints({"follower_mode_duration_minutes", "slow_mode_wait_time_seconds"})
  @@ Bools({"emote_mode", "follower_mode", "slow_mode", "subscriber_mode", "unique_chat_mode"}))

channel_chat_user_message_hold == Handle("on_channel_chat_user_message_hold",
  [msg |-> Message("user")])

channel_chat_user_message_update == Handle("on_channel_chat_user_message_update",
  [msg |-> Message("user")] @@ Texts({"status"}))

channel_cheer == Handle("on_channel_cheer",
  [broadcaster |-> User("broadcaster_user"), chatter |-> User("user")] @@ Texts({"message"})
  @@ Ints({"bits"}) @@ Bools({"is_anonymous"}))

channel_follow == Handle("on_channel_follow",
  [broadcaster |-> User("broadcaster_user"), follower |-> User("user")] @@ Texts({"followed_at"}))

channel_goal_begin == Handle("on_channel_goal_begin",
  [broadcaster |-> User("broadcaster_user")] @@ Texts({"id", "type", "description", "started_at"})
  @@ Ints({"current_amount", "target_amount"}))

channel_goal_end == Handle("on_channel_goal_end",
  [broadcaster |-> User("broadcaster_user")]
  @@ Texts({"id", "type", "description", "started_at", "ended_at"})
  @@ Ints({"current_amount", "target_amount"}) @@ Bools({"is_achieved"}))

channel_goal_progress == Handle("on_channel_goal_progress",
  [broadcaster |-> User("broadcaster_user")] @@ Texts({"id", "type", "description", "started_at"})
  @@ Ints({"current_amount", "target_amount"}))

channel_guest_star_guest_update == Handle("on_channel_guest_star_guest_update",
  [broadcaster |-> User("broadcaster_user"), moderator |-> User("moderator_user"),
      guest |-> User("guest_user"), host |-> User("host_user")]
  @@ Texts({"session_id", "slot_id", "state"}) @@ Ints({"host_volume"})
  @@ Bools({"host_video_enabled", "host_audio_enabled"}))

channel_guest_star_session_begin == Handle("on_channel_guest_star_session_begin",
  [broadcaster |-> User("broadcaster_user")] @@ Texts({"session_id", "started_at"}))

channel_guest_star_session_end == Handle("on_channel_guest_star_session_end",
  [broadcaster |-> User("broadcaster_user"), host |-> User("host_user")]
  @@ Texts({"session_id", "started_at", "ended_at"}))

channel_guest_star_settings_update == Handle("on_channel_guest_star_settings_update",
  [broadcaster |-> User("broadcaster_user")] @@ Texts({"group_layout"}) @@ Ints({"slot_count"})
  @@ Bools({"is_moderator_send_live_enabled", "is_browser_source_audio_enabled"}))

channel_hype_train_begin == Handle("on_channel_hype_train_begin",
  [broadcaster |-> User("broadcaster_user"), top_contributions |-> Each("top_contributions",
      hype_train_contribution_fill), last_contribution |-> In("last_contribution",
      hype_train_contribution_fill)] @@ Texts({"id", "started_at", "expires_at"})
  @@ Ints({"total", "progress", "goal", "level"}) @@ Bools({"is_shared_train"}))

channel_hype_train_end == Handle("on_channel_hype_train_end",
  [broadcaster |-> User("broadcaster_user"), top_contributions |-> Each("top_contributions",
      hype_train_contribution_fill)]
  @@ Texts({"id", "started_at", "ended_at", "cooldown_ends_at"}) @@ Ints({"total", "level"})
  @@ Bools({"is_shared_train"}))

channel_hype_train_progress == Handle("on_channel_hype_train_progress",
  [broadcaster |-> User("broadcaster_user"), top_contributions |-> Each("top_contributions",
      hype_train_contribution_fill), last_contribution |-> In("last_contribution",
      hype_train_contribution_fill)] @@ Texts({"id", "started_at", "expires_at"})
  @@ Ints({"total", "progress", "goal", "level"}) @@ Bools({"is_shared_train"}))

channel_moderate == Handle("on_channel_moderate",
  [broadcaster |-> User("broadcaster_user"),
      source_broadcaster |-> User("source_broadcaster_user"),
      moderator |-> User("moderator_user"), action_metadata |-> In("<action>",
      channel_moderate_action_metadata_fill)] @@ Texts({"action"}))

channel_moderator_add == Handle("on_channel_moderator_add",
  [broadcaster |-> User("broadcaster_user"), moderator |-> User("user")])

channel_moderator_remove == Handle("on_channel_moderator_remove",
  [broadcaster |-> User("broadcaster_user"), moderator |-> User("user")])

channel_poll_begin == Handle("on_channel_poll_begin",
  [broadcaster |-> User("broadcaster_user"), choices |-> Each("choices", poll_choice_fill),
      bits_voting |-> In("bits_voting", poll_voting_fill),
      channel_points_voting |-> In("channel_points_voting", poll_voting_fill)]
  @@ Texts({"id", "title", "started_at", "ends_at"}))

channel_poll_end == Handle("on_channel_poll_end",
  [broadcaster |-> User("broadcaster_user"), choices |-> Each("choices", poll_choice_fill),
      bits_voting |-> In("bits_voting", poll_voting_fill),
      channel_points_voting |-> In("channel_points_voting", poll_voting_fill)]
  @@ Texts({"id", "title", "started_at", "ended_at", "status"}))

channel_poll_progress == Handle("on_channel_poll_progress",
  [broadcaster |-> User("broadcaster_user"), choices |-> Each("choices", poll_choice_fill),
      bits_voting |-> In("bits_voting", poll_voting_fill),
      channel_points_voting |-> In("channel_points_voting", poll_voting_fill)]
  @@ Texts({"id", "title", "started_at", "ends_at"}))

channel_prediction_begin == Handle("on_channel_prediction_begin",
  [broadcaster |-> User("broadcaster_user"), outcomes |-> Each("outcomes",
      prediction_outcome_fill)] @@ Texts({"id", "title", "created_at", "locks_at"})
  @@ Ints({"prediction_window_seconds"}))

channel_prediction_end == Handle("on_channel_prediction_end",
  [broadcaster |-> User("broadcaster_user"), outcomes |-> Each("outcomes",
      prediction_outcome_fill)]
  @@ Texts({"id", "title", "winning_outcome_id", "created_at", "ended_at", "ended_reason"}))

channel_prediction_lock == Handle("on_channel_prediction_lock",
  [broadcaster |-> User("broadcaster_user"), outcomes |-> Each("outcomes",
      prediction_outcome_fill)] @@ Texts({"id", "title", "created_at", "locks_at", "locked_at"})
  @@ Ints({"prediction_window_seconds"}))

channel_prediction_progress == Handle("on_channel_prediction_progress",
  [broadcaster |-> User("broadcaster_user"), outcomes |-> Each("outcomes",
      prediction_outcome_fill)] @@ Texts({"id", "title", "created_at", "locks_at"})
  @@ Ints({"prediction_window_seconds"}))

channel_raid == Handle("on_channel_raid",
  [from_broadcaster |-> User("from_broadcaster_user"),
      to_broadcaster |-> User("to_broadcaster_user")] @@ Ints({"viewers"}))

channel_shared_chat_begin == Handle("on_channel_shared_chat_begin",
  [broadcaster |-> User("broadcaster_user"), host_broadcaster |-> User("host_broadcaster_user"),
      participants |-> Each("participants", User("broadcaster_user"))] @@ Texts({"session_id"}))

channel_shared_chat_end == Handle("on_channel_shared_chat_end",
  [broadcaster |-> User("broadcaster_user"), host_broadcaster |-> User("host_broadcaster_user")]
  @@ Texts({"session_id"}))

channel_shared_chat_update == Handle("on_channel_shared_chat_update",
  [broadcaster |-> User("broadcaster_user"), host_broadcaster |-> User("host_broadcaster_user"),
      participants |-> Each("participants", User("broadcaster_user"))] @@ Texts({"session_id"}))

channel_shield_mode_begin == Handle("on_channel_shield_mode_begin",
  [broadcaster |-> User("broadcaster_user"), moderator |-> User("moderator_user")]
  @@ Texts({"started_at"}))

channel_shield_mode_end == Handle("on_channel_shield_mode_end",
  [broadcaster |-> User("broadcaster_user"), moderator |-> User("moderator_user")]
  @@ Texts({"ended_at"}))

channel_shoutout_create == Handle("on_channel_shoutout_create",
  [broadcaster |-> User("broadcaster_user"), to_broadcaster |-> User("to_broadcaster_user"),
      moderator |-> User("moderator_user")]
  @@ Texts({"started_at", "cooldown_ends_at", "target_cooldown_ends_at"})
  @@ Ints({"viewer_count"}))

channel_shoutout_receive == Handle("on_channel_shoutout_receive",
  [broadcaster |-> User("broadcaster_user"), from_broadcaster |-> User("from_broadcaster_user")]
  @@ Texts({"started_at"}) @@ Ints({"viewer_count"}))

channel_subscribe == Handle("on_channel_subscribe",
  [broadcaster |-> User("broadcaster_user"), subscriber |-> User("user")] @@ Texts({"tier"})
  @@ Bools({"is_gift"}))

channel_subscription_end == Handle("on_channel_subscription_end",
  [broadcaster |-> User("broadcaster_user"), subscriber |-> User("user")] @@ Texts({"tier"})
  @@ Bools({"is_gift"}))

channel_subscription_gift == Handle("on_channel_subscription_gift",
  [broadcaster |-> User("broadcaster_user"), gifter |-> User("user"),
      cumulative_total_is_null |-> IsNull("cumulative_total")] @@ Texts({"tier"})
  @@ Ints({"total", "cumulative_total"}) @@ Bools({"is_anonymous"}))

channel_subscription_message == Handle("on_channel_subscription_message",
  [msg |-> Message("user"), streak_months_is_null |-> IsNull("streak_months")] @@ Texts({"tier"})
  @@ Ints({"cumulative_months", "streak_months", "duration_months"}))

channel_suspicious_user_message == Handle("on_channel_suspicious_user_message",
  [broadcaster |-> User("broadcaster_user"), target |-> User("user"),
      shared_ban_channel_ids |-> Strings("shared_ban_channel_ids"), types |-> Strings("types")]
  @@ Texts({"low_trust_status", "ban_evasion_evaluation"})
  @@ Within("message", [message_text |-> Text("text"), message_fragments |-> Each("fragments",
      chat_fragment_fill)] @@ Texts({"message_id"})))

channel_suspicious_user_update == Handle("on_channel_suspicious_user_update",
  [broadcaster |-> User("broadcaster_user"), moderator |-> User("moderator_user"),
      target |-> User("user")] @@ Texts({"low_trust_status"}))

channel_unban == Handle("on_channel_unban",
  [broadcaster |-> User("broadcaster_user"), target |-> User("user"),
      moderator |-> User("moderator_user")])

channel_unban_request_create == Handle("on_channel_unban_request_create",
  [broadcaster |-> User("broadcaster_user"), target |-> User("user")]
  @@ Texts({"id", "text", "created_at"}))

channel_unban_request_resolve == Handle("on_channel_unban_request_resolve",
  [broadcaster |-> User("broadcaster_user"), moderator |-> User("moderator"),
      target |-> User("user")] @@ Texts({"id", "resolution_text", "status"}))

channel_update == Handle("on_channel_update",
  [broadcaster |-> User("broadcaster_user"),
      content_classification_labels |-> Strings("content_classification_labels")]
  @@ Texts({"title", "language", "category_id", "category_name"}))

channel_vip_add == Handle("on_channel_vip_add",
  [broadcaster |-> User("broadcaster_user"), target |-> User("user")])

channel_vip_remove == Handle("on_channel_vip_remove",
  [broadcaster |-> User("broadcaster_user"), target |-> User("user")])

channel_warning_acknowledge == Handle("on_channel_warning_acknowledge",
  [broadcaster |-> User("broadcaster_user"), target |-> User("user")])

channel_warning_send == Handle("on_channel_warning_send",
  [broadcaster |-> User("broadcaster_user"), moderator |-> User("moderator_user"),
      target |-> User("user"), chat_rules_cited |-> Strings("chat_rules_cited")]
  @@ Texts({"reason"}))

conduit_shard_disabled == Handle("on_conduit_shard_disabled",
  [transport |-> In("transport", eventsub_transport_fill)]
  @@ Texts({"conduit_id", "shard_id", "status"}))

drop_entitlement_grant == Handle("on_drop_entitlement_grant",
  Unwrapped("data", [recipient |-> User("user")] @@ Texts({"organization_id", "category_id",
      "category_name", "campaign_id", "entitlement_id", "benefit_id", "created_at"})))

extension_bits_transaction_create == Handle("on_extension_bits_transaction_create",
  [broadcaster |-> User("broadcaster_user"), purchaser |-> User("user")]
  @@ Texts({"id", "extension_client_id"})
  @@ Within("product", [product_name |-> Text("name"), product_sku |-> Text("sku"),
      product_bits |-> Number("bits"), product_in_development |-> Bool("in_development")]))

stream_offline == Handle("on_stream_offline", [broadcaster |-> User("broadcaster_user")])

stream_online == Handle("on_stream_online",
  [broadcaster |-> User("broadcaster_user")] @@ Texts({"id", "type", "started_at"}))

user_authorization_grant == Handle("on_user_authorization_grant",
  [authorized |-> User("user")] @@ Texts({"client_id"}))

user_authorization_revoke == Handle("on_user_authorization_revoke",
  [revoked |-> User("user")] @@ Texts({"client_id"}))

user_update == Handle("on_user_update",
  [updated |-> User("user")] @@ Texts({"email", "description"}) @@ Bools({"email_verified"}))

user_whisper_message == Handle("on_user_whisper_message",
  [from_user |-> User("from_user"), to_user |-> User("to_user"), text |-> In("whisper",
      Text("text"))] @@ Texts({"whisper_id"}))

-----------------------------------------------------------------------------
\* The rows of the table: a subscription type and its handler.
EventMapRows ==
  {<<"automod.message.hold", automod_message_hold>>,
   <<"automod.message.update", automod_message_update>>,
   <<"automod.settings.update", automod_settings_update>>,
   <<"automod.terms.update", automod_terms_update>>, <<"channel.update", channel_update>>,
   <<"channel.follow", channel_follow>>, <<"channel.ad_break.begin", channel_ad_break_begin>>,
   <<"channel.chat.clear", channel_chat_clear>>,
   <<"channel.chat.clear_user_messages", channel_chat_clear_user_messages>>,
   <<"channel.chat.message", channel_chat_message>>,
   <<"channel.chat.message_delete", channel_chat_message_delete>>,
   <<"channel.chat.notification", channel_chat_notification>>,
   <<"channel.chat_settings.update", channel_chat_settings_update>>,
   <<"channel.chat.user_message_hold", channel_chat_user_message_hold>>,
   <<"channel.chat.user_message_update", channel_chat_user_message_update>>,
   <<"channel.shared_chat.begin", channel_shared_chat_begin>>,
   <<"channel.shared_chat.update", channel_shared_chat_update>>,
   <<"channel.shared_chat.end", channel_shared_chat_end>>,
   <<"channel.subscribe", channel_subscribe>>,
   <<"channel.subscription.end", channel_subscription_end>>,
   <<"channel.subscription.gift", channel_subscription_gift>>,
   <<"channel.subscription.message", channel_subscription_message>>,
   <<"channel.cheer", channel_cheer>>, <<"channel.raid", channel_raid>>,
   <<"channel.ban", channel_ban>>, <<"channel.unban", channel_unban>>,
   <<"channel.unban_request.create", channel_unban_request_create>>,
   <<"channel.unban_request.resolve", channel_unban_request_resolve>>,
   <<"channel.moderate", channel_moderate>>, <<"channel.moderator.add", channel_moderator_add>>,
   <<"channel.moderator.remove", channel_moderator_remove>>,
   <<"channel.guest_star_session.begin", channel_guest_star_session_begin>>,
   <<"channel.guest_star_session.end", channel_guest_star_session_end>>,
   <<"channel.guest_star_guest.update", channel_guest_star_guest_update>>,
   <<"channel.guest_star_settings.update", channel_guest_star_settings_update>>,
   <<"channel.channel_points_automatic_reward_redemption.add",
     channel_channel_points_automatic_reward_redemption_add>>,
   <<"channel.channel_points_custom_reward.add", channel_channel_points_custom_reward_add>>,
   <<"channel.channel_points_custom_reward.update", channel_channel_points_custom_reward_update>>,
   <<"channel.channel_points_custom_reward.remove", channel_channel_points_custom_reward_remove>>,
   <<"channel.channel_points_custom_reward_redemption.add",
     channel_channel_points_custom_reward_redemption_add>>,
   <<"channel.channel_points_custom_reward_redemption.update",
     channel_channel_points_custom_reward_redemption_update>>,
   <<"channel.poll.begin", channel_poll_begin>>,
   <<"channel.poll.progress", channel_poll_progress>>, <<"channel.poll.end", channel_poll_end>>,
   <<"channel.prediction.begin", channel_prediction_begin>>,
   <<"channel.prediction.progress", channel_prediction_progress>>,
   <<"channel.prediction.lock", channel_prediction_lock>>,
   <<"channel.prediction.end", channel_prediction_end>>,
   <<"channel.suspicious_user.message", channel_suspicious_user_message>>,
   <<"channel.suspicious_user.update", channel_suspicious_user_update>>,
   <<"channel.vip.add", channel_vip_add>>, <<"channel.vip.remove", channel_vip_remove>>,
   <<"channel.warning.acknowledge", channel_warning_acknowledge>>,
   <<"channel.warning.send", channel_warning_send>>,
   <<"channel.charity_campaign.donate", channel_charity_campaign_donate>>,
   <<"channel.charity_campaign.start", channel_charity_campaign_start>>,
   <<"channel.charity_campaign.progress", channel_charity_campaign_progress>>,
   <<"channel.charity_campaign.stop", channel_charity_campaign_stop>>,
   <<"channel.goal.begin", channel_goal_begin>>,
   <<"channel.goal.progress", channel_goal_progress>>, <<"channel.goal.end", channel_goal_end>>,
   <<"channel.hype_train.begin", channel_hype_train_begin>>,
   <<"channel.hype_train.progress", channel_hype_train_progress>>,
   <<"channel.hype_train.end", channel_hype_train_end>>,
   <<"channel.shield_mode.begin", channel_shield_mode_begin>>,
   <<"channel.shield_mode.end", channel_shield_mode_end>>,
   <<"channel.shoutout.create", channel_shoutout_create>>,
   <<"channel.shoutout.receive", channel_shoutout_receive>>,
   <<"conduit.shard.disabled", conduit_shard_disabled>>,
   <<"drop.entitlement.grant", drop_entitlement_grant>>,
   <<"extension.bits_transaction.create", extension_bits_transaction_create>>,
   <<"stream.online", stream_online>>, <<"stream.offline", stream_offline>>,
   <<"user.authorization.grant", user_authorization_grant>>,
   <<"user.authorization.revoke", user_authorization_revoke>>, <<"user.update", user_update>>,
   <<"user.whisper.message", user_whisper_message>>}

\* find_handler() and handle_event() look a subscription type up here.
event_map ==
  [t \in {row[1] : row \in EventMapRows} |-> (CHOOSE row \in EventMapRows : row[1] = t)[2]]

\* The subscription types the event:: factories create, in their order in the file.
FirstFactories ==
  {"channel.chat.message", "automod.message.hold", "automod.message.update",
   "automod.settings.update", "automod.terms.update", "channel.update", "channel.follow",
   "channel.ad_break.begin", "channel.chat.clear", "channel.chat.clear_user_messages",
   "channel.chat.message_delete", "channel.chat.notification", "channel.chat_settings.update",
   "channel.chat.user_message_hold", "channel.chat.user_message_update",
   "channel.shared_chat.begin", "channel.shared_chat.update", "channel.shared_chat.end",
   "channel.subscribe", "channel.subscription.end", "channel.subscription.gift",
   "channel.subscription.message", "channel.cheer", "channel.raid", "channel.ban",
   "channel.unban"}

MiddleFactories ==
  {"channel.unban_request.create", "channel.unban_request.resolve", "channel.moderate",
   "channel.moderator.add", "channel.moderator.remove", "channel.guest_star_session.begin",
   "channel.guest_star_session.end", "channel.guest_star_guest.update",
   "channel.guest_star_settings.update",
   "channel.channel_points_automatic_reward_redemption.add",
   "channel.channel_points_custom_reward.add", "channel.channel_points_custom_reward.update",
   "channel.channel_points_custom_reward.remove",
   "channel.channel_points_custom_reward_redemption.add",
   "channel.channel_points_custom_reward_redemption.update", "channel.poll.begin",
   "channel.poll.progress", "channel.poll.end", "channel.prediction.begin",
   "channel.prediction.progress", "channel.prediction.lock", "channel.prediction.end",
   "channel.suspicious_user.message", "channel.suspicious_user.update", "channel.vip.add",
   "channel.vip.remove"}

\* Fault: a factory's subscription type is misspelt.
MisspeltFactories == {"user.whisper_message"}

LastFactories ==
  {"channel.warning.acknowledge", "channel.warning.send", "channel.charity_campaign.donate",
   "channel.charity_campaign.start", "channel.charity_campaign.progress",
   "channel.charity_campaign.stop", "channel.goal.begin", "channel.goal.progress",
   "channel.goal.end", "channel.hype_train.begin", "channel.hype_train.progress",
   "channel.hype_train.end", "channel.shield_mode.begin", "channel.shield_mode.end",
   "channel.shoutout.create", "channel.shoutout.receive", "conduit.shard.disabled",
   "drop.entitlement.grant", "extension.bits_transaction.create", "stream.online",
   "stream.offline", "user.authorization.grant", "user.authorization.revoke", "user.update",
   "user.whisper.message"}

Subscribable == FirstFactories \cup MiddleFactories \cup LastFactories
=============================================================================
