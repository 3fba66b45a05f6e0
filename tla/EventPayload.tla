---------------------------- MODULE EventPayload ----------------------------
(***************************************************************************)
(* How a notification's JSON is turned into the structs handed to          *)
(* listeners: the accessors of src/eventsub_events.cpp and the             *)
(* fill_from_json() of the payload types.                                  *)
(*                                                                         *)
(* A read is what one member is filled from: "is" is the C++ type the      *)
(* member gets and "reads" the accesses made, each the path "at" of a JSON *)
(* value and the accessor it is read "as".  Only the kind of a JSON value  *)
(* is modelled, never the value.  The elements of an array are at the      *)
(* array's own path, and the three strings of a user at the key's prefix.  *)
(***************************************************************************)
EXTENDS Sequences, TLC

Kinds == {"absent", "null", "string", "number", "boolean", "object", "array"}

\* The kind of value each accessor is meant for.
Meant == [string |-> "string", int |-> "number", bool |-> "boolean",
          index |-> "object", find |-> "number"]

-----------------------------------------------------------------------------
(***************************************************************************)
(* The accessors.  nlohmann::json throws type_error from get<T>() on a     *)
(* value of another kind, and from operator[](key) on anything that is     *)
(* neither an object nor null; find() on a value that is no object finds   *)
(* nothing.                                                                *)
(***************************************************************************)
StringThrows(kind) == FALSE
IntThrows(kind) == kind \in {"boolean", "object", "array"}
\* Fault: bool_not_null() throws for null.
BoolThrowsOnNull(kind) == kind \in Kinds \ {"absent", "boolean"}
BoolThrows(kind) == kind \in {"string", "number", "object", "array"}
IndexThrows(kind) == kind \in {"string", "number", "boolean", "array"}

Throws(as, kind) ==
  \/ as = "string" /\ StringThrows(kind)
  \/ as = "int" /\ IntThrows(kind)
  \/ as = "bool" /\ BoolThrows(kind)
  \/ as = "index" /\ IndexThrows(kind)

-----------------------------------------------------------------------------
\* Reads of one value; a map of reads fills the members of a struct.
Leaf(type, key, as) == [is |-> <<type>>, reads |-> {[at |-> <<key>>, as |-> as]}]
Text(key) == Leaf("string", key, "string")
Number(key) == Leaf("int", key, "int")
Bool(key) == Leaf("bool", key, "bool")
IsNull(key) == Leaf("bool", key, "find")
User(prefix) == Leaf("user", prefix, "string")
Texts(keys) == [k \in keys |-> Text(k)]
Ints(keys) == [k \in keys |-> Number(k)]
Bools(keys) == [k \in keys |-> Bool(k)]

\* for_each_json() with a callback that keeps the strings only.
Strings(key) == [is |-> <<"vector", "string">>, reads |-> {[at |-> <<key>>, as |-> "string"]}]

\* A struct filled by its own fill_from_json().
Part(type, fills) ==
  [is |-> <<type>>, fills |-> fills, reads |-> UNION {fills[m].reads : m \in DOMAIN fills}]

\* The read made on the value at key instead: the value is only looked up ...
Under(key, read) ==
  [is |-> read.is, reads |-> {[r EXCEPT !.at = <<key>> \o @] : r \in read.reads}]

\* ... or its parent is indexed with operator[], which the parent may refuse.
In(key, read) ==
  [is |-> read.is, reads |-> Under(key, read).reads \cup {[at |-> <<>>, as |-> "index"]}]
Within(key, fills) == [m \in DOMAIN fills |-> In(key, fills[m])]

\* The value at key when it has one, the parent itself when not.
Unwrapped(key, fills) ==
  [m \in DOMAIN fills |->
    [is |-> fills[m].is, reads |-> fills[m].reads \cup In(key, fills[m]).reads]]

\* for_each_json() with a callback that fills an element.
Each(key, read) == [is |-> <<"vector">> \o read.is, reads |-> Under(key, read).reads]

-----------------------------------------------------------------------------
\* The members the payload structs declare, by type.
Members(type, names) == [m \in names |-> <<type>>]
Lists(type, names) == [m \in names |-> <<"vector", type>>]

automod_boundary == Members("int", {"start_pos", "end_pos"})
automod_boundary_fill == Part("automod_boundary", Ints({"start_pos", "end_pos"}))

automod_check_result ==
  Members("string", {"category"}) @@ Members("int", {"level"})
  @@ Lists("automod_boundary", {"boundaries"})
automod_check_result_fill ==
  Part("automod_check_result", [boundaries |-> Each("boundaries", automod_boundary_fill)]
    @@ Texts({"category"}) @@ Ints({"level"}))

blocked_term_match ==
  Members("user", {"owner_broadcaster"}) @@ Members("string", {"term_id"})
  @@ Members("automod_boundary", {"boundary"})
blocked_term_match_fill ==
  Part("blocked_term_match", [boundary |-> In("boundary", automod_boundary_fill),
    owner_broadcaster |-> User("owner_broadcaster_user")] @@ Texts({"term_id"}))

blocked_term_check_result == Lists("blocked_term_match", {"terms_found"})
blocked_term_check_result_fill ==
  Part("blocked_term_check_result",
    [terms_found |-> Each("terms_found", blocked_term_match_fill)])

emote == Members("string", {"id", "emote_set_id", "owner_id"}) @@ Lists("string", {"format"})
emote_fill ==
  Part("emote", [format |-> Strings("format")] @@ Texts({"id", "emote_set_id", "owner_id"}))

chat_fragment ==
  Members("user", {"mentioned_user"}) @@ Members("string", {"type", "text", "cheermote_prefix"})
  @@ Members("int", {"cheermote_bits", "cheermote_tier"}) @@ Members("emote", {"emote_data"})
\* "type" is only found in an object, and only then a branch indexes it.
chat_fragment_fill ==
  Part("chat_fragment", Texts({"type", "text"})
    @@ [cheermote_prefix |-> Under("cheermote", Text("prefix")),
        cheermote_bits |-> Under("cheermote", Number("bits")),
        cheermote_tier |-> Under("cheermote", Number("tier")),
        emote_data |-> Under("emote", emote_fill),
        mentioned_user |-> Under("mention", User("user"))])

chat_badge == Members("string", {"set_id", "id", "info"})
chat_badge_fill == Part("chat_badge", Texts({"set_id", "id", "info"}))

chat_notice_metadata ==
  Members("user", {"gifter", "recipient", "raider"})
  @@ Members("string", {"sub_tier", "community_gift_id", "color", "charity_name",
      "charity_amount_currency"})
  @@ Members("int", {"duration_months", "cumulative_months", "streak_months", "cumulative_total",
      "total", "viewer_count", "bits_tier", "charity_amount_value",
      "charity_amount_decimal_places"})
  @@ Members("bool", {"is_prime", "is_anonymous", "streak_months_is_null", "is_gift",
      "cumulative_total_is_null"})
chat_notice_metadata_fill ==
  Part("chat_notice_metadata",
    [gifter |-> User("gifter_user"), recipient |-> User("recipient_user"),
     raider |-> User("user"), bits_tier |-> Number("tier"),
     streak_months_is_null |-> IsNull("streak_months"),
     cumulative_total_is_null |-> IsNull("cumulative_total")]
    @@ Texts({"sub_tier", "community_gift_id", "color", "charity_name"})
    @@ Ints({"duration_months", "cumulative_months", "streak_months", "cumulative_total",
        "total", "viewer_count"})
    @@ Bools({"is_prime", "is_anonymous", "is_gift"})
    @@ Within("amount", [charity_amount_value |-> Number("value"),
        charity_amount_decimal_places |-> Number("decimal_places"),
        charity_amount_currency |-> Text("currency")]))

reward_limit_setting == Members("int", {"value"}) @@ Members("bool", {"is_enabled"})
reward_limit_setting_fill ==
  Part("reward_limit_setting", Bools({"is_enabled"}) @@ Ints({"value"}))

reward_cooldown_setting == Members("int", {"seconds"}) @@ Members("bool", {"is_enabled"})
reward_cooldown_setting_fill ==
  Part("reward_cooldown_setting", Bools({"is_enabled"}) @@ Ints({"seconds"}))

reward_image == Members("string", {"url_1x", "url_2x", "url_4x"})
reward_image_fill == Part("reward_image", Texts({"url_1x", "url_2x", "url_4x"}))

redemption_reward == Members("string", {"id", "title", "prompt"}) @@ Members("int", {"cost"})
redemption_reward_fill ==
  Part("redemption_reward", Texts({"id", "title", "prompt"}) @@ Ints({"cost"}))

poll_choice ==
  Members("string", {"id", "title"})
  @@ Members("int", {"bits_votes", "channel_points_votes", "votes"})
poll_choice_fill ==
  Part("poll_choice", Texts({"id", "title"})
    @@ Ints({"bits_votes", "channel_points_votes", "votes"}))

poll_voting == Members("int", {"amount_per_vote"}) @@ Members("bool", {"is_enabled"})
poll_voting_fill ==
  Part("poll_voting", Bools({"is_enabled"}) @@ Ints({"amount_per_vote"}))

prediction_top_predictor ==
  Members("user", {"predictor"}) @@ Members("int", {"channel_points_won", "channel_points_used"})
prediction_top_predictor_fill ==
  Part("prediction_top_predictor", [predictor |-> User("user")]
    @@ Ints({"channel_points_won", "channel_points_used"}))

prediction_outcome ==
  Members("string", {"id", "title", "color"}) @@ Members("int", {"users", "channel_points"})
  @@ Lists("prediction_top_predictor", {"top_predictors"})
prediction_outcome_fill ==
  Part("prediction_outcome",
    [top_predictors |-> Each("top_predictors", prediction_top_predictor_fill)]
    @@ Texts({"id", "title", "color"}) @@ Ints({"users", "channel_points"}))

channel_moderate_action_metadata ==
  Members("user", {"target"})
  @@ Members("string", {"reason", "expires_at", "message_id", "message_body", "terms_action",
      "terms_list", "moderator_message"})
  @@ Members("int", {"follow_duration_minutes", "wait_time_seconds", "viewer_count"})
  @@ Members("bool", {"terms_from_automod", "is_approved"})
  @@ Lists("string", {"terms", "chat_rules_cited"})
channel_moderate_action_metadata_fill ==
  Part("channel_moderate_action_metadata",
    [target |-> User("user"), terms_action |-> Text("action"), terms_list |-> Text("list"),
     terms |-> Strings("terms"), terms_from_automod |-> Bool("from_automod"),
     chat_rules_cited |-> Strings("chat_rules_cited")]
    @@ Texts({"reason", "expires_at", "message_id", "message_body", "moderator_message"})
    @@ Ints({"follow_duration_minutes", "wait_time_seconds", "viewer_count"})
    @@ Bools({"is_approved"}))

hype_train_contribution ==
  Members("user", {"contributor"}) @@ Members("string", {"type"}) @@ Members("int", {"total"})
hype_train_contribution_fill ==
  Part("hype_train_contribution", [contributor |-> User("user")]
    @@ Texts({"type"}) @@ Ints({"total"}))

eventsub_transport == Members("string", {"method", "callback", "conduit_id"})
eventsub_transport_fill ==
  Part("eventsub_transport", Texts({"method", "callback", "conduit_id"}))

message ==
  Members("user", {"broadcaster", "chatter"}) @@ Members("string", {"id", "text"})
  @@ Lists("chat_fragment", {"fragments"})
Message(chatter_prefix) ==
  Part("message", [broadcaster |-> User("broadcaster_user"), chatter |-> User(chatter_prefix),
      id |-> Text("message_id")]
    @@ Within("message", Texts({"text"}) @@ [fragments |-> Each("fragments", chat_fragment_fill)]))

\* Every struct with a fill_from_json() of its own, as declared and as filled.
Parts ==
  {[declared |-> automod_boundary, fill |-> automod_boundary_fill],
   [declared |-> automod_check_result, fill |-> automod_check_result_fill],
   [declared |-> blocked_term_match, fill |-> blocked_term_match_fill],
   [declared |-> blocked_term_check_result, fill |-> blocked_term_check_result_fill],
   [declared |-> emote, fill |-> emote_fill],
   [declared |-> chat_fragment, fill |-> chat_fragment_fill],
   [declared |-> chat_badge, fill |-> chat_badge_fill],
   [declared |-> chat_notice_metadata, fill |-> chat_notice_metadata_fill],
   [declared |-> reward_limit_setting, fill |-> reward_limit_setting_fill],
   [declared |-> reward_cooldown_setting, fill |-> reward_cooldown_setting_fill],
   [declared |-> reward_image, fill |-> reward_image_fill],
   [declared |-> redemption_reward, fill |-> redemption_reward_fill],
   [declared |-> poll_choice, fill |-> poll_choice_fill],
   [declared |-> poll_voting, fill |-> poll_voting_fill],
   [declared |-> prediction_top_predictor, fill |-> prediction_top_predictor_fill],
   [declared |-> prediction_outcome, fill |-> prediction_outcome_fill],
   [declared |-> channel_moderate_action_metadata, fill |-> channel_moderate_action_metadata_fill],
   [declared |-> hype_train_contribution, fill |-> hype_train_contribution_fill],
   [declared |-> eventsub_transport, fill |-> eventsub_transport_fill],
   [declared |-> message, fill |-> Message("user")]}
=============================================================================
