----------------------------- MODULE AppChecks -----------------------------
(***************************************************************************)
(* The checks of tools/workflow-yaml-audit.py on the Flutter application   *)
(* and on the two Go files of the back end that serve it.  Most of them    *)
(* search the raw text, comments included.                                 *)
(***************************************************************************)
EXTENDS AuditedRepo

Screen == "active_pool_screen.dart"
TaskScreen == "whatsapp_task_detail_screen.dart"
Scores == "skorlar_screen.dart"
Pool == "pool_provider.dart"
Deeplink == "whatsapp_deeplink_provider.dart"
Orchestrator == "session_orchestrator.dart"
Telemetry == "telemetry_service.dart"
Matcher == "p2p_matcher.dart"
AuthService == "auth_service.dart"
Calculator == "score_calculator.dart"
Rtc == "webrtc_service.dart"
VpnDart == "vpn_service.dart"

\* The screens and the providers that no check asks for by name.
OtherScreens == {"bilgilendirme_screen.dart", "home_screen.dart"}
OtherState == {"is_accepted_provider.dart", "tasks_provider.dart"}

\* The Dart files of screens/ and of state/.
Screens == {Screen, TaskScreen, Scores} \union OtherScreens
State == {Pool, Deeplink} \union OtherState

\* A check with a finding of its own for each group that is not in the raw text.
Requires(id, f, groups) == Guarded(id, f, Lacks(id, f, Raw(f), groups))

\* A check that names in one finding all that is not in the raw text.
RequiresAll(id, f, groups) == Guarded(id, f, AsOne(id, f, Lacks(id, f, Raw(f), groups)))

\* A text one of two files has to hold; a file that cannot be read does not hold it.
RequiresIn(id, files, token) ==
    IF \E f \in files \ (gone \union garbled) : token \in Raw(f) THEN {}
    ELSE {Finding(id, "services", {token})}

\* Timer.periodic with a callback that is not known to call the API, and the mock values.
MockTimer == "Timer.periodic( with a mock callback"
MockTokens == {"setInterval(", "Future.delayed(", MockTimer, "paketSayisi: 247",
               "gonulluSayisi: 3", "testEdilenler: {rcs, whatsapp}"}

\* Every screen there is: one that cannot be read is passed over without a word.
check_no_vpn_string_in_sprint10_ui ==
    LET files == ({"main.dart"} \union Screens) \ (gone \union garbled)
    IN  UNION {Bans("S25", f, Raw(f), {"vpn"}) : f \in files}

check_whatsapp_deeplink_literal_present ==
    Requires("S26", TaskScreen, {{"intent://send?text="}})

check_whatsapp_deeplink_intent_format ==
    RequiresAll("S40", Deeplink, Each(
        {"intent://send?", "#Intent;scheme=whatsapp;package=com.whatsapp;end"}))

check_p2p_matcher_sessions_endpoint ==
    Requires("S41", Matcher, {{"/api/v1/sessions"}})
    \union (IF Matcher \in gone \union garbled THEN {}
            ELSE Bans("S41", Matcher, Raw(Matcher), {"/api/v1/matches"}))

\* The block itself may stand in a comment, the package in it may not.
check_android_manifest_whatsapp_queries_v12 ==
    LET f == "AndroidManifest.xml"
        package == Lacks("S42", f, Stripped(f), {{"<package android:name=com.whatsapp"}})
    IN  Guarded("S42", f, IF "<queries>" \in Raw(f) THEN package
                          ELSE {Finding("S42", f, {"<queries>"})})

check_active_pool_linechart_literal_present == Requires("S27", Screen, {{"LineChart"}})

check_pool_provider_no_fake_animation_v29 ==
    Guarded("S28", Pool, Bans("S28", Pool, Stripped(Pool), {MockTimer}))

\* A check for mock values that searches the comments too.
FakeAnimationInComments ==
    LET fake(f) == Guarded("S86", f, Bans("S86", f, Raw(f), MockTokens))
    IN  (UNION {fake(f) : f \in ({Screen} \union State) \ gone})
        \union Requires("S86", Screen, Each({"packetStream.listen", "stateStream.listen"}))

\* The subscriptions are looked for in the raw text, the mock calls in the stripped one
\* of whatever state/ holds.
check_dart_no_fake_ui_animation_v30 ==
    LET fake(f) == Guarded("S86", f, Bans("S86", f, Stripped(f), MockTokens))
    IN  (UNION {fake(f) : f \in ({Screen} \union State) \ gone})
        \union Requires("S86", Screen, Each({"packetStream.listen", "stateStream.listen"}))

check_oturumu_bitir_2level_fallback_v32 ==
    LET earlyReturn == "if (_orchestrator.sessionId == null) { return"
    IN  Guarded("S88", Screen,
            Lacks("S88", Screen, Raw(Screen), Each(
                {".stop().timeout(", "TimeoutException", "opene2ee/permissions", "disconnectVpn"}))
            \union Bans("S88", Screen, Raw(Screen), {earlyReturn}))
        \union Requires("S88", "MainActivity.kt", Each(
            {"fun disconnectVpn(", "stopService", "VpnService.prepare",
             "OpenE2eeVpnService::class.java", "disconnectVpn -> disconnectVpn("}))

check_oturumu_bitir_full_state_reset_v33 ==
    Requires("S89", Screen,
        {{"_packetSub?.cancel()", "_packetSub.cancel()"},
         {"_stateSub?.cancel()", "_stateSub.cancel()"}, {"_toplamPaket = 0"},
         {"_vpnState = VpnLifecycleState.idle"}, {"setState(() {"},
         {"_disconnectInProgress = true"}, {"_disconnectInProgress = false"},
         {"context.go(/home/gorevler)"}})

check_dns_private_dns_conflict_v34 ==
    Requires("S91", "OpenE2eeVpnService.kt", Each(
        {"isPrivateDnsActive", "import android.net.ConnectivityManager", "bindProcessToNetwork"}))
    \union Requires("S91", Screen, Each({"private_dns_active", "chrome://flags/#dns-httpssvc"}))

check_active_pool_haptic_feedback_literal_present ==
    Requires("S29", Screen, {{"HapticFeedback", "SystemSound"}})

check_pool_provider_debug_state_fields ==
    RequiresAll("S33", Pool, Each({"lastError", "lastSuccess"}))

check_active_pool_scaffold_messenger_snackbar ==
    Requires("S34", Screen, {{"ScaffoldMessenger.of(context).showSnackBar"}})

check_service_api_key_from_environment ==
    RequiresIn("S35", {Telemetry, Matcher}, "String.fromEnvironment(API_KEY")

check_auth_service_exists ==
    RequiresAll("S36", AuthService, Each({"post(", "/api/v1/auth", "user_id"}))

check_service_uses_auth_headers == RequiresIn("S37", {Telemetry, Matcher}, "authHeaders()")

check_auth_token_expiry_field == Requires("S38", AuthService, {{"_tokenExpiresAt"}})

check_auth_invalidate_method == Requires("S39", AuthService, {{"invalidate()"}})

check_whatsapp_deeplink_wa_me_format_v14 ==
    RequiresAll("S44", Deeplink, Each({"intent://send?text=", "https://wa.me/?text="}))
    \union Requires("S44", TaskScreen, {{"tryOpenWithReason"}})

check_vpn_service_packet_stream_getter_v15 ==
    RequiresAll("S47", VpnDart, Each({"packetStream", "import flutter/services.dart"}))

check_active_pool_packet_stream_listen_v15 == Requires("S48", Screen, {{"packetStream.listen"}})

check_sampled_packet_class_v15 ==
    RequiresAll("S49", "packet_parser.dart", Each({"class SampledPacket", "fromBytes", "toJson"}))

\* The two texts of the old loop may stand anywhere, not only next to each other.
check_active_pool_no_30_call_loop_v15 ==
    LET loop == {"< 30", "Timer.periodic"}
    IN  Guarded("S51", Screen,
            (IF loop \subseteq Raw(Screen) THEN {Finding("S51", Screen, loop)} ELSE {})
            \union Lacks("S51", Screen, Raw(Screen), {{"packetStream"}}))

check_telemetry_service_summary_upload_v15 ==
    RequiresAll("S52", Telemetry, Each(
        {"sendSummary", "/api/v1/sessions/", "encryptionIntegrityPct", "packetLossPct"}))

check_skorlar_screen_fetch_scores_v17 ==
    RequiresAll("S61", Scores,
        {{"Future<List<SessionScore>>"}, {"ConsumerStatefulWidget", "ConsumerState<"},
         {"fetchScores"}})

check_score_calculator_compute_v17 ==
    RequiresAll("S62", Calculator, Each(
        {"class SessionScoreCalculator", "static SessionScore compute"}))

check_score_calculator_four_metrics_v17 ==
    RequiresAll("S63", Calculator, Each(
        {"encryptionIntegrityPct", "packetLossPct", "meanLatencyMs", "jitterMs"}))

check_score_calculator_overall_weighted_sum_v17 ==
    RequiresAll("S64", Calculator, Each({"0.4 *", "0.3 *", "0.2 *", "0.1 *"}))

check_session_orchestrator_close_session_v17 ==
    RequiresAll("S65", Orchestrator, Each({"closeSession", "/api/v1/sessions/", "close", ".post("}))

check_active_pool_oturumu_bitur_button_v17 == Requires("S66", Screen, {{"Oturumu Bitir"}})

check_active_pool_close_then_navigate_v17 ==
    RequiresAll("S67", Screen, Each({"closeSession", "/home/skorlar"}))

check_skorlar_empty_state_v17 == Requires("S68", Scores, {{"the empty-state text"}})

check_skorlar_card_overall_gauge_v17 ==
    RequiresAll("S69", Scores, {{"SessionScoreCard"}, {"_OverallScoreDisc", "overallScore"}})

check_backend_sessions_close_handler_v17 ==
    Requires("S70", "router.go", {{"r.Post(/sessions/{id}/close"}})

check_backend_summary_stats_shape_v17 ==
    RequiresAll("S71", "sessions.go", Each(
        {"summary_stats", "total_packets", "encrypted_packets", "packet_loss_pct",
         "mean_latency_ms", "jitter_ms", "encryption_integrity_pct"}))

check_score_calculator_unit_tests_v17 ==
    Requires("S72", "score_calculator_test.dart", {{"test( four times"}})

\* The private constructor may stand in a comment; a call of the default one may.
check_vpn_service_dart_singleton_v20 ==
    Guarded("S76", VpnDart,
        Lacks("S76", VpnDart, Raw(VpnDart),
            {{"VpnService._internal(", "VpnService._("},
             {"static VpnService get instance", "static final VpnService _instance"}})
        \union Bans("S76", VpnDart, Stripped(VpnDart), {"VpnService()"}))

check_active_pool_screen_ui_propagation_v21 ==
    Guarded("S77", Screen,
        Lacks("S77", Screen, Raw(Screen),
            {{"ConsumerStatefulWidget"}, {"VpnService.instance", "vpnServiceProvider"}})
        \union FirstLack("S77", Screen, Raw(Screen), <<{"stateStream.listen"}, {"setState("}>>))

check_pubspec_webrtc_dep_v16 == Requires("S53", "pubspec.yaml", {{"webrtc:"}})

check_webrtc_service_rtc_peer_connection_v16 ==
    RequiresAll("S54", Rtc, Each(
        {"import flutter_webrtc.dart", "RTCPeerConnection", "createPeerConnection"}))

check_webrtc_service_on_ice_candidate_v16 ==
    RequiresAll("S55", Rtc, Each({"onIceCandidate", "candidate", "sdpMid"}))

check_session_orchestrator_start_session_v16 ==
    RequiresAll("S56", Orchestrator, Each({"startSession", "authHeaders", "/api/v1/sessions"}))

\* A check of the long poll that does not ask for the GET.
LongPollWithoutGet ==
    LET timeout == {"Duration(seconds: 30)", "_pollTimeout"}
    IN  Guarded("S57", Orchestrator,
            IF timeout \intersect Raw(Orchestrator) = {}
            THEN {Finding("S57", Orchestrator, timeout)}
            ELSE Lacks("S57", Orchestrator, Raw(Orchestrator), {{"pollForOffer", "pollForAnswer"}}))

check_session_orchestrator_long_poll_v16 ==
    LET timeout == {"Duration(seconds: 30)", "_pollTimeout"}
        poll == {{".get("}, {"pollForOffer", "pollForAnswer"}}
    IN  Guarded("S57", Orchestrator,
            IF timeout \intersect Raw(Orchestrator) = {}
            THEN {Finding("S57", Orchestrator, timeout)}
            ELSE Lacks("S57", Orchestrator, Raw(Orchestrator), poll))

check_backend_webrtc_long_poll_handlers_v16 ==
    RequiresAll("S58", "router.go", Each({"r.Get(/webrtc/offer", "r.Get(/webrtc/answer"}))

check_webrtc_service_on_track_v16 == RequiresAll("S59", Rtc, Each({"onTrack", "get onTrack"}))

check_active_pool_webrtc_status_indicator_v16 ==
    RequiresAll("S60", Screen, Each({"the negotiating label", "the connected label", "hata"}))
=============================================================================
