--------------------------- MODULE WorkflowAudit ---------------------------
(***************************************************************************)
(* One run of tools/workflow-yaml-audit.py over a repository that somebody *)
(* edited.  main runs the checks in a fixed order, collects what they      *)
(* report and decides the exit code at the end; an exception that a check  *)
(* does not catch ends the run, and nothing collected so far is printed.   *)
(***************************************************************************)
EXTENDS BuildChecks, NativeChecks, AppChecks

CONSTANTS
    Tree,        \* Tree[f]: the tokens that stand in file f, all of them in code
    Readable,    \* the files that are read as text
    Commentable, \* those whose format has comments
    Sources,     \* the Kotlin, Dart and Go sources, the Dart entry point aside
    Unchecked,   \* tokens a check looks at without ever reporting them
    CodeOnly,    \* CodeOnly[f]: the tokens of f a check wants outside comments
    MaxEdits     \* how many edits separate the repository from Tree

Files == DOMAIN Tree

\* A directory goes with the files in it.
Within(f) == IF f = "res" THEN {"res", "res/xml", "styles.xml", "launch_background.xml"} ELSE {f}

\* The files that some check decodes without catching the error.
Undecoded == {Workflows[i] : i \in 1..4} \union
    {"gradle-wrapper.properties", "build.gradle.kts", "app/build.gradle.kts", "main.dart",
     "pubspec.yaml", "res/xml", ".flutter-plugins-dependencies", "engine.version",
     "settings.gradle.kts", ".gitignore", "pubspec.lock", "AndroidManifest.xml"}

\* The others it reads, and those of which it asks only whether they are there.
Decoded == Undecoded \union Screens \union State \union
    {Service, Activity, Netty, Orchestrator, Telemetry, Matcher, AuthService, Calculator, Rtc,
     VpnDart, "styles.xml", "packet_parser.dart", "router.go", "sessions.go",
     "score_calculator_test.dart"}
Sought == {"git", "res", "launch_background.xml", "gradlew", "gradlew.bat", "gradle-wrapper.jar"}

\* A token goes with what stands in it: a job with its steps.
Along(t) ==
    IF t = "a job"
    THEN {t, "uses: subosito/flutter-action", "with: flutter-version",
          "Generate local.properties from which flutter",
          "Verify Flutter SDK path flutter_tools/gradle",
          "Install Flutter dependencies: flutter pub get", "working-directory: ./mobile"}
    ELSE {t}

\* The tokens that some check forbids in f.
Banned(f) ==
    CASE f \in {"ci.yml", "ios.yml", "android-release.yml"} -> {"workflow_dispatch: inputs"}
      [] f = "app/build.gradle.kts" -> {"kotlinOptions { jvmTarget = 17", "java.util.Properties()"}
      [] f = "res/xml" -> {"-- inside a comment"}
      [] f = "AndroidManifest.xml" -> {"manifest package=", "tools:remove usesCleartextTraffic"}
      [] f \in {"main.dart", TaskScreen, Scores} \union OtherScreens -> {"vpn"}
      [] f = Screen -> MockTokens \union
             {"vpn", "if (_orchestrator.sessionId == null) { return", "Timer.periodic( and < 30"}
      [] f \in State -> MockTokens
      [] f = Matcher -> {"/api/v1/matches"}
      [] f = Service ->
             {"TUN_MTU = 1500", ".addRoute(TUN_ADDRESS", "protect(Socket())",
              "more invokeMethod( than mainHandler.post {",
              "packetsObserved.incrementAndGet() twice",
              "packetsObserved.set( outside startCapture and stopCapture",
              "packetsObserved.set(packetsObserved.get() + 1"}
      [] f = Activity -> {"a mock packet map"}
      [] f = VpnDart -> {"VpnService()"}
      [] OTHER -> {}

ASSUME AuditAssumption ==
    /\ Tree = [f \in Files |-> Tree[f]]
    /\ Files \subseteq Decoded \union Sought /\ Readable \subseteq Decoded
    /\ \A f \in Files : Within(f) \subseteq Files
    /\ Sources \intersect Undecoded = {}
    /\ MaxEdits \in Nat

\* git lists the paths it tracks and no text that holds them, the timer that S51
\* is after holds what it looks for, and so does, for S25, which lowers the case
\* of the text, whatever holds the name of disconnectVpn.
ASSUME PartAssumption ==
    /\ "git" \in Files => Tree["git"] \intersect DOMAIN Part = {}
    /\ {"< 30", "Timer.periodic"} \subseteq Holding({"Timer.periodic( and < 30"})
    /\ \A t \in DOMAIN Part \union {"disconnectVpn"} :
           "disconnectVpn" \in Holding({t}) => "vpn" \in Holding({t})

VARIABLES
    edits,       \* how many edits were made
    step,        \* the check main runs next
    findings,    \* all_findings
    printed,     \* what the run shows in the end
    exit         \* the outcome of the run

vars == <<code, notes, gone, garbled, edits, step, findings, printed, exit>>

Outcomes == {"running", "exit 0", "exit 1", "traceback"}

Init ==
    /\ code = Tree
    /\ notes = [f \in Files |-> {}]
    /\ gone = {} /\ garbled = {}
    /\ edits = 0 /\ step = 0
    /\ findings = {} /\ printed = {}
    /\ exit = "running"
-----------------------------------------------------------------------------
(* The edits a developer makes before the audit runs.                      *)

Editing ==
    /\ step = 0 /\ edits < MaxEdits
    /\ edits' = edits + 1
    /\ UNCHANGED <<step, findings, printed, exit>>

DeleteToken(f, t) ==
    /\ Editing /\ t \in code[f]
    /\ code' = [code EXCEPT ![f] = @ \ Along(t)]
    /\ UNCHANGED <<notes, gone, garbled>>

CommentOut(f, t) ==
    /\ Editing /\ f \in Commentable /\ t \in code[f]
    /\ code' = [code EXCEPT ![f] = @ \ Along(t)]
    /\ notes' = [notes EXCEPT ![f] = @ \union (code[f] \intersect Along(t))]
    /\ UNCHANGED <<gone, garbled>>

AddBanned(f, t) ==
    /\ Editing /\ f \in Readable
    /\ code' = [code EXCEPT ![f] = @ \union {t}]
    /\ UNCHANGED <<notes, gone, garbled>>

MentionBanned(f, t) ==
    /\ Editing /\ f \in Commentable
    /\ notes' = [notes EXCEPT ![f] = @ \union {t}]
    /\ UNCHANGED <<code, gone, garbled>>

DeleteFile(f) ==
    /\ Editing
    /\ gone' = gone \union Within(f)
    /\ UNCHANGED <<code, notes, garbled>>

Garble(f) ==
    /\ Editing /\ f \in Readable
    /\ garbled' = garbled \union {f}
    /\ UNCHANGED <<code, notes, gone>>

Edit ==
    \E f \in Files :
        \/ \E t \in Tree[f] : DeleteToken(f, t) \/ CommentOut(f, t)
        \/ \E t \in Banned(f) : AddBanned(f, t) \/ MentionBanned(f, t)
        \/ DeleteFile(f)
        \/ Garble(f)
-----------------------------------------------------------------------------
(* The run.                                                                *)

NumChecks == 93

\* The calls of main in their order, first those that check what the app is built
\* from.
SprintNine(i) ==
     CASE i \in 1..4 -> audit_workflow(Workflows[i])
       [] i = 5 -> check_gradle_wrapper_version
       [] i = 6 -> check_agp_version
       [] i = 7 -> check_kotlin_version
       [] i = 8 -> check_app_build_gradle_syntax_v2
       [] i = 9 -> check_android_debug_workflow_v3
       [] i = 10 -> check_mobile_entry_point_v4
       [] i = 11 -> check_android_xml_comments_v5
       [] i = 12 -> check_android_manifest_v6
       [] i = 13 -> check_android_res_skeleton_v7
       [] i = 14 -> check_flutter_plugins_dependencies_v8
       [] i = 15 -> check_flutter_kotlin_embedding_v9
       [] i = 16 -> check_flutter_storage_repo_v10
       [] i = 17 -> check_gradle_wrapper_force_include
       [] i = 18 -> check_fresh_flutter_create_preserved
       [] i = 19 -> check_fresh_create_metadata_tracked
       [] i = 20 -> check_pubspec_baseline_shape

\* Those of the application's screens and services.
SprintTen(i) ==
     CASE i = 21 -> check_no_vpn_string_in_sprint10_ui
       [] i = 22 -> check_whatsapp_deeplink_literal_present
       [] i = 23 -> check_active_pool_linechart_literal_present
       [] i = 24 -> check_pool_provider_no_fake_animation_v29
       [] i = 25 -> check_dart_no_fake_ui_animation_v30
       [] i = 26 -> check_vpn_service_mtu_and_fragment_log_v31
       [] i = 27 -> check_oturumu_bitir_2level_fallback_v32
       [] i = 28 -> check_oturumu_bitir_full_state_reset_v33
       [] i = 29 -> check_dns_private_dns_conflict_v34
       [] i = 30 -> check_notification_chronometer_autostop_v35
       [] i = 31 -> check_vpn_service_passthrough_count_invariant_v36
       [] i = 32 -> check_manifest_change_network_state_v37
       [] i = 33 -> check_stop_capture_ring_clear_invariant_v38
       [] i = 34 -> check_check_private_dns_bind_5_logd_invariant_v39
       [] i = 35 -> check_check_private_dns_5s_fallback_invariant_v40
       [] i = 36 -> check_check_private_dns_call_before_establish_invariant_v41
       [] i = 37 -> check_user_space_tcp_ip_stack_invariant_v42
       [] i = 38 -> check_active_pool_haptic_feedback_literal_present
       [] i = 39 -> check_pool_provider_debug_state_fields
       [] i = 40 -> check_active_pool_scaffold_messenger_snackbar
       [] i = 41 -> check_service_api_key_from_environment
       [] i = 42 -> check_auth_service_exists
       [] i = 43 -> check_service_uses_auth_headers
       [] i = 44 -> check_auth_token_expiry_field
       [] i = 45 -> check_auth_invalidate_method
       [] i = 46 -> check_whatsapp_deeplink_intent_format
       [] i = 47 -> check_p2p_matcher_sessions_endpoint
       [] i = 48 -> check_android_manifest_whatsapp_queries_v12
       [] i = 49 -> check_main_activity_get_sampled_packets_v13
       [] i = 50 -> check_whatsapp_deeplink_wa_me_format_v14

\* Those of the three milestones: packets that reach the screens, the peer
\* connection, the scores.
Milestones(i) ==
     CASE i = 51 -> check_vpn_service_on_packets_sampled_literal_v15
       [] i = 52 -> check_main_activity_snapshot_call_v15
       [] i = 53 -> check_vpn_service_packet_stream_getter_v15
       [] i = 54 -> check_active_pool_packet_stream_listen_v15
       [] i = 55 -> check_sampled_packet_class_v15
       [] i = 56 -> check_vpn_service_foreground_notification_text_v15
       [] i = 57 -> check_active_pool_no_30_call_loop_v15
       [] i = 58 -> check_telemetry_service_summary_upload_v15
       [] i = 59 -> check_pubspec_webrtc_dep_v16
       [] i = 60 -> check_webrtc_service_rtc_peer_connection_v16
       [] i = 61 -> check_webrtc_service_on_ice_candidate_v16
       [] i = 62 -> check_session_orchestrator_start_session_v16
       [] i = 63 -> check_session_orchestrator_long_poll_v16
       [] i = 64 -> check_backend_webrtc_long_poll_handlers_v16
       [] i = 65 -> check_webrtc_service_on_track_v16
       [] i = 66 -> check_active_pool_webrtc_status_indicator_v16
       [] i = 67 -> check_skorlar_screen_fetch_scores_v17
       [] i = 68 -> check_score_calculator_compute_v17
       [] i = 69 -> check_score_calculator_four_metrics_v17
       [] i = 70 -> check_score_calculator_overall_weighted_sum_v17
       [] i = 71 -> check_session_orchestrator_close_session_v17
       [] i = 72 -> check_active_pool_oturumu_bitur_button_v17
       [] i = 73 -> check_active_pool_close_then_navigate_v17
       [] i = 74 -> check_skorlar_empty_state_v17
       [] i = 75 -> check_skorlar_card_overall_gauge_v17
       [] i = 76 -> check_backend_sessions_close_handler_v17
       [] i = 77 -> check_backend_summary_stats_shape_v17
       [] i = 78 -> check_score_calculator_unit_tests_v17

\* Those that keep a fault on the devices from coming back.
Regressions(i) ==
     CASE i = 79 -> check_main_activity_owns_vpn_channel_v18
       [] i = 80 -> check_vpn_service_startforeground_within_5s_v19
       [] i = 81 -> check_vpn_service_log_d_breadcrumbs_v20
       [] i = 82 -> check_vpn_service_dart_singleton_v20
       [] i = 83 -> check_active_pool_screen_ui_propagation_v21
       [] i = 84 -> check_vpn_service_state_transition_breadcrumbs_v22
       [] i = 85 -> check_vpn_service_addroute_bad_address_v23
       [] i = 86 -> check_vpn_service_tun_passthrough_v24
       [] i = 87 -> check_vpn_service_ui_thread_push_v26
       [] i = 88 -> check_vpn_service_packets_observed_increment_invariant_v27
       [] i = 89 -> check_tcp_state_machine_v43
       [] i = 90 -> check_udp_forwarder_v44
       [] i = 91 -> check_tcp_5tuple_v45
       [] i = 92 -> check_tcp_dataflow_v46
       [] i = 93 -> check_teardown_comprehensive_v48

\* What the call at position i of main returns.
Result(i) ==
     CASE i \in 1..20 -> SprintNine(i)
       [] i \in 21..50 -> SprintTen(i)
       [] i \in 51..78 -> Milestones(i)
       [] i \in 79..93 -> Regressions(i)

Start ==
    /\ step = 0
    /\ step' = 1
    /\ UNCHANGED <<code, notes, gone, garbled, edits, findings, printed, exit>>

\* all_findings.extend of what the check returned.
RunCheck ==
    /\ exit = "running" /\ step \in 1..NumChecks
    /\ Abort \notin Result(step)
    /\ findings' = findings \union Result(step)
    /\ step' = step + 1
    /\ UNCHANGED <<code, notes, gone, garbled, edits, printed, exit>>

\* The traceback takes the place of the findings.
Raise ==
    /\ exit = "running" /\ step \in 1..NumChecks
    /\ Abort \in Result(step)
    /\ exit' = "traceback"
    /\ UNCHANGED <<code, notes, gone, garbled, edits, step, findings, printed>>

\* A run that prints its findings and succeeds.
VerdictIgnoresFindings ==
    /\ exit = "running" /\ step = NumChecks + 1
    /\ printed' = findings
    /\ exit' = "exit 0"
    /\ UNCHANGED <<code, notes, gone, garbled, edits, step, findings>>

\* The findings are printed, and any of them makes the exit code 1.
Verdict ==
    /\ exit = "running" /\ step = NumChecks + 1
    /\ printed' = findings
    /\ exit' = IF findings = {} THEN "exit 0" ELSE "exit 1"
    /\ UNCHANGED <<code, notes, gone, garbled, edits, step, findings>>

main == Start \/ RunCheck \/ Raise \/ Verdict

Next == Edit \/ main

Spec == Init /\ [][Next]_vars
-----------------------------------------------------------------------------
(* Properties.                                                             *)

Done == exit \in {"exit 0", "exit 1"}

Printed(f, T) == \E r \in printed : r.file \in {f, "services"} /\ r.about \intersect T # {}

\* What may have been lost from a text of f together with t.
LostWith(f, t, text) == UNION {Along(u) : u \in {u \in Tree[f] \ text : t \in Along(u)}}

\* The state has the shape Init gives it, the findings are entries of the
\* list, and they are shown exactly by a run that ends with exit code 1.
TypeOK ==
    /\ \A f \in Files : code[f] \union notes[f] \subseteq Tree[f] \union Banned(f)
    /\ gone \subseteq Files /\ garbled \subseteq Readable
    /\ edits \in 0..MaxEdits /\ step \in 0..NumChecks + 1
    /\ \A r \in findings : r.check # "exception" /\ r.about # {}
    /\ printed = IF Done THEN findings ELSE {}
    /\ exit \in Outcomes /\ (exit = "exit 1" <=> printed # {})

\* A token that some edit removed from a file, so that not even a longer token
\* or a comment holds it, is named by a finding about that file, itself or what
\* it went with: no check of main returns before it asks for the token, and none
\* looks for it elsewhere.
LossIsReported ==
    Done => \A f \in Files \ (gone \union garbled) :
                \A t \in Tree[f] \ (Raw(f) \union Unchecked) :
                    Printed(f, LostWith(f, t, Raw(f)))

\* Without these the checks of a workflow and of the manifest look no further.
Structure == {"one document", "on:", "on: is a mapping", "valid xml"}

\* What a check forbids is reported wherever it was added to the code, unless
\* the file is reported for having lost its structure.
BannedIsReported ==
    Done => \A f \in Files \ (gone \union garbled) :
                \A t \in Banned(f) \intersect code[f] :
                    Printed(f, Holding({t}) \union Structure)

\* A finding that names a file or stands for it: S12 does not look for the
\* engine's hash when the build file declares none to compare it with.
Names(r, f) ==
    \/ r.file = f \/ f \in r.about
    \/ f = "engine.version" /\ r.check = "S12" /\ r.file = "app/build.gradle.kts"

\* What the checks that take every file of a directory pass over: S25 the screens
\* it cannot read, S86 the providers that are not there.
PassedOver(f) ==
    \/ f \in OtherScreens /\ f \in gone \union garbled
    \/ f \in OtherState /\ f \in gone

\* What the audit cannot read it names in a finding, itself or the directory
\* that went with it, so that a check that skips a missing file lets it pass
\* only where no other check asks for the file: such a screen, and such a
\* provider once it is missing, no finding is about.
UnreadableIsReported ==
    Done => \A f \in gone \union garbled :
                IF PassedOver(f) THEN \A r \in printed : r.file # f
                ELSE \E g \in gone \union garbled, r \in printed :
                         f \in Within(g) /\ Names(r, g)

\* A traceback has its cause in a build file, one that is not UTF-8 or that
\* lacks what the audit takes for granted in a parsed file: whatever else was
\* edited, the decoding error of a Kotlin, Dart or Go source is caught and ends
\* no run.
SourcesNeverCrash ==
    exit = "traceback" =>
        \/ garbled \ Sources # {}
        \/ \E g \in TakenForGranted : g[2] \notin Stripped(g[1])

\* The checks that search the text with its comments for something forbidden.
CommentBans == {"S8", "S25", "S41", "S51", "S88"}

\* What a finding forbids stands in the code outside a comment, what it misses
\* does not, and a file it could not read is bad.
IsTrue(r) ==
    CASE "file missing" \in r.about -> r.file \in gone
      [] "read failed" \in r.about -> garbled # {}
      [] OTHER -> \/ ({r.file} \union r.about) \intersect (gone \union garbled) # {}
                  \/ \E t \in r.about : t \in Banned(r.file) <=> t \in Stripped(r.file)

\* Every finding is true of the code: no check accuses a file of what it does
\* not hold, or misses what is there, whichever text it searched.
FindingsAreTrue ==
    \A r \in findings : r.check \notin CommentBans /\ r.file \in Files => IsTrue(r)

=============================================================================
