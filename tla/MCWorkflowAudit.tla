------------------------- MODULE MCWorkflowAudit -------------------------
(***************************************************************************)
(* The least repository the checks accept, but for S25, which bans from a  *)
(* screen what S88 demands there, with one alternative where they accept   *)
(* several.  It is not the repository that holds the audit, of which the   *)
(* audit complains.                                                        *)
(***************************************************************************)
EXTENDS WorkflowAudit, TLC

Filled ==
    "android-debug.yml" :> {"valid yaml", "one document", "top-level mapping", "on:",
                          "on: is a mapping", "comparable triggers",
                          "on: workflow_dispatch and no other", "jobs is a mapping", "a job",
                          "steps to walk", "uses: subosito/flutter-action",
                          "with: flutter-version",
                          "Generate local.properties from which flutter",
                          "Verify Flutter SDK path flutter_tools/gradle",
                          "Install Flutter dependencies: flutter pub get",
                          "working-directory: ./mobile"}
 @@ "ci.yml" :> {"valid yaml", "one document", "top-level mapping", "on:",
               "on: is a mapping", "comparable triggers",
               "on: workflow_dispatch and no other"}
 @@ "ios.yml" :> {"valid yaml", "one document", "top-level mapping", "on:",
                "on: is a mapping", "comparable triggers",
                "on: workflow_dispatch and no other"}
 @@ "android-release.yml" :> {"valid yaml", "one document", "top-level mapping", "on:",
                            "on: is a mapping", "comparable triggers",
                            "on: workflow_dispatch and no other"}
 @@ "gradle-wrapper.properties" :> {"gradle-X.Y-bin.zip", "gradle at least 8.7"}
 @@ "build.gradle.kts" :> {"id(com.android.application) version X.Y", "agp at least 8.6",
                         "id(org.jetbrains.kotlin.android) version X.Y", "kotlin at least 2.2"}
 @@ "app/build.gradle.kts" :> {"import java.util.Properties",
                             "import org.jetbrains.kotlin.gradle.dsl.JvmTarget",
                             "kotlin { compilerOptions { jvmTarget.set(JvmTarget.JVM_17)",
                             "namespace = com.opene2ee.opene2ee", "dependencies {",
                             "dependencies block balanced", "io.flutter:flutter_embedding_ktx",
                             "io.flutter:flutter_embedding_ktx:1.0.0-hash",
                             "declared hash is the engine's", "io.netty:netty-all"}
 @@ "main.dart" :> {"runApp(", "ProviderScope"}
 @@ "pubspec.yaml" :> {"valid yaml", "constructible scalars", "top-level mapping",
                     "flutter_riverpod", "go_router", "name", "environment.sdk",
                     "dependencies.flutter.sdk: flutter",
                     "dev_dependencies.flutter_test.sdk: flutter", "webrtc:"}
 @@ "res/xml" :> {"valid xml"}
 @@ "AndroidManifest.xml" :> {"known encoding", "no encoding but UTF-8 declared", "valid xml",
                            "xmlns:tools=", "CHANGE_NETWORK_STATE",
                            "<package android:name=com.whatsapp", "<queries>"}
 @@ "styles.xml" :> {"known encoding", "valid xml", "LaunchTheme", "NormalTheme"}
 @@ "res" :> {"a mipmap directory with an icon"}
 @@ ".flutter-plugins-dependencies" :> {"valid json", "constructible scalars",
                                      "top-level mapping", "plugins",
                                      "plugins.android", "a plugin entry", "entry name",
                                      "entry native_build"}
 @@ "engine.version" :> {"a 40-digit hash"}
 @@ "settings.gradle.kts" :> {"dependencyResolutionManagement {",
                            "dependencyResolutionManagement balanced",
                            "download.flutter.io in dependencyResolutionManagement"}
 @@ "git" :> {"gradlew", "gradlew.bat", "gradle-wrapper.jar", "pubspec.lock", ".metadata",
            "android/.gitignore"}
 @@ ".gitignore" :> {"!**/android/gradlew", "!**/android/gradlew.bat",
                   "!**/android/gradle/wrapper/gradle-wrapper.jar", "**/android/.gradle/",
                   "**/android/local.properties", "**/.dart_tool/",
                   "**/.flutter-plugins-dependencies"}
 @@ "pubspec.lock" :> {"valid yaml", "constructible scalars", "top-level mapping", "packages",
                     "packages.flutter", "packages.flutter.source: sdk"}
 @@ "OpenE2eeVpnService.kt" :> {"TUN_MTU = 1400", "ipFragmentCount", "fragmentRatePct",
                              "addDnsServer(PRIMARY_DNS", "COUNTDOWN_TOTAL_MS",
                              "setUsesChronometer(true)", "setWhen(",
                              "scheduleCountdownAutoStop", "mainHandler.postDelayed",
                              "stopCapture(graceful = true)", "countdownAutoStopRunnable",
                              "private val passthroughCount = AtomicLong(0)",
                              "passthroughCount.set(0)", "pfd.fileDescriptor.valid",
                              "passthroughCount.incrementAndGet", "catch (e: IOException)",
                              "catch (t: Throwable)", "passthroughCount", "passthroughGap",
                              "synchronized(ringLock) { ring.clear() } twice",
                              "packetsObserved.set(0) three times",
                              "DNS: checkPrivateDnsAndBindToVpn: ENTRY", "isPrivateDnsActive=",
                              "ConnectivityManager.requestNetwork(TRANSPORT_VPN) start",
                              "NetworkCallback.onAvailable", "NetworkCallback.onUnavailable",
                              "bindProcessToNetwork(vpn) result=", "callbackFired",
                              "Handler(Looper.getMainLooper())", "postDelayed(",
                              "NetworkCallback TIMEOUT",
                              "FALLBACK bindProcessToNetwork(activeNetwork)",
                              "hasTransport(NetworkCapabilities.TRANSPORT_VPN)",
                              "Magisk DenyList", "removeCallbacks(fallbackRunnable)",
                              "fallbackAttemptCount", "attempt 1/2",
                              "lateinit var fallbackRunnable", "checkPrivateDnsAndBindToVpn()",
                              "builder.establish() after checkPrivateDnsAndBindToVpn()",
                              "user-space", "TCP packet ENTRY", "parseTcpHeader dstPort=",
                              "handleTcpPacket dispatch", "var handled", "passthrough SKIPPED",
                              "onPacketsSampled", "OpenE2EE Sifreleme Dogrulama",
                              "startForeground(", "FOREGROUND_SERVICE_TYPE_SPECIAL_USE",
                              "createNotificationChannel", "onStartCommand",
                              "override fun onStartCommand(...) {",
                              "startForeground( in onStartCommand", "Log.d(TAG, five times",
                              "startCapture: SAMPLING started", "stopCapture: called",
                              "onRevoke:", "synchronized(", "stateLock",
                              "CAPTURED_ROUTE_ADDRESS", "CAPTURED_ROUTE_PREFIX",
                              ".addAddress(TUN_ADDRESS", "output.write(buf", "input.read(buf",
                              "import android.os.Handler", "import android.os.Looper",
                              "mainHandler.post", "packetsObserved.incrementAndGet()",
                              "the increment is in startReaderThread",
                              "extractMetadata before the increment", "isPrivateDnsActive",
                              "import android.net.ConnectivityManager", "bindProcessToNetwork",
                              "if (handled)"}
 @@ "MainActivity.kt" :> {"when (call.method)", "getSampledPackets", "MethodChannel(",
                        "opene2ee/vpn", "setMethodCallHandler", "OpenE2eeVpnService.dispatch",
                        "fun disconnectVpn(", "stopService", "VpnService.prepare",
                        "OpenE2eeVpnService::class.java", "disconnectVpn -> disconnectVpn(",
                        "snapshot()"}
 @@ "NettyChannelClient.kt" :> {"VpnService.protect(", "class NettyChannelClient",
                              "fun handleTcpPacket(", "data class TcpConnection",
                              "enum class TcpState", "LISTEN", "SYN_SENT", "ESTABLISHED",
                              "FIN_WAIT_1", "FIN_WAIT_2", "CLOSE_WAIT", "LAST_ACK", "TIME_WAIT",
                              "CLOSED", "SYN, flow", "SYN+ACK received", "-> ESTABLISHED",
                              "ACK, flow", "fun handleUdpPacket(", "DatagramSocket",
                              "protect( after DatagramSocket", "new TcpConnection",
                              "primaryFlowKey", "reverseFlowKey", "sendHttpRequest:",
                              "recvHttpResponse:", "responsePayload:",
                              "bytes read from real socket",
                              "tcpConnectionMap.put primary flow", "late ACK",
                              "@Volatile eight times", "flowMap.clear()",
                              "tcpConnectionMap.clear()", "udpSocketMap.clear()",
                              "udpReaderFutures", "tunOutputStream = null",
                              "workerGroup.shutdownGracefully()", "await", "backgroundExecutor",
                              "readerFuture", "cancel(true)", "shutdownNow()",
                              "awaitTermination"}
 @@ "active_pool_screen.dart" :> {"LineChart", "packetStream.listen", "stateStream.listen",
                                ".stop().timeout(", "TimeoutException", "opene2ee/permissions",
                                "disconnectVpn", "_packetSub?.cancel()", "_stateSub?.cancel()",
                                "_toplamPaket = 0", "_vpnState = VpnLifecycleState.idle",
                                "setState(() {", "_disconnectInProgress = true",
                                "_disconnectInProgress = false", "context.go(/home/gorevler)",
                                "private_dns_active", "chrome://flags/#dns-httpssvc",
                                "HapticFeedback", "ScaffoldMessenger.of(context).showSnackBar",
                                "packetStream", "ConsumerStatefulWidget", "closeSession",
                                "Oturumu Bitir", "/home/skorlar", "VpnService.instance",
                                "setState(", "the negotiating label", "the connected label",
                                "hata"}
 @@ "whatsapp_task_detail_screen.dart" :> {"intent://send?text=", "tryOpenWithReason"}
 @@ "skorlar_screen.dart" :> {"Future<List<SessionScore>>", "ConsumerStatefulWidget",
                            "fetchScores", "the empty-state text", "SessionScoreCard",
                            "overallScore"}
 @@ "pool_provider.dart" :> {"lastError", "lastSuccess"}
 @@ "whatsapp_deeplink_provider.dart" :> {"intent://send?text=", "intent://send?",
                                        "#Intent;scheme=whatsapp;package=com.whatsapp;end",
                                        "https://wa.me/?text="}
 @@ "session_orchestrator.dart" :> {"/api/v1/sessions", "/api/v1/sessions/", "closeSession",
                                  "close", ".post(", "startSession", "authHeaders",
                                  "Duration(seconds: 30)", ".get(", "pollForOffer"}
 @@ "telemetry_service.dart" :> {"sendSummary", "/api/v1/sessions/", "encryptionIntegrityPct",
                               "packetLossPct", "String.fromEnvironment(API_KEY",
                               "authHeaders()"}
 @@ "p2p_matcher.dart" :> {"/api/v1/sessions"}
 @@ "auth_service.dart" :> {"post(", "/api/v1/auth", "user_id", "_tokenExpiresAt", "invalidate()"}
 @@ "score_calculator.dart" :> {"encryptionIntegrityPct", "packetLossPct",
                              "class SessionScoreCalculator", "static SessionScore compute",
                              "meanLatencyMs", "jitterMs", "0.4 *", "0.3 *", "0.2 *", "0.1 *"}
 @@ "webrtc_service.dart" :> {"import flutter_webrtc.dart", "RTCPeerConnection",
                            "createPeerConnection", "onIceCandidate", "candidate", "sdpMid",
                            "onTrack", "get onTrack"}
 @@ "vpn_service.dart" :> {"packetStream", "import flutter/services.dart", "VpnService._(",
                         "static VpnService get instance"}
 @@ "packet_parser.dart" :> {"class SampledPacket", "fromBytes", "toJson"}
 @@ "router.go" :> {"r.Post(/sessions/{id}/close", "r.Get(/webrtc/offer", "r.Get(/webrtc/answer"}
 @@ "sessions.go" :> {"summary_stats", "total_packets", "encrypted_packets", "packet_loss_pct",
                    "mean_latency_ms", "jitter_ms", "encryption_integrity_pct"}
 @@ "score_calculator_test.dart" :> {"test( four times"}

\* Files of which only the existence is checked, and those nothing is asked of.
Bare == {"launch_background.xml", "gradlew", "gradlew.bat", "gradle-wrapper.jar"}
        \union OtherScreens \union OtherState

MCTree == Filled @@ [f \in Bare |-> {}]

\* Tokens whose text occurs in the text of another one.
MCPart ==
    "output.write(buf" :> {"output.write"}
 @@ "packetsObserved.incrementAndGet() twice" :> {"packetsObserved.incrementAndGet()"}
 @@ "FALLBACK bindProcessToNetwork(activeNetwork)" :> {"bindProcessToNetwork"}
 @@ "passthroughCount.incrementAndGet" :> {"passthroughCount"}
 @@ "private val passthroughCount = AtomicLong(0)" :> {"passthroughCount"}
 @@ "override fun onStartCommand(...) {" :> {"onStartCommand"}
 @@ "isPrivateDnsActive=" :> {"isPrivateDnsActive"}
 @@ "builder.establish() after checkPrivateDnsAndBindToVpn()" :> {"checkPrivateDnsAndBindToVpn()"}
 @@ "passthroughCount.set(0)" :> {"passthroughCount"}
 @@ "more invokeMethod( than mainHandler.post {" :> {"mainHandler.post"}
 @@ "synchronized(ringLock) { ring.clear() } twice" :> {"synchronized("}
 @@ "startForeground( in onStartCommand" :> {"onStartCommand", "startForeground("}
 @@ "mainHandler.postDelayed" :> {"mainHandler.post"}
 @@ "bindProcessToNetwork(vpn) result=" :> {"bindProcessToNetwork"}
 @@ "awaitTermination" :> {"await"}
 @@ "-> ESTABLISHED" :> {"ESTABLISHED"}
 @@ "protect( after DatagramSocket" :> {"DatagramSocket"}
 @@ "disconnectVpn" :> {"vpn"}
 @@ "packetStream.listen" :> {"packetStream"}
 @@ "setState(() {" :> {"setState("}
 @@ "_vpnState = VpnLifecycleState.idle" :> {"vpn"}
 @@ "Timer.periodic( with a mock callback" :> {"Timer.periodic"}
 @@ "VpnService.instance" :> {"vpn"}
 @@ "Timer.periodic( and < 30" :> {"< 30", "Timer.periodic"}
 @@ "intent://send?text=" :> {"intent://send?"}
 @@ "closeSession" :> {"close"}
 @@ "/api/v1/sessions/" :> {"/api/v1/sessions"}
 @@ "get onTrack" :> {"onTrack"}
 @@ "packages.flutter.source: sdk" :> {"packages", "packages.flutter"}
 @@ "packages.flutter" :> {"packages"}
 @@ "plugins.android" :> {"plugins"}
 @@ "io.flutter:flutter_embedding_ktx:1.0.0-hash" :> {"io.flutter:flutter_embedding_ktx"}

MCReadable == DOMAIN MCTree \ {"git", "res", "gradlew", "gradlew.bat", "gradle-wrapper.jar",
                               "launch_background.xml"}

MCCommentable == MCReadable \ {".flutter-plugins-dependencies", "engine.version"}

MCSources == {Service, Activity, Netty, Screen, TaskScreen, Scores, Pool, Deeplink, Orchestrator,
              Telemetry, Matcher, AuthService, Calculator, Rtc, VpnDart, "packet_parser.dart",
              "score_calculator_test.dart", "router.go", "sessions.go"}
             \union OtherScreens \union OtherState

\* Looked at by S13 and S46, whose branches for a missing one are empty, and by the
\* XML parser of S9, for which a declared encoding that it knows is no fault.
MCUnchecked == {"no encoding but UTF-8 declared",
                "dependencyResolutionManagement {", "snapshot()",
                "download.flutter.io in dependencyResolutionManagement"}

\* The files that are parsed, so that none of their tokens may stand in a comment, but
\* for the one that S53 searches the text of pubspec.yaml for.
Parsed ==
    [f \in {Workflows[i] : i \in 1..4} \union {"pubspec.lock", "styles.xml", "res/xml"}
        |-> MCTree[f]]
 @@ "pubspec.yaml" :> MCTree["pubspec.yaml"] \ {"webrtc:"}

\* Asked for by a check whose code drops the comments, whatever its docstring says.
Stripping ==
    "app/build.gradle.kts" :> {"import java.util.Properties",
                             "import org.jetbrains.kotlin.gradle.dsl.JvmTarget",
                             "kotlin { compilerOptions { jvmTarget.set(JvmTarget.JVM_17)"}
 @@ "OpenE2eeVpnService.kt" :> {"TUN_MTU = 1400", "ipFragmentCount", "fragmentRatePct",
                              "addDnsServer(PRIMARY_DNS",
                              "synchronized(ringLock) { ring.clear() } twice",
                              "packetsObserved.set(0) three times",
                              "DNS: checkPrivateDnsAndBindToVpn: ENTRY", "isPrivateDnsActive=",
                              "ConnectivityManager.requestNetwork(TRANSPORT_VPN) start",
                              "NetworkCallback.onAvailable", "NetworkCallback.onUnavailable",
                              "bindProcessToNetwork(vpn) result=", "callbackFired",
                              "Handler(Looper.getMainLooper())", "postDelayed(",
                              "NetworkCallback TIMEOUT",
                              "FALLBACK bindProcessToNetwork(activeNetwork)",
                              "hasTransport(NetworkCapabilities.TRANSPORT_VPN)",
                              "Magisk DenyList", "removeCallbacks(fallbackRunnable)",
                              "TCP packet ENTRY", "parseTcpHeader dstPort=",
                              "handleTcpPacket dispatch", "var handled", "passthrough SKIPPED",
                              "if (handled)", "onPacketsSampled",
                              "OpenE2EE Sifreleme Dogrulama", "startForeground(",
                              "FOREGROUND_SERVICE_TYPE_SPECIAL_USE",
                              "createNotificationChannel", "onStartCommand",
                              "override fun onStartCommand(...) {",
                              "startForeground( in onStartCommand", "Log.d(TAG, five times",
                              "startCapture: SAMPLING started", "stopCapture: called",
                              "onRevoke:", "synchronized(", "stateLock",
                              "CAPTURED_ROUTE_ADDRESS", "CAPTURED_ROUTE_PREFIX",
                              ".addAddress(TUN_ADDRESS", "output.write(buf", "input.read(buf",
                              "import android.os.Handler", "import android.os.Looper",
                              "mainHandler.post", "packetsObserved.incrementAndGet()",
                              "the increment is in startReaderThread",
                              "extractMetadata before the increment"}
 @@ "MainActivity.kt" :> {"when (call.method)", "getSampledPackets", "MethodChannel(",
                        "opene2ee/vpn", "setMethodCallHandler", "OpenE2eeVpnService.dispatch"}
 @@ "NettyChannelClient.kt" :> {"fun handleTcpPacket(", "data class TcpConnection",
                              "enum class TcpState", "LISTEN", "SYN_SENT", "ESTABLISHED",
                              "FIN_WAIT_1", "FIN_WAIT_2", "CLOSE_WAIT", "LAST_ACK", "TIME_WAIT",
                              "CLOSED", "SYN, flow", "SYN+ACK received", "-> ESTABLISHED",
                              "ACK, flow", "fun handleUdpPacket(", "DatagramSocket",
                              "protect( after DatagramSocket", "new TcpConnection",
                              "primaryFlowKey", "reverseFlowKey", "sendHttpRequest:",
                              "recvHttpResponse:", "responsePayload:",
                              "bytes read from real socket",
                              "tcpConnectionMap.put primary flow", "late ACK",
                              "@Volatile eight times", "flowMap.clear()",
                              "tcpConnectionMap.clear()", "udpSocketMap.clear()",
                              "udpReaderFutures", "tunOutputStream = null",
                              "workerGroup.shutdownGracefully()", "await", "backgroundExecutor",
                              "readerFuture", "cancel(true)", "shutdownNow()",
                              "awaitTermination"}
 @@ "AndroidManifest.xml" :> {"valid xml", "<package android:name=com.whatsapp"}

MCCodeOnly == Stripping @@ Parsed @@ [f \in DOMAIN MCTree |-> {}]
=============================================================================
