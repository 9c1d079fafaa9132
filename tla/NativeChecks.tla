---------------------------- MODULE NativeChecks ----------------------------
(***************************************************************************)
(* The checks of tools/workflow-yaml-audit.py on the native Android side:  *)
(* OpenE2eeVpnService.kt, MainActivity.kt and NettyChannelClient.kt.       *)
(* A check is named here by the first of the labels it reports under.      *)
(***************************************************************************)
EXTENDS AuditedRepo

Service == "OpenE2eeVpnService.kt"
Activity == "MainActivity.kt"
Netty == "NettyChannelClient.kt"

check_vpn_service_mtu_and_fragment_log_v31 ==
    Guarded("S87", Service,
        Lacks("S87", Service, Stripped(Service),
            {{"TUN_MTU = 1400"}, {"ipFragmentCount"}, {"fragmentRatePct", "fragmentCount="},
             {"addDnsServer(PRIMARY_DNS", "addDnsServer(1.1.1.1", "addDnsServer(8.8.8.8"}})
        \union Bans("S87", Service, Stripped(Service), {"TUN_MTU = 1500"}))

check_notification_chronometer_autostop_v35 ==
    Guarded("S92", Service, Lacks("S92", Service, Raw(Service), Each(
        {"COUNTDOWN_TOTAL_MS", "setUsesChronometer(true)", "setWhen(",
         "scheduleCountdownAutoStop", "mainHandler.postDelayed", "stopCapture(graceful = true)",
         "countdownAutoStopRunnable"})))

check_vpn_service_passthrough_count_invariant_v36 ==
    Guarded("S93", Service, Lacks("S93", Service, Raw(Service), Each(
        {"private val passthroughCount = AtomicLong(0)", "passthroughCount.set(0)",
         "pfd.fileDescriptor.valid", "passthroughCount.incrementAndGet",
         "catch (e: IOException)", "catch (t: Throwable)", "passthroughCount", "passthroughGap"})))

check_manifest_change_network_state_v37 ==
    Guarded("S94", "AndroidManifest.xml",
        Lacks("S94", "AndroidManifest.xml", Raw("AndroidManifest.xml"), {{"CHANGE_NETWORK_STATE"}}))

\* The counts the check asks for: two clears of the ring and three resets of the counter.
check_stop_capture_ring_clear_invariant_v38 ==
    Guarded("S95", Service, Lacks("S95", Service, Stripped(Service), Each(
        {"synchronized(ringLock) { ring.clear() } twice", "packetsObserved.set(0) three times"})))

check_check_private_dns_bind_5_logd_invariant_v39 ==
    Guarded("S96", Service, Lacks("S96", Service, Stripped(Service), Each(
        {"DNS: checkPrivateDnsAndBindToVpn: ENTRY", "isPrivateDnsActive=",
         "ConnectivityManager.requestNetwork(TRANSPORT_VPN) start", "NetworkCallback.onAvailable",
         "NetworkCallback.onUnavailable", "bindProcessToNetwork(vpn) result="})))

check_check_private_dns_5s_fallback_invariant_v40 ==
    Guarded("S97", Service, Lacks("S97", Service, Stripped(Service), Each(
        {"callbackFired", "Handler(Looper.getMainLooper())", "postDelayed(",
         "NetworkCallback TIMEOUT", "FALLBACK bindProcessToNetwork(activeNetwork)",
         "hasTransport(NetworkCapabilities.TRANSPORT_VPN)", "Magisk DenyList",
         "removeCallbacks(fallbackRunnable)"})))

\* find starts at the call site, so a position before it is never compared.
check_check_private_dns_call_before_establish_invariant_v41 ==
    LET tokens == Lacks("S98", Service, Raw(Service), Each(
                      {"fallbackAttemptCount", "attempt 1/2", "lateinit var fallbackRunnable"}))
        order == FirstLack("S98", Service, Raw(Service),
                     <<{"checkPrivateDnsAndBindToVpn()"},
                       {"builder.establish() after checkPrivateDnsAndBindToVpn()"}>>)
    IN  Guarded("S98", Service, tokens \union order)

\* A file that cannot be read counts as an empty text here, on top of the read failure.
check_user_space_tcp_ip_stack_invariant_v42 ==
    LET Needs(f, T) == IF f \in garbled \ gone
                       THEN Guarded("S99", f, {}) \union Lacks("S99", f, {}, Each(T))
                       ELSE Guarded("S99", f, Lacks("S99", f, Raw(f), Each(T)))
    IN  Needs("app/build.gradle.kts", {"io.netty:netty-all"})
        \union Needs(Netty, {"VpnService.protect(", "class NettyChannelClient"})
        \union Needs(Service, {"user-space"})


check_tcp_state_machine_v43 ==
    Guarded("S100", Netty, Lacks("S100", Netty, Stripped(Netty),
        Each({"fun handleTcpPacket(", "data class TcpConnection", "enum class TcpState",
              "LISTEN", "SYN_SENT", "ESTABLISHED", "FIN_WAIT_1", "FIN_WAIT_2", "CLOSE_WAIT",
              "LAST_ACK", "TIME_WAIT", "CLOSED", "SYN, flow", "SYN+ACK received",
              "-> ESTABLISHED"})
        \union {{"ACK, flow", "ACK ->"}}))

\* The search for the protect call starts at the socket: without a socket there is none.
check_udp_forwarder_v44 ==
    Guarded("S103", Netty,
        Lacks("S103", Netty, Stripped(Netty), Each({"fun handleUdpPacket(", "DatagramSocket"}))
        \union (IF "DatagramSocket" \in Stripped(Netty)
                THEN Lacks("S103", Netty, Stripped(Netty), {{"protect( after DatagramSocket"}})
                ELSE {}))

check_tcp_5tuple_v45 ==
    LET vpn == Stripped(Service)
        netty == Stripped(Netty)
        dispatch == Lacks("S106", Service, vpn, Each(
                        {"TCP packet ENTRY", "parseTcpHeader dstPort=", "handleTcpPacket dispatch"}))
        created == Lacks("S106", Netty, netty, {{"new TcpConnection", "TcpConnection()"},
                                               {"-> SYN_SENT", "-> ESTABLISHED"}})
        handled == Lacks("S106", Service, vpn, {{"var handled", "val handled"}, {"passthrough SKIPPED"}})
        conditional == IF "output.write" \in vpn
                       THEN FirstLack("S106", Service, vpn, <<{"var handled", "val handled"},
                                                             {"if (handled)"}>>)
                       ELSE {}
        keys == Lacks("S106", Netty, netty, Each({"primaryFlowKey", "reverseFlowKey"}))
    IN  IF Netty \in gone THEN Missing("S106", Netty)
        ELSE IF Service \in gone THEN Missing("S106", Service)
        ELSE IF {Netty, Service} \intersect garbled # {} THEN {Finding("S106", Netty, {"read failed"})}
        ELSE dispatch \union AsOne("S106", Netty, created) \union handled \union conditional
             \union keys

\* Eight @Volatile annotations, one per field that two threads share.
check_tcp_dataflow_v46 ==
    Guarded("S109", Netty, Lacks("S109", Netty, Stripped(Netty), Each(
        {"sendHttpRequest:", "recvHttpResponse:", "responsePayload:",
         "bytes read from real socket", "tcpConnectionMap.put primary flow", "late ACK",
         "@Volatile eight times"})))

check_teardown_comprehensive_v48 ==
    LET text == Stripped(Netty)
        alone == {"flowMap.clear()", "tcpConnectionMap.clear()", "udpSocketMap.clear()",
                  "udpReaderFutures", "tunOutputStream = null",
                  "workerGroup.shutdownGracefully()", "await", "backgroundExecutor"}
        pairs == {{"readerFuture", "cancel(true)"}, {"shutdownNow()", "awaitTermination"}}
    IN  Guarded("S115", Netty,
            Lacks("S115", Netty, text, Each(alone))
            \union UNION {AsOne("S115", Netty, Lacks("S115", Netty, text, Each(p))) : p \in pairs})

\* The first file that holds both the dispatch and the literal settles it.
check_main_activity_get_sampled_packets_v13 ==
    LET present == {f \in {Activity, Service} : f \notin gone}
        readable == {f \in present : f \notin garbled}
        dispatching == {f \in readable : "when (call.method)" \in Stripped(f)}
        literal == {f \in dispatching : "getSampledPackets" \in Stripped(f)}
        unread == {Finding("S43", f, {"read failed"}) :
                      f \in IF Activity \in literal THEN {} ELSE present \ readable}
        half == {Finding("S43", f, {"getSampledPackets"}) : f \in dispatching}
    IN  IF literal # {} THEN unread
        ELSE IF unread \union half # {} THEN unread \union half
        ELSE {Finding("S43", Activity, {"when (call.method)", "getSampledPackets"})}

check_vpn_service_on_packets_sampled_literal_v15 ==
    Guarded("S45", Service, Lacks("S45", Service, Stripped(Service), {{"onPacketsSampled"}}))

\* A missing snapshot call is no finding: the branch for it is empty.
check_main_activity_snapshot_call_v15 ==
    Guarded("S46", Activity, Bans("S46", Activity, Stripped(Activity), {"a mock packet map"}))

check_vpn_service_foreground_notification_text_v15 ==
    Guarded("S50", Service,
        Lacks("S50", Service, Stripped(Service), {{"OpenE2EE Sifreleme Dogrulama"}}))

\* The channel name may stand as the service's constant or as a literal.
check_main_activity_owns_vpn_channel_v18 ==
    Guarded("S73", Activity, Lacks("S73", Activity, Stripped(Activity),
        {{"MethodChannel("}, {"OpenE2eeVpnService.METHOD_CHANNEL", "opene2ee/vpn"},
         {"setMethodCallHandler"}, {"OpenE2eeVpnService.dispatch"}}))

\* The last requirement is asked of the body of onStartCommand, once its braces are found.
check_vpn_service_startforeground_within_5s_v19 ==
    Guarded("S74", Service,
        Lacks("S74", Service, Stripped(Service),
            {{"startForeground("}, {"FOREGROUND_SERVICE_TYPE_SPECIAL_USE"},
             {"createNotificationChannel", "ensureNotificationChannel"}, {"onStartCommand"}})
        \union FirstLack("S74", Service, Stripped(Service),
            <<{"override fun onStartCommand(...) {"},
              {"startForeground( in onStartCommand", "ensureForegroundService in onStartCommand",
               "startForegroundCompat in onStartCommand"}>>))

check_vpn_service_log_d_breadcrumbs_v20 ==
    Guarded("S75", Service, Lacks("S75", Service, Stripped(Service), {{"Log.d(TAG, five times"}}))

check_vpn_service_state_transition_breadcrumbs_v22 ==
    LET text == Stripped(Service)
        logs == Lacks("S78", Service, text, Each(
                    {"startCapture: SAMPLING started", "stopCapture: called", "onRevoke:"}))
        lock == Lacks("S78", Service, text, Each({"synchronized(", "stateLock"}))
    IN  Guarded("S78", Service, logs \union AsOne("S78", Service, lock))

check_vpn_service_addroute_bad_address_v23 ==
    LET text == Stripped(Service)
        captured == {"CAPTURED_ROUTE_ADDRESS", "CAPTURED_ROUTE_PREFIX"}
        routed == captured \subseteq text \/ "addRoute(0.0.0.0, 0)" \in text
    IN  Guarded("S79", Service,
            Lacks("S79", Service, text, {{".addAddress(TUN_ADDRESS"}})
            \union (IF routed THEN {} ELSE {Finding("S79", Service, captured)})
            \union Bans("S79", Service, text, {".addRoute(TUN_ADDRESS"}))

check_vpn_service_tun_passthrough_v24 ==
    Guarded("S80", Service,
        Lacks("S80", Service, Stripped(Service),
            {{"output.write(buf", "tunOutput.write(", "tun.write("},
             {"input.read(buf", "tunInput.read(", "tun.read("}})
        \union Bans("S80", Service, Stripped(Service), {"protect(Socket())"}))

\* Calls of invokeMethod are only counted against the posts, never matched to them.
check_vpn_service_ui_thread_push_v26 ==
    Guarded("S82", Service,
        Lacks("S82", Service, Stripped(Service), Each(
            {"import android.os.Handler", "import android.os.Looper",
             "Handler(Looper.getMainLooper())", "mainHandler.post"}))
        \union Bans("S82", Service, Stripped(Service),
            {"more invokeMethod( than mainHandler.post {"}))

\* A check of the increment that does not mind a second one.
IncrementAnyTimes ==
    LET text == Stripped(Service)
    IN  Guarded("S84", Service,
            FirstLack("S84", Service, text,
                <<{"packetsObserved.incrementAndGet()"}, {"the increment is in startReaderThread"},
                  {"extractMetadata before the increment"}>>)
            \union Bans("S84", Service, text,
                {"packetsObserved.set( outside startCapture and stopCapture",
                 "packetsObserved.set(packetsObserved.get() + 1"}))

\* Exactly one increment, in the reader thread and after the metadata was extracted.
check_vpn_service_packets_observed_increment_invariant_v27 ==
    LET text == Stripped(Service)
        increment == IF "packetsObserved.incrementAndGet() twice" \in text
                     THEN Bans("S84", Service, text, {"packetsObserved.incrementAndGet() twice"})
                     ELSE FirstLack("S84", Service, text,
                              <<{"packetsObserved.incrementAndGet()"},
                                {"the increment is in startReaderThread"},
                                {"extractMetadata before the increment"}>>)
    IN  Guarded("S84", Service, increment \union Bans("S84", Service, text,
            {"packetsObserved.set( outside startCapture and stopCapture",
             "packetsObserved.set(packetsObserved.get() + 1"}))
=============================================================================
