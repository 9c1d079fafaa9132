------------------------ MODULE WorkflowFindings_proofs ------------------------
(***************************************************************************)
(* Proofs about what a run of the audit reports: its findings are true of  *)
(* the repository, and none of what the checks forbid escapes it.          *)
(***************************************************************************)
EXTENDS WorkflowAudit_proofs

-----------------------------------------------------------------------------
\* Findings that are true.

\* The tokens that some check forbids, and the words for a file that was not read.
Offences ==
    {"setInterval(", "Future.delayed(", "Timer.periodic( with a mock callback",
     "paketSayisi: 247", "gonulluSayisi: 3", "testEdilenler: {rcs, whatsapp}", "file missing",
     "read failed", "workflow_dispatch: inputs",
     "kotlinOptions { jvmTarget = 17", "java.util.Properties()", "-- inside a comment",
     "manifest package=", "tools:remove usesCleartextTraffic", "vpn",
     "if (_orchestrator.sessionId == null) { return", "Timer.periodic( and < 30",
     "/api/v1/matches", "TUN_MTU = 1500", ".addRoute(TUN_ADDRESS", "protect(Socket())",
     "more invokeMethod( than mainHandler.post {", "packetsObserved.incrementAndGet() twice",
     "packetsObserved.set( outside startCapture and stopCapture",
     "packetsObserved.set(packetsObserved.get() + 1", "a mock packet map", "VpnService()"}

\* Tokens that a check can miss.
Clean(T) == T # {} /\ T \intersect Offences = {}

\* The findings the property is about are true.
Upheld(r)  == r.check \notin CommentBans \union {"exception"} /\ r.file \in Files => IsTrue(r)
Sound(F) == \A r \in F : Upheld(r)

\* What is forbidden is an offence.
LEMMA BannedAreOffences == \A f : Banned(f) \subseteq Offences
<1>1. MockTokens \subseteq Offences  BY DEF Offences, MockTokens, MockTimer
<1>2. /\ {"vpn", "if (_orchestrator.sessionId == null) { return", "Timer.periodic( and < 30",
          "workflow_dispatch: inputs"} \subseteq Offences
      /\ {"kotlinOptions { jvmTarget = 17", "java.util.Properties()", "-- inside a comment",
          "manifest package=", "tools:remove usesCleartextTraffic"} \subseteq Offences
      /\ {"/api/v1/matches", "a mock packet map", "VpnService()"} \subseteq Offences
    BY DEF Offences
<1>3. {"TUN_MTU = 1500", ".addRoute(TUN_ADDRESS", "protect(Socket())",
       "more invokeMethod( than mainHandler.post {",
       "packetsObserved.incrementAndGet() twice",
       "packetsObserved.set( outside startCapture and stopCapture",
       "packetsObserved.set(packetsObserved.get() + 1"} \subseteq Offences
    BY DEF Offences
<1>4. ASSUME NEW f, NEW t \in Banned(f) PROVE t \in Offences
    BY <1>1, <1>2, <1>3 DEF Banned
<1>5. QED  BY <1>4

\* What stands in the code stands in the text.
LEMMA RawHoldsCode == \A f : Stripped(f) \subseteq Raw(f)
BY DEF Raw, Stripped, Holding

\* A finding is true when the file lacks one of the tokens it names.
LEMMA LackIsTrue ==
    ASSUME NEW id, NEW f, NEW about, about \intersect Offences = {},
           \E t \in about : t \notin Stripped(f)
    PROVE  Upheld(Finding(id, f, about))
<1>1. PICK t \in about : t \notin Stripped(f)  OBVIOUS
<1>2. t \notin Offences /\ t \notin Banned(f)  BY BannedAreOffences
<1>3. "file missing" \notin about /\ "read failed" \notin about  BY DEF Offences
<1>4. QED  BY <1>1, <1>2, <1>3 DEF Upheld, IsTrue, Finding

\* ... or holds one that is forbidden.
LEMMA BanIsTrue ==
    ASSUME NEW id, NEW f, NEW t \in Banned(f), t \in Stripped(f)
    PROVE  Upheld(Finding(id, f, {t}))
<1>1. t # "file missing" /\ t # "read failed"  BY DEF Banned, MockTokens, MockTimer
<1>2. QED  BY <1>1 DEF Upheld, IsTrue, Finding

\* ... or cannot be read, or names something that cannot.
LEMMA IllegibleIsTrue ==
    ASSUME NEW id, NEW f, NEW about, about \intersect Offences = {},
           ({f} \union about) \intersect (gone \union garbled) # {}
    PROVE  Upheld(Finding(id, f, about))
<1>1. "file missing" \notin about /\ "read failed" \notin about  BY DEF Offences
<1>2. PICK r : r = Finding(id, f, about)  OBVIOUS
<1>3. r.about = about /\ r.file = f  BY <1>2 DEF Finding
<1>4. IsTrue(r)  BY <1>1, <1>3 DEF IsTrue
<1>5. QED  BY <1>2, <1>4 DEF Upheld

\* A file that is said to be missing, or unread.
LEMMA UnreadIsTrue ==
    ASSUME NEW id, NEW f
    PROVE  /\ f \in gone => Sound(Missing(id, f))
           /\ garbled # {} => Upheld(Finding(id, f, {"read failed"}))
BY DEF Sound, Upheld, IsTrue, Finding, Missing

\* What ends a run with a traceback is no finding.
LEMMA AbortSound == Sound({Abort})
<1>1. Abort.check = "exception"  BY DEF Abort, Finding
<1>2. QED  BY <1>1 DEF Sound, Upheld

\* No finding is true, and so are two sets of true findings.
LEMMA UnionSound ==
    /\ Sound({})
    /\ \A F, G : Sound(F) /\ Sound(G) => Sound(F \union G)
BY DEF Sound

\* One true finding.
LEMMA OneSound == \A r : Upheld(r) => Sound({r})
BY DEF Sound

\* What the text of a file lacks.
LEMMA LacksSound ==
    ASSUME NEW id, NEW f, NEW text \in {Raw(f), Stripped(f)}, NEW groups,
           \A g \in groups : Clean(g)
    PROVE  Sound(Lacks(id, f, text, groups))
<1>1. ASSUME NEW r \in Lacks(id, f, text, groups) PROVE Upheld(r)
    <2>1. PICK g \in groups : r = Finding(id, f, g) /\ g \intersect text = {}  BY DEF Lacks
    <2>2. g # {} /\ g \intersect Offences = {}  BY DEF Clean
    <2>3. Stripped(f) \subseteq text  BY RawHoldsCode
    <2>4. QED  BY <2>1, <2>2, <2>3, LackIsTrue
<1>2. QED  BY <1>1 DEF Sound

\* ... of a set of tokens.
LEMMA LacksEachSound ==
    ASSUME NEW id, NEW f, NEW text \in {Raw(f), Stripped(f)}, NEW T, T \intersect Offences = {}
    PROVE  Sound(Lacks(id, f, text, Each(T)))
<1>1. \A g \in Each(T) : Clean(g)  BY DEF Each, Clean
<1>2. QED  BY <1>1, LacksSound

\* What stands in the code and is forbidden.
LEMMA BansSound ==
    ASSUME NEW id, NEW f, NEW T, T \subseteq Banned(f)
    PROVE  Sound(Bans(id, f, Stripped(f), T))
<1>1. ASSUME NEW r \in Bans(id, f, Stripped(f), T) PROVE Upheld(r)
    <2>1. PICK t \in T \intersect Stripped(f) : r = Finding(id, f, {t})  BY DEF Bans
    <2>2. QED  BY <2>1, BanIsTrue
<1>2. QED  BY <1>1 DEF Sound

\* The first requirement of a series that the text fails.
LEMMA FirstLackSound ==
    ASSUME NEW id, NEW f, NEW text \in {Raw(f), Stripped(f)}, NEW groups,
           DOMAIN groups \subseteq 1..5, \A i \in DOMAIN groups : Clean(groups[i])
    PROVE  Sound(FirstLack(id, f, text, groups))
<1> DEFINE failed == {i \in DOMAIN groups : groups[i] \intersect text = {}}
<1>1. CASE failed = {}
    <2>1. FirstLack(id, f, text, groups) = {}  BY <1>1 DEF FirstLack
    <2>2. QED  BY <2>1, UnionSound
<1>2. CASE failed # {}
    <2>1. FirstLack(id, f, text, groups) = {Finding(id, f, groups[Min(failed)])}
        BY <1>2 DEF FirstLack
    <2>2. failed \in SUBSET (1..5)  OBVIOUS
    <2>3. Min(failed) \in failed  BY <1>2, <2>2, LeastExists
    <2>4. PICK g : g = groups[Min(failed)]  OBVIOUS
    <2>5. g # {} /\ g \intersect Offences = {} /\ g \intersect text = {}
        BY <2>3, <2>4 DEF Clean
    <2>6. Stripped(f) \subseteq text  BY RawHoldsCode
    <2>7. Upheld(Finding(id, f, g))  BY <2>5, <2>6, LackIsTrue
    <2>8. QED  BY <2>1, <2>4, <2>7, OneSound
<1>3. QED  BY <1>1, <1>2

\* A series of one requirement.
LEMMA SoundSeriesOfOne ==
    ASSUME NEW id, NEW f, NEW text \in {Raw(f), Stripped(f)},
           NEW A, Clean(A)
    PROVE  Sound(FirstLack(id, f, text, <<A>>))
<1> DEFINE groups == <<A>>
<1>1. DOMAIN groups \subseteq 1..5 /\ \A i \in DOMAIN groups : Clean(groups[i])
    OBVIOUS
<1>2. QED  BY <1>1, FirstLackSound

\* A series of two requirements.
LEMMA SoundSeriesOfTwo ==
    ASSUME NEW id, NEW f, NEW text \in {Raw(f), Stripped(f)},
           NEW A, Clean(A), NEW B, Clean(B)
    PROVE  Sound(FirstLack(id, f, text, <<A, B>>))
<1> DEFINE groups == <<A, B>>
<1>1. DOMAIN groups \subseteq 1..5 /\ \A i \in DOMAIN groups : Clean(groups[i])
    OBVIOUS
<1>2. QED  BY <1>1, FirstLackSound

\* A series of three requirements.
LEMMA SoundSeriesOfThree ==
    ASSUME NEW id, NEW f, NEW text \in {Raw(f), Stripped(f)},
           NEW A, Clean(A), NEW B, Clean(B), NEW C, Clean(C)
    PROVE  Sound(FirstLack(id, f, text, <<A, B, C>>))
<1> DEFINE groups == <<A, B, C>>
<1>1. DOMAIN groups \subseteq 1..5 /\ \A i \in DOMAIN groups : Clean(groups[i])
    OBVIOUS
<1>2. QED  BY <1>1, FirstLackSound

\* A series of four requirements.
LEMMA SoundSeriesOfFour ==
    ASSUME NEW id, NEW f, NEW text \in {Raw(f), Stripped(f)},
           NEW A, Clean(A), NEW B, Clean(B), NEW C, Clean(C), NEW D, Clean(D)
    PROVE  Sound(FirstLack(id, f, text, <<A, B, C, D>>))
<1> DEFINE groups == <<A, B, C, D>>
<1>1. DOMAIN groups \subseteq 1..5 /\ \A i \in DOMAIN groups : Clean(groups[i])
    OBVIOUS
<1>2. QED  BY <1>1, FirstLackSound

\* A series of five requirements.
LEMMA SoundSeriesOfFive ==
    ASSUME NEW id, NEW f, NEW text \in {Raw(f), Stripped(f)},
           NEW A, Clean(A), NEW B, Clean(B), NEW C, Clean(C), NEW D, Clean(D), NEW E, Clean(E)
    PROVE  Sound(FirstLack(id, f, text, <<A, B, C, D, E>>))
<1> DEFINE groups == <<A, B, C, D, E>>
<1>1. DOMAIN groups \subseteq 1..5 /\ \A i \in DOMAIN groups : Clean(groups[i])
    OBVIOUS
<1>2. QED  BY <1>1, FirstLackSound

\* What a text lacks, reported as one.
LEMMA AsOneSound ==
    ASSUME NEW id, NEW f, NEW text \in {Raw(f), Stripped(f)}, NEW groups,
           \A g \in groups : Clean(g)
    PROVE  Sound(AsOne(id, f, Lacks(id, f, text, groups)))
<1> DEFINE F == Lacks(id, f, text, groups)
           all == UNION {r.about : r \in F}
<1>1. CASE F = {}  BY <1>1, UnionSound DEF AsOne
<1>2. CASE F # {}
    <2>1. \A r \in F : Clean(r.about) /\ r.about \intersect text = {}
        BY DEF Lacks, Finding
    <2>2. PICK r \in F : r.about # {}  BY <1>2, <2>1 DEF Clean
    <2>3. PICK t \in r.about : t \in all  BY <2>2
    <2>4. t \notin Stripped(f)  BY <2>1, <2>3, RawHoldsCode
    <2>5. all \intersect Offences = {}  BY <2>1 DEF Clean
    <2>6. AsOne(id, f, F) = {Finding(id, f, all)}  BY <1>2 DEF AsOne
    <2> HIDE DEF all
    <2>7. Upheld(Finding(id, f, all))  BY <2>3, <2>4, <2>5, LackIsTrue
    <2>8. QED  BY <2>6, <2>7, OneSound
<1>3. QED  BY <1>1, <1>2

\* ... of a set of tokens.
LEMMA AsOneEachSound ==
    ASSUME NEW id, NEW f, NEW text \in {Raw(f), Stripped(f)}, NEW T, T \intersect Offences = {}
    PROVE  Sound(AsOne(id, f, Lacks(id, f, text, Each(T))))
<1>1. \A g \in Each(T) : Clean(g)  BY DEF Each, Clean
<1>2. QED  BY <1>1, AsOneSound

\* A check that catches every error of reading its file, and one that does not.
LEMMA GuardSound ==
    ASSUME NEW id, NEW f, NEW F, Sound(F)
    PROVE  Sound(Guarded(id, f, F)) /\ Sound(Unguarded(id, f, F))
BY UnreadIsTrue, OneSound, AbortSound DEF Guarded, Unguarded

\* The raw text of a file searched for groups of alternatives.
LEMMA RequiresSound ==
    ASSUME NEW id, NEW f, NEW groups, \A g \in groups : Clean(g)
    PROVE  Sound(Requires(id, f, groups)) /\ Sound(RequiresAll(id, f, groups))
BY GuardSound, LacksSound, AsOneSound DEF Requires, RequiresAll

\* ... and for a set of tokens.
LEMMA RequiresEachSound ==
    ASSUME NEW id, NEW f, NEW T, T \intersect Offences = {}
    PROVE  Sound(Requires(id, f, Each(T))) /\ Sound(RequiresAll(id, f, Each(T)))
BY GuardSound, LacksEachSound, AsOneEachSound DEF Requires, RequiresAll

\* A token that one of two files has to hold is missed in no file by name.
LEMMA RequiresInSound ==
    ASSUME NEW id, NEW files, NEW token
    PROVE  Sound(RequiresIn(id, files, token))
<1>1. "services" \notin Files
    BY AuditAssumption DEF Decoded, Undecoded, Sought, Screens, State, OtherScreens, OtherState,
       Workflows, Screen, TaskScreen, Scores, Service, Activity, Netty, Pool, Deeplink,
       Orchestrator, Telemetry, Matcher, AuthService, Calculator, Rtc, VpnDart
<1>2. Upheld(Finding(id, "services", {token}))  BY <1>1 DEF Upheld, Finding
<1>3. QED  BY <1>2, OneSound, UnionSound DEF RequiresIn

\* What is forbidden in which file.
LEMMA BannedTable ==
    /\ \A i \in 2..4 : Banned(Workflows[i]) = {"workflow_dispatch: inputs"}
    /\ Banned("app/build.gradle.kts") =
           {"kotlinOptions { jvmTarget = 17", "java.util.Properties()"}
    /\ Banned("res/xml") = {"-- inside a comment"}
    /\ Banned("AndroidManifest.xml") = {"manifest package=", "tools:remove usesCleartextTraffic"}
    /\ \A f \in {"main.dart", TaskScreen, Scores} \union OtherScreens : Banned(f) = {"vpn"}
    /\ Banned(Screen) = MockTokens \union
           {"vpn", "if (_orchestrator.sessionId == null) { return", "Timer.periodic( and < 30"}
    /\ \A f \in State : Banned(f) = MockTokens
    /\ Banned(Matcher) = {"/api/v1/matches"}
    /\ Banned(Service) =
           {"TUN_MTU = 1500", ".addRoute(TUN_ADDRESS", "protect(Socket())",
            "more invokeMethod( than mainHandler.post {",
            "packetsObserved.incrementAndGet() twice",
            "packetsObserved.set( outside startCapture and stopCapture",
            "packetsObserved.set(packetsObserved.get() + 1"}
    /\ Banned(Activity) = {"a mock packet map"}
    /\ Banned(VpnDart) = {"VpnService()"}
<1>1. \A i \in 2..4 : Banned(Workflows[i]) = {"workflow_dispatch: inputs"}
    <2>1. \A i \in 2..4 : Workflows[i] \in {"ci.yml", "ios.yml", "android-release.yml"}
        BY DEF Workflows
    <2>2. \A f \in {"ci.yml", "ios.yml", "android-release.yml"} :
              Banned(f) = {"workflow_dispatch: inputs"}
        BY DEF Banned, OtherScreens, State, OtherState, Screen, TaskScreen, Scores, Pool,
           Deeplink, Matcher, Service, Activity, VpnDart
    <2>3. QED  BY <2>1, <2>2
<1>2. /\ Banned("app/build.gradle.kts") =
             {"kotlinOptions { jvmTarget = 17", "java.util.Properties()"}
      /\ Banned("res/xml") = {"-- inside a comment"}
      /\ Banned("AndroidManifest.xml") =
             {"manifest package=", "tools:remove usesCleartextTraffic"}
    BY DEF Banned, OtherScreens, State, OtherState, Screen, TaskScreen, Scores, Pool,
       Deeplink, Matcher, Service, Activity, VpnDart
<1>3. /\ \A f \in {"main.dart", TaskScreen, Scores} \union OtherScreens : Banned(f) = {"vpn"}
      /\ Banned(Screen) = MockTokens \union
             {"vpn", "if (_orchestrator.sessionId == null) { return", "Timer.periodic( and < 30"}
      /\ \A f \in State : Banned(f) = MockTokens
      /\ Banned(Matcher) = {"/api/v1/matches"}
    BY DEF Banned, OtherScreens, State, OtherState, Screen, TaskScreen, Scores, Pool,
       Deeplink, Matcher, Service, Activity, VpnDart
<1>4. /\ Banned(Service) =
             {"TUN_MTU = 1500", ".addRoute(TUN_ADDRESS", "protect(Socket())",
              "more invokeMethod( than mainHandler.post {",
              "packetsObserved.incrementAndGet() twice",
              "packetsObserved.set( outside startCapture and stopCapture",
              "packetsObserved.set(packetsObserved.get() + 1"}
      /\ Banned(Activity) = {"a mock packet map"}
      /\ Banned(VpnDart) = {"VpnService()"}
    BY DEF Banned, OtherScreens, State, OtherState, Screen, TaskScreen, Scores, Pool,
       Deeplink, Matcher, Service, Activity, VpnDart
<1>5. QED  BY <1>1, <1>2, <1>3, <1>4

\* Of what the checks find that search comments for something forbidden the
\* property says nothing.
LEMMA CommentBansSound ==
    ASSUME NEW id \in CommentBans, NEW f
    PROVE  /\ \A about : Upheld(Finding(id, f, about))
           /\ \A text, T : Sound(Bans(id, f, text, T))
<1>1. \A about : Upheld(Finding(id, f, about))  BY DEF Upheld, Finding
<1>2. \A text, T : \A r \in Bans(id, f, text, T) : \E t : r = Finding(id, f, {t})
    BY DEF Bans
<1>3. ASSUME NEW text, NEW T, NEW r \in Bans(id, f, text, T) PROVE Upheld(r)
    <2>1. PICK t : r = Finding(id, f, {t})  BY <1>2
    <2>2. QED  BY <1>1, <2>1
<1>4. QED  BY <1>1, <1>3 DEF Sound

\* A finding about tokens of which the file lacks one.
LEMMA OneLackSound ==
    ASSUME NEW id, NEW f, NEW about, about \intersect Offences = {}
    PROVE  \A t \in about : t \notin Stripped(f) \/ t \notin Raw(f)
               => Sound({Finding(id, f, about)})
BY LackIsTrue, RawHoldsCode, OneSound

\* A path that git does not track, or tracks though it is not there.
LEMMA UntrackedSound ==
    ASSUME Tables, NEW id, NEW p, p \notin Offences, ~_git_ls_files_tracked(p) \/ p \in gone
    PROVE  Upheld(Finding(id, "git", {p}))
<1>1. CASE "git" \notin Files  BY <1>1 DEF Upheld, Finding
<1>2. CASE "git" \in gone \/ p \in gone  BY <1>2, IllegibleIsTrue
<1>3. CASE "git" \in Files /\ "git" \notin gone /\ p \notin gone
    <2>1. p \notin code["git"]  BY <1>3 DEF _git_ls_files_tracked
    <2>2. Banned("git") = {}
        BY DEF Banned, OtherScreens, State, OtherState, Screen, TaskScreen, Scores, Pool,
           Deeplink, Matcher, Service, Activity, VpnDart
    <2>3. code["git"] \subseteq Tree["git"]  BY <1>3, <2>2 DEF Tables
    <2>4. code["git"] \intersect DOMAIN Part = {}  BY <1>3, <2>3, PartAssumption
    <2>5. Stripped("git") = code["git"]  BY <2>4 DEF Stripped, Holding
    <2>6. QED  BY <2>1, <2>5, LackIsTrue
<1>4. QED  BY <1>1, <1>2, <1>3

\* A pattern that .gitignore does not hold.
LEMMA PatternSound ==
    ASSUME NEW id, NEW patterns, patterns \intersect Offences = {},
           NEW p \in MissingPatterns(patterns)
    PROVE  Upheld(Finding(id, ".gitignore", {p}))
<1>1. CASE ".gitignore" \in gone  BY <1>1, IllegibleIsTrue DEF MissingPatterns
<1>2. CASE ".gitignore" \notin gone
    <2>1. p \in patterns \ Raw(".gitignore")  BY <1>2 DEF MissingPatterns
    <2>2. QED  BY <2>1, RawHoldsCode, LackIsTrue
<1>3. QED  BY <1>1, <1>2

\* The documents of a workflow.
LEMMA ParsedSound ==
    ASSUME NEW id, NEW f, NEW F, Sound(F)
    PROVE  Sound(ParsedWorkflow(id, f, F))
<1>1. "one document" \notin Stripped(f) => Sound({Finding(id, f, {"one document"})})
    BY OneLackSound DEF Offences
<1>2. QED  BY <1>1, AbortSound DEF ParsedWorkflow

\* The steps of android-debug.yml.
LEMMA DebugStepsSound == \A f : Sound(DebugSteps(f))
<1> SUFFICES ASSUME NEW f PROVE Sound(DebugSteps(f))  OBVIOUS
<1>1. PICK T : /\ DebugSteps(f) \in {{Abort}, {}, Lacks("workflow", f, Stripped(f), Each(T))}
               /\ T \intersect Offences = {}
    <2> DEFINE T == {"uses: subosito/flutter-action", "with: flutter-version",
                     "Generate local.properties from which flutter",
                     "Verify Flutter SDK path flutter_tools/gradle"}
    <2>1. DebugSteps(f) \in {{Abort}, {}, Lacks("workflow", f, Stripped(f), Each(T))}
        BY DEF DebugSteps
    <2>2. T \intersect Offences = {}  BY DEF Offences
    <2> HIDE DEF T
    <2>3. QED  BY <2>1, <2>2
<1>2. Sound(Lacks("workflow", f, Stripped(f), Each(T)))  BY <1>1, LacksEachSound
<1>3. QED  BY <1>1, <1>2, AbortSound, UnionSound

\* What a loader makes of a file.
LEMMA LoadedSound ==
    ASSUME NEW f, NEW syntax, NEW F, Sound(F)
    PROVE  Sound(Loaded(f, syntax, F))
BY AbortSound DEF Loaded

\* Every check on the build returns findings that are true.
LEMMA BuildIsSound ==
    ASSUME Tables
    PROVE
    /\ \A i \in 1..4 : Sound(audit_workflow(Workflows[i]))
    /\ Sound(check_gradle_wrapper_version)
    /\ Sound(check_agp_version)
    /\ Sound(check_kotlin_version)
    /\ Sound(check_app_build_gradle_syntax_v2)
    /\ Sound(check_android_debug_workflow_v3)
    /\ Sound(check_mobile_entry_point_v4)
    /\ Sound(check_android_xml_comments_v5)
    /\ Sound(check_android_manifest_v6)
    /\ Sound(check_android_res_skeleton_v7)
    /\ Sound(check_flutter_plugins_dependencies_v8)
    /\ Sound(check_flutter_kotlin_embedding_v9)
    /\ Sound(check_flutter_storage_repo_v10)
    /\ Sound(check_gradle_wrapper_force_include)
    /\ Sound(check_fresh_flutter_create_preserved)
    /\ Sound(check_fresh_create_metadata_tracked)
    /\ Sound(check_pubspec_baseline_shape)
<1>1. \A i \in 1..4 : Sound(audit_workflow(Workflows[i]))
    <2> SUFFICES ASSUME NEW i \in 1..4 PROVE Sound(audit_workflow(Workflows[i]))  OBVIOUS
    <2>1. PICK f : f = Workflows[i]  OBVIOUS
    <2> DEFINE shape == FirstLack("workflow", f, Stripped(f), <<{"on:"}, {"on: is a mapping"}>>)
               triggers == Lacks("workflow", f, Stripped(f),
                                 {{"on: workflow_dispatch and no other"}})
               body == IF f = "android-debug.yml" THEN DebugSteps(f)
                       ELSE Bans("workflow", f, Stripped(f), {"workflow_dispatch: inputs"})
               found == IF shape # {} THEN shape
                        ELSE IF "comparable triggers" \notin Stripped(f) THEN {Abort}
                        ELSE triggers \union body
    <2>2. Sound(shape)  BY SoundSeriesOfTwo DEF Clean, Offences
    <2>3. Sound(triggers)  BY LacksSound DEF Clean, Offences
    <2>4. Sound(DebugSteps(f))  BY DebugStepsSound
    <2>5. f # "android-debug.yml" => i \in 2..4  BY <2>1 DEF Workflows
    <2>6. f # "android-debug.yml"
              => Sound(Bans("workflow", f, Stripped(f), {"workflow_dispatch: inputs"}))
        BY <2>1, <2>5, BannedTable, BansSound
    <2>7. Sound(triggers \union body)  BY <2>3, <2>4, <2>6, UnionSound
    <2>8. Sound(found)  BY <2>2, <2>7, AbortSound
    <2>9. audit_workflow(f) = IF f \in gone THEN Missing("workflow", f)
              ELSE ParsedWorkflow("workflow", f, found)
        BY DEF audit_workflow
    <2> HIDE DEF found
    <2>10. QED  BY <2>1, <2>8, <2>9, ParsedSound, UnreadIsTrue
<1>2. Sound(check_gradle_wrapper_version)
    BY GuardSound, SoundSeriesOfTwo DEF check_gradle_wrapper_version, Clean, Offences
<1>3. Sound(check_agp_version)
    BY GuardSound, SoundSeriesOfTwo DEF check_agp_version, Clean, Offences
<1>4. Sound(check_kotlin_version)
    BY GuardSound, SoundSeriesOfTwo DEF check_kotlin_version, Clean, Offences
<1>5. Sound(check_app_build_gradle_syntax_v2)
    <2>1. Sound(Bans("syntax", "app/build.gradle.kts", Stripped("app/build.gradle.kts"),
               {"kotlinOptions { jvmTarget = 17", "java.util.Properties()"}))
        BY BansSound, BannedTable
    <2>2. QED
        BY <2>1, GuardSound, LacksEachSound, UnionSound
        DEF check_app_build_gradle_syntax_v2, Offences
<1>6. Sound(check_android_debug_workflow_v3)
    <2> DEFINE f == "android-debug.yml"
               install == "Install Flutter dependencies: flutter pub get"
               series == FirstLack("S6", f, Stripped(f),
                                   <<{install}, {"working-directory: ./mobile"}>>)
               walk == IF install \notin Stripped(f) /\ "a job" \in Stripped(f)
                          /\ "steps to walk" \notin Stripped(f)
                       THEN {Abort} ELSE series
               found == IF "jobs is a mapping" \notin Stripped(f) THEN {Abort} ELSE walk
    <2>1. Sound(series)  BY SoundSeriesOfTwo DEF Clean, Offences
    <2>2. Sound(found)  BY <2>1, AbortSound
    <2>3. check_android_debug_workflow_v3 =
              IF f \in gone THEN Missing("S6", f) ELSE ParsedWorkflow("S6", f, found)
        BY DEF check_android_debug_workflow_v3
    <2> HIDE DEF f, found
    <2>4. QED  BY <2>2, <2>3, ParsedSound, UnreadIsTrue
<1>7. Sound(check_mobile_entry_point_v4)
    <2> DEFINE dart == "main.dart"
               pub == "pubspec.yaml"
               calls == Lacks("S7", dart, Raw(dart), Each({"runApp(", "ProviderScope"}))
               shape == FirstLack("S7", pub, Stripped(pub),
                                  <<{"valid yaml"}, {"top-level mapping"}>>)
               deps == Lacks("S7", pub, Stripped(pub), Each({"flutter_riverpod", "go_router"}))
               found == IF shape # {} THEN shape ELSE deps
    <2>1. Sound(calls) /\ Sound(deps)  BY LacksEachSound DEF Offences
    <2>2. Sound(shape)  BY SoundSeriesOfTwo DEF Clean, Offences
    <2>3. Sound(found)  BY <2>1, <2>2
    <2>4. check_mobile_entry_point_v4 = Unguarded("S7", dart, calls \union
              Unguarded("S7", pub, Loaded(pub, "valid yaml", found)))
        BY DEF check_mobile_entry_point_v4
    <2> HIDE DEF dart, pub, calls, found
    <2>5. QED  BY <2>1, <2>3, <2>4, LoadedSound, GuardSound, UnionSound
<1>8. Sound(check_android_xml_comments_v5)
    BY CommentBansSound, GuardSound, OneSound, UnionSound DEF check_android_xml_comments_v5,
       CommentBans
<1>9. Sound(check_android_manifest_v6)
    <2> DEFINE f == "AndroidManifest.xml"
               app == "app/build.gradle.kts"
               spec == Bans("S9", f, Stripped(f),
                            {"manifest package=", "tools:remove usesCleartextTraffic"})
                       \union Lacks("S9", f, Raw(f), {{"xmlns:tools="}})
               namespace == Lacks("S9", app, Raw(app), {{"namespace = com.opene2ee.opene2ee"}})
    <2>1. Sound(spec)
        <3>1. {"manifest package=", "tools:remove usesCleartextTraffic"} \subseteq Banned(f)
            BY BannedTable
        <3>2. Clean({"xmlns:tools="})  BY DEF Clean, Offences
        <3>3. Sound(Lacks("S9", f, Raw(f), {{"xmlns:tools="}}))  BY <3>2, LacksSound
        <3>4. QED  BY <3>1, <3>3, BansSound, UnionSound
    <2>2. Sound(Unguarded("S9", app, namespace))  BY LacksSound, GuardSound DEF Clean, Offences
    <2>3. f \in garbled \/ "valid xml" \notin Stripped(f)
              => Upheld(Finding("S9", f, {"valid xml"}))
        BY LackIsTrue, IllegibleIsTrue DEF Offences
    <2>4. \/ f \in gone /\ check_android_manifest_v6 = Missing("S9", f)
          \/ check_android_manifest_v6 = {Abort}
          \/ /\ f \in garbled \/ "valid xml" \notin Stripped(f)
             /\ check_android_manifest_v6 = {Finding("S9", f, {"valid xml"})}
          \/ check_android_manifest_v6 = spec \union Unguarded("S9", app, namespace)
        BY DEF check_android_manifest_v6
    <2> HIDE DEF f, app, spec, namespace
    <2>5. QED  BY <2>1, <2>2, <2>3, <2>4, UnreadIsTrue, AbortSound, OneSound, UnionSound
<1>10. Sound(check_android_res_skeleton_v7)
    <2> DEFINE styles == "styles.xml"
               launch == "launch_background.xml"
               themes == IF "known encoding" \notin Stripped(styles) THEN {Abort}
                         ELSE IF styles \in garbled \/ "valid xml" \notin Stripped(styles)
                         THEN {Finding("S10", styles, {"valid xml"})}
                         ELSE Lacks("S10", styles, Stripped(styles),
                                    Each({"LaunchTheme", "NormalTheme"}))
               icons == Lacks("S10", "res", Stripped("res"), {{"a mipmap directory with an icon"}})
    <2>1. Sound(themes)
        <3>1. styles \in garbled \/ "valid xml" \notin Stripped(styles)
                  => Upheld(Finding("S10", styles, {"valid xml"}))
            BY LackIsTrue, IllegibleIsTrue DEF Offences
        <3>2. Sound(Lacks("S10", styles, Stripped(styles), Each({"LaunchTheme", "NormalTheme"})))
            BY LacksEachSound DEF Offences
        <3>3. QED  BY <3>1, <3>2, OneSound, AbortSound
    <2>2. Sound(icons)  BY LacksSound DEF Clean, Offences
    <2>3. check_android_res_skeleton_v7 =
              IF "res" \in gone THEN Missing("S10", "res")
              ELSE (IF styles \in gone THEN Missing("S10", styles) ELSE themes) \union icons
                   \union (IF launch \in gone THEN Missing("S10", launch) ELSE {})
        BY DEF check_android_res_skeleton_v7
    <2> HIDE DEF styles, launch, themes, icons
    <2>4. QED  BY <2>1, <2>2, <2>3, UnreadIsTrue, UnionSound
<1>11. Sound(check_flutter_plugins_dependencies_v8)
    <2> DEFINE f == ".flutter-plugins-dependencies"
               shape == FirstLack("S11", f, Stripped(f),
                            <<{"valid json"}, {"top-level mapping"}, {"plugins"},
                              {"plugins.android"}, {"a plugin entry"}>>)
               entry == Lacks("S11", f, Stripped(f), Each({"entry name", "entry native_build"}))
               found == IF shape # {} THEN shape ELSE entry
    <2>1. Sound(shape)  BY SoundSeriesOfFive DEF Clean, Offences
    <2>2. Sound(entry)  BY LacksEachSound DEF Offences
    <2>3. Sound(found)  BY <2>1, <2>2
    <2>4. check_flutter_plugins_dependencies_v8 =
              Unguarded("S11", f, Loaded(f, "valid json", found))
        BY DEF check_flutter_plugins_dependencies_v8
    <2> HIDE DEF f, found
    <2>5. QED  BY <2>3, <2>4, LoadedSound, GuardSound
<1>12. Sound(check_flutter_kotlin_embedding_v9)
    BY GuardSound, LacksSound, SoundSeriesOfFour, SoundSeriesOfOne DEF
       check_flutter_kotlin_embedding_v9, Clean, Offences
<1>13. Sound(check_flutter_storage_repo_v10)
    <2>1. "dependencyResolutionManagement balanced" \notin Raw("settings.gradle.kts")
              => Sound({Finding("S13", "settings.gradle.kts",
                                {"dependencyResolutionManagement balanced"})})
        BY OneLackSound DEF Offences
    <2>2. QED  BY <2>1, GuardSound, UnionSound, AbortSound DEF check_flutter_storage_repo_v10
<1>14. Sound(check_gradle_wrapper_force_include)
    <2> DEFINE wrapper == {"gradlew", "gradlew.bat", "gradle-wrapper.jar"}
               patterns == {"!**/android/gradlew", "!**/android/gradlew.bat",
                            "!**/android/gradle/wrapper/gradle-wrapper.jar"}
               untracked == {f \in wrapper : ~_git_ls_files_tracked(f) \/ f \in gone}
    <2>1. \A f \in untracked : Upheld(Finding("S17", "git", {f}))
        BY UntrackedSound DEF Offences
    <2>2. \A p \in MissingPatterns(patterns) : Upheld(Finding("S17", ".gitignore", {p}))
        BY PatternSound DEF Offences
    <2>3. check_gradle_wrapper_force_include =
              IF ".gitignore" \in garbled \ gone THEN {Abort}
              ELSE {Finding("S17", "git", {f}) : f \in untracked}
                   \union {Finding("S17", ".gitignore", {p}) : p \in MissingPatterns(patterns)}
        BY DEF check_gradle_wrapper_force_include
    <2> HIDE DEF untracked, patterns
    <2>4. /\ Sound({Finding("S17", "git", {f}) : f \in untracked})
          /\ Sound({Finding("S17", ".gitignore", {p}) : p \in MissingPatterns(patterns)})
        BY <2>1, <2>2 DEF Sound
    <2>5. QED  BY <2>3, <2>4, AbortSound, UnionSound
<1>15. Sound(check_fresh_flutter_create_preserved)
    <2> DEFINE f == "pubspec.lock"
               shape == FirstLack("S18", f, Stripped(f),
                            <<{"valid yaml"}, {"top-level mapping"}, {"packages"},
                              {"packages.flutter"}, {"packages.flutter.source: sdk"}>>)
               patterns == {"**/android/.gradle/", "**/android/local.properties",
                            "**/.dart_tool/", "**/.flutter-plugins-dependencies"}
               found == {Finding("S18", ".gitignore", {p}) : p \in MissingPatterns(patterns)}
               body == IF shape # {} THEN shape
                       ELSE IF ".gitignore" \in garbled \ gone THEN {Abort} ELSE found
    <2>1. Sound(shape)  BY SoundSeriesOfFive DEF Clean, Offences
    <2>2. \A p \in MissingPatterns(patterns) : Upheld(Finding("S18", ".gitignore", {p}))
        BY PatternSound DEF Offences
    <2>3. Sound(found)
        <3> HIDE DEF patterns
        <3>1. QED  BY <2>2 DEF Sound
    <2>4. ~_git_ls_files_tracked(f) => Upheld(Finding("S18", "git", {f}))
        BY UntrackedSound DEF Offences
    <2>5. check_fresh_flutter_create_preserved =
              IF ~_git_ls_files_tracked(f) THEN {Finding("S18", "git", {f})}
              ELSE Unguarded("S18", f, Loaded(f, "valid yaml", body))
        BY DEF check_fresh_flutter_create_preserved
    <2>6. Sound(body)
        <3> HIDE DEF shape, found
        <3>1. QED  BY <2>1, <2>3, AbortSound
    <2> HIDE DEF f, shape, patterns, found, body
    <2>7. QED  BY <2>4, <2>5, <2>6, OneSound, LoadedSound, GuardSound
<1>16. Sound(check_fresh_create_metadata_tracked)
    <2> SUFFICES ASSUME NEW r \in check_fresh_create_metadata_tracked PROVE Upheld(r)
        BY DEF Sound
    <2>1. PICK p \in {".metadata", "android/.gitignore"} :
              ~_git_ls_files_tracked(p) /\ r = Finding("S19", "git", {p})
        BY DEF check_fresh_create_metadata_tracked
    <2>2. p \notin Offences  BY DEF Offences
    <2>3. QED  BY <2>1, <2>2, UntrackedSound
<1>17. Sound(check_pubspec_baseline_shape)
    <2> DEFINE f == "pubspec.yaml"
               shape == FirstLack("S20", f, Stripped(f), <<{"valid yaml"}, {"top-level mapping"}>>)
               baseline == Lacks("S20", f, Stripped(f), Each(
                               {"name", "environment.sdk", "dependencies.flutter.sdk: flutter",
                                "dev_dependencies.flutter_test.sdk: flutter"}))
               found == IF shape # {} THEN shape ELSE AsOne("S20", f, baseline)
    <2>1. Sound(shape)  BY SoundSeriesOfTwo DEF Clean, Offences
    <2>2. Sound(AsOne("S20", f, baseline))  BY AsOneEachSound DEF Offences
    <2>3. Sound(found)  BY <2>1, <2>2
    <2>4. check_pubspec_baseline_shape = Unguarded("S20", f, Loaded(f, "valid yaml", found))
        BY DEF check_pubspec_baseline_shape
    <2> HIDE DEF f, found
    <2>5. QED  BY <2>3, <2>4, LoadedSound, GuardSound
<1>18. QED  BY <1>1, <1>2, <1>3, <1>4, <1>5, <1>6, <1>7, <1>8, <1>9, <1>10, <1>11, <1>12,
    <1>13, <1>14, <1>15, <1>16, <1>17

\* Every check on the native side returns findings that are true.
LEMMA NativeIsSound ==
    /\ Sound(check_vpn_service_mtu_and_fragment_log_v31)
    /\ Sound(check_notification_chronometer_autostop_v35)
    /\ Sound(check_vpn_service_passthrough_count_invariant_v36)
    /\ Sound(check_manifest_change_network_state_v37)
    /\ Sound(check_stop_capture_ring_clear_invariant_v38)
    /\ Sound(check_check_private_dns_bind_5_logd_invariant_v39)
    /\ Sound(check_check_private_dns_5s_fallback_invariant_v40)
    /\ Sound(check_check_private_dns_call_before_establish_invariant_v41)
    /\ Sound(check_user_space_tcp_ip_stack_invariant_v42)
    /\ Sound(check_tcp_state_machine_v43)
    /\ Sound(check_udp_forwarder_v44)
    /\ Sound(check_tcp_5tuple_v45)
    /\ Sound(check_tcp_dataflow_v46)
    /\ Sound(check_teardown_comprehensive_v48)
    /\ Sound(check_main_activity_get_sampled_packets_v13)
    /\ Sound(check_vpn_service_on_packets_sampled_literal_v15)
    /\ Sound(check_main_activity_snapshot_call_v15)
    /\ Sound(check_vpn_service_foreground_notification_text_v15)
    /\ Sound(check_main_activity_owns_vpn_channel_v18)
    /\ Sound(check_vpn_service_startforeground_within_5s_v19)
    /\ Sound(check_vpn_service_log_d_breadcrumbs_v20)
    /\ Sound(check_vpn_service_state_transition_breadcrumbs_v22)
    /\ Sound(check_vpn_service_addroute_bad_address_v23)
    /\ Sound(check_vpn_service_tun_passthrough_v24)
    /\ Sound(check_vpn_service_ui_thread_push_v26)
    /\ Sound(check_vpn_service_packets_observed_increment_invariant_v27)
<1>1. Sound(check_vpn_service_mtu_and_fragment_log_v31)
    <2>1. Sound(Bans("S87", Service, Stripped(Service),
               {"TUN_MTU = 1500"}))
        BY BansSound, BannedTable
    <2>2. QED
        BY <2>1, GuardSound, LacksSound, UnionSound
        DEF check_vpn_service_mtu_and_fragment_log_v31, Clean, Offences
<1>2. Sound(check_notification_chronometer_autostop_v35)
    BY GuardSound, LacksEachSound DEF check_notification_chronometer_autostop_v35, Offences
<1>3. Sound(check_vpn_service_passthrough_count_invariant_v36)
    BY GuardSound, LacksEachSound DEF check_vpn_service_passthrough_count_invariant_v36,
       Offences
<1>4. Sound(check_manifest_change_network_state_v37)
    BY GuardSound, LacksSound DEF check_manifest_change_network_state_v37, Clean, Offences
<1>5. Sound(check_stop_capture_ring_clear_invariant_v38)
    BY GuardSound, LacksEachSound DEF check_stop_capture_ring_clear_invariant_v38, Offences
<1>6. Sound(check_check_private_dns_bind_5_logd_invariant_v39)
    BY GuardSound, LacksEachSound DEF check_check_private_dns_bind_5_logd_invariant_v39,
       Offences
<1>7. Sound(check_check_private_dns_5s_fallback_invariant_v40)
    BY GuardSound, LacksEachSound DEF check_check_private_dns_5s_fallback_invariant_v40,
       Offences
<1>8. Sound(check_check_private_dns_call_before_establish_invariant_v41)
    BY GuardSound, LacksEachSound, SoundSeriesOfTwo, UnionSound DEF
       check_check_private_dns_call_before_establish_invariant_v41, Clean, Offences
<1>9. Sound(check_user_space_tcp_ip_stack_invariant_v42)
    <2> DEFINE Unread(f, T) == Guarded("S99", f, {}) \union Lacks("S99", f, {}, Each(T))
               Needs(f, T) == IF f \in garbled \ gone THEN Unread(f, T)
                              ELSE Guarded("S99", f, Lacks("S99", f, Raw(f), Each(T)))
    <2>1. ASSUME NEW f, NEW T, T \intersect Offences = {} PROVE Sound(Needs(f, T))
        <3>1. Sound(Guarded("S99", f, Lacks("S99", f, Raw(f), Each(T))))
            BY <2>1, LacksEachSound, GuardSound
        <3>2. f \in garbled => \A t \in T : Upheld(Finding("S99", f, {t}))
            BY <2>1, IllegibleIsTrue
        <3>3. \A r \in Lacks("S99", f, {}, Each(T)) : \E t \in T : r = Finding("S99", f, {t})
            BY DEF Lacks, Each
        <3>4. f \in garbled => Sound(Lacks("S99", f, {}, Each(T)))
            BY <3>2, <3>3 DEF Sound
        <3>5. Sound(Guarded("S99", f, {}))  BY GuardSound, UnionSound
        <3>6. QED  BY <3>1, <3>4, <3>5, UnionSound
    <2>2. check_user_space_tcp_ip_stack_invariant_v42 =
              Needs("app/build.gradle.kts", {"io.netty:netty-all"})
              \union Needs(Netty, {"VpnService.protect(", "class NettyChannelClient"})
              \union Needs(Service, {"user-space"})
        BY DEF check_user_space_tcp_ip_stack_invariant_v42
    <2> HIDE DEF Needs
    <2>3. /\ Sound(Needs("app/build.gradle.kts", {"io.netty:netty-all"}))
          /\ Sound(Needs(Netty, {"VpnService.protect(", "class NettyChannelClient"}))
          /\ Sound(Needs(Service, {"user-space"}))
        BY <2>1 DEF Offences
    <2>4. QED  BY <2>2, <2>3, UnionSound
<1>10. Sound(check_tcp_state_machine_v43)
    <2> DEFINE T == {"fun handleTcpPacket(", "data class TcpConnection", "enum class TcpState",
                     "LISTEN", "SYN_SENT", "ESTABLISHED", "FIN_WAIT_1", "FIN_WAIT_2",
                     "CLOSE_WAIT", "LAST_ACK", "TIME_WAIT", "CLOSED", "SYN, flow",
                     "SYN+ACK received", "-> ESTABLISHED"}
    <2>1. \A t \in T : Clean({t})
        <3>1. \A t \in {"fun handleTcpPacket(", "data class TcpConnection",
                        "enum class TcpState", "LISTEN", "SYN_SENT"} : t \notin Offences
            BY DEF Offences
        <3>2. \A t \in {"ESTABLISHED", "FIN_WAIT_1", "FIN_WAIT_2", "CLOSE_WAIT",
                        "LAST_ACK"} : t \notin Offences
            BY DEF Offences
        <3>3. \A t \in {"TIME_WAIT", "CLOSED", "SYN, flow", "SYN+ACK received",
                        "-> ESTABLISHED"} : t \notin Offences
            BY DEF Offences
        <3>4. QED  BY <3>1, <3>2, <3>3 DEF Clean
    <2>2. Clean({"ACK, flow", "ACK ->"})  BY DEF Clean, Offences
    <2>3. check_tcp_state_machine_v43 =
              Guarded("S100", Netty, Lacks("S100", Netty, Stripped(Netty),
                                           Each(T) \union {{"ACK, flow", "ACK ->"}}))
        BY DEF check_tcp_state_machine_v43
    <2> HIDE DEF T
    <2>4. \A g \in Each(T) \union {{"ACK, flow", "ACK ->"}} : Clean(g)
        BY <2>1, <2>2 DEF Each
    <2>5. QED  BY <2>3, <2>4, LacksSound, GuardSound
<1>11. Sound(check_udp_forwarder_v44)
    BY GuardSound, LacksEachSound, LacksSound, UnionSound DEF check_udp_forwarder_v44,
       Clean, Offences
<1>12. Sound(check_tcp_5tuple_v45)
    <2> DEFINE vpn == Stripped(Service)
               netty == Stripped(Netty)
               dispatch == Lacks("S106", Service, vpn, Each(
                   {"TCP packet ENTRY", "parseTcpHeader dstPort=", "handleTcpPacket dispatch"}))
               created == AsOne("S106", Netty, Lacks("S106", Netty, netty,
                   {{"new TcpConnection", "TcpConnection()"}, {"-> SYN_SENT", "-> ESTABLISHED"}}))
               handled == Lacks("S106", Service, vpn,
                   {{"var handled", "val handled"}, {"passthrough SKIPPED"}})
               series == FirstLack("S106", Service, vpn,
                   <<{"var handled", "val handled"}, {"if (handled)"}>>)
               conditional == IF "output.write" \in vpn THEN series ELSE {}
               keys == Lacks("S106", Netty, netty, Each({"primaryFlowKey", "reverseFlowKey"}))
    <2>1. Sound(dispatch) /\ Sound(keys)  BY LacksEachSound DEF Offences
    <2>2. Sound(created)  BY AsOneSound DEF Clean, Offences
    <2>3. Sound(handled)  BY LacksSound DEF Clean, Offences
    <2>4. Sound(conditional)  BY SoundSeriesOfTwo, UnionSound DEF Clean, Offences
    <2>5. check_tcp_5tuple_v45 =
              IF Netty \in gone THEN Missing("S106", Netty)
              ELSE IF Service \in gone THEN Missing("S106", Service)
              ELSE IF {Netty, Service} \intersect garbled # {}
                   THEN {Finding("S106", Netty, {"read failed"})}
              ELSE dispatch \union created \union handled \union conditional \union keys
        BY DEF check_tcp_5tuple_v45
    <2> HIDE DEF dispatch, created, handled, conditional, keys
    <2>6. Sound(dispatch \union created \union handled \union conditional \union keys)
        BY <2>1, <2>2, <2>3, <2>4, UnionSound
    <2>7. QED  BY <2>5, <2>6, UnreadIsTrue, OneSound
<1>13. Sound(check_tcp_dataflow_v46)
    BY GuardSound, LacksEachSound DEF check_tcp_dataflow_v46, Offences
<1>14. Sound(check_teardown_comprehensive_v48)
    <2> DEFINE text == Stripped(Netty)
               alone == {"flowMap.clear()", "tcpConnectionMap.clear()", "udpSocketMap.clear()",
                         "udpReaderFutures", "tunOutputStream = null",
                         "workerGroup.shutdownGracefully()", "await", "backgroundExecutor"}
               pairs == {{"readerFuture", "cancel(true)"}, {"shutdownNow()", "awaitTermination"}}
               Pair(p) == AsOne("S115", Netty, Lacks("S115", Netty, text, Each(p)))
               lone == Lacks("S115", Netty, text, Each(alone))
    <2>1. Sound(lone)  BY LacksEachSound DEF Offences
    <2>2. \A p \in pairs : p \intersect Offences = {}  BY DEF Offences
    <2>3. \A p \in pairs : Sound(Pair(p))  BY <2>2, AsOneEachSound
    <2>4. check_teardown_comprehensive_v48 =
              Guarded("S115", Netty, lone \union UNION {Pair(p) : p \in pairs})
        BY DEF check_teardown_comprehensive_v48
    <2> HIDE DEF Pair, pairs, lone
    <2>5. Sound(UNION {Pair(p) : p \in pairs})  BY <2>3 DEF Sound
    <2>6. QED  BY <2>1, <2>4, <2>5, UnionSound, GuardSound
<1>15. Sound(check_main_activity_get_sampled_packets_v13)
    <2> SUFFICES ASSUME NEW r \in check_main_activity_get_sampled_packets_v13 PROVE Upheld(r)
        BY DEF Sound
    <2> DEFINE both == {"when (call.method)", "getSampledPackets"}
               held(f) == both \subseteq Stripped(f)
    <2>1. \/ \E f : f \in garbled /\ r = Finding("S43", f, {"read failed"})
          \/ \E f : "getSampledPackets" \notin Stripped(f)
                    /\ r = Finding("S43", f, {"getSampledPackets"})
          \/ /\ ~held(Activity) \/ Activity \in gone \union garbled
             /\ r = Finding("S43", Activity, both)
        BY DEF check_main_activity_get_sampled_packets_v13
    <2>2. CASE \E f : f \in garbled /\ r = Finding("S43", f, {"read failed"})
        BY <2>2, UnreadIsTrue
    <2>3. CASE \E f : "getSampledPackets" \notin Stripped(f)
                      /\ r = Finding("S43", f, {"getSampledPackets"})
        BY <2>3, LackIsTrue DEF Offences
    <2>4. CASE /\ ~held(Activity) \/ Activity \in gone \union garbled
               /\ r = Finding("S43", Activity, both)
        BY <2>4, LackIsTrue, IllegibleIsTrue DEF Offences
    <2>5. QED  BY <2>1, <2>2, <2>3, <2>4
<1>16. Sound(check_vpn_service_on_packets_sampled_literal_v15)
    BY GuardSound, LacksSound DEF check_vpn_service_on_packets_sampled_literal_v15, Clean,
       Offences
<1>17. Sound(check_main_activity_snapshot_call_v15)
    BY GuardSound, BansSound, BannedTable DEF check_main_activity_snapshot_call_v15,
       Offences
<1>18. Sound(check_vpn_service_foreground_notification_text_v15)
    BY GuardSound, LacksSound DEF check_vpn_service_foreground_notification_text_v15, Clean,
       Offences
<1>19. Sound(check_main_activity_owns_vpn_channel_v18)
    BY GuardSound, LacksSound DEF check_main_activity_owns_vpn_channel_v18, Clean, Offences
<1>20. Sound(check_vpn_service_startforeground_within_5s_v19)
    BY GuardSound, LacksSound, SoundSeriesOfTwo, UnionSound DEF
       check_vpn_service_startforeground_within_5s_v19, Clean, Offences
<1>21. Sound(check_vpn_service_log_d_breadcrumbs_v20)
    BY GuardSound, LacksSound DEF check_vpn_service_log_d_breadcrumbs_v20, Clean, Offences
<1>22. Sound(check_vpn_service_state_transition_breadcrumbs_v22)
    BY GuardSound, LacksEachSound, AsOneEachSound, UnionSound DEF
       check_vpn_service_state_transition_breadcrumbs_v22, Offences
<1>23. Sound(check_vpn_service_addroute_bad_address_v23)
    <2> DEFINE captured == {"CAPTURED_ROUTE_ADDRESS", "CAPTURED_ROUTE_PREFIX"}
    <2>1. ~(captured \subseteq Stripped(Service)) => Sound({Finding("S79", Service, captured)})
        BY OneLackSound DEF Offences
    <2>2. Sound(Lacks("S79", Service, Stripped(Service), {{".addAddress(TUN_ADDRESS"}}))
        BY LacksSound DEF Clean, Offences
    <2>3. Sound(Bans("S79", Service, Stripped(Service), {".addRoute(TUN_ADDRESS"}))
        BY BansSound, BannedTable
    <2>4. QED
        BY <2>1, <2>2, <2>3, GuardSound, UnionSound
        DEF check_vpn_service_addroute_bad_address_v23
<1>24. Sound(check_vpn_service_tun_passthrough_v24)
    <2>1. Sound(Bans("S80", Service, Stripped(Service),
               {"protect(Socket())"}))
        BY BansSound, BannedTable
    <2>2. QED
        BY <2>1, GuardSound, LacksSound, UnionSound
        DEF check_vpn_service_tun_passthrough_v24, Clean, Offences
<1>25. Sound(check_vpn_service_ui_thread_push_v26)
    <2>1. Sound(Bans("S82", Service, Stripped(Service),
               {"more invokeMethod( than mainHandler.post {"}))
        BY BansSound, BannedTable
    <2>2. QED
        BY <2>1, GuardSound, LacksEachSound, UnionSound
        DEF check_vpn_service_ui_thread_push_v26, Offences
<1>26. Sound(check_vpn_service_packets_observed_increment_invariant_v27)
    <2>1. Sound(Bans("S84", Service, Stripped(Service),
               {"packetsObserved.incrementAndGet() twice"}))
        BY BansSound, BannedTable
    <2>2. Sound(Bans("S84", Service, Stripped(Service),
               {"packetsObserved.set( outside startCapture and stopCapture",
                "packetsObserved.set(packetsObserved.get() + 1"}))
        BY BansSound, BannedTable
    <2>3. QED
        BY <2>1, <2>2, GuardSound, SoundSeriesOfThree, UnionSound
        DEF check_vpn_service_packets_observed_increment_invariant_v27, Clean, Offences
<1>27. QED  BY <1>1, <1>2, <1>3, <1>4, <1>5, <1>6, <1>7, <1>8, <1>9, <1>10, <1>11, <1>12,
    <1>13, <1>14, <1>15, <1>16, <1>17, <1>18, <1>19, <1>20, <1>21, <1>22, <1>23, <1>24,
    <1>25, <1>26

\* Every check on the application and the back end returns findings that are true.
LEMMA AppIsSound ==
    /\ Sound(check_no_vpn_string_in_sprint10_ui)
    /\ Sound(check_whatsapp_deeplink_literal_present)
    /\ Sound(check_whatsapp_deeplink_intent_format)
    /\ Sound(check_p2p_matcher_sessions_endpoint)
    /\ Sound(check_android_manifest_whatsapp_queries_v12)
    /\ Sound(check_active_pool_linechart_literal_present)
    /\ Sound(check_pool_provider_no_fake_animation_v29)
    /\ Sound(check_dart_no_fake_ui_animation_v30)
    /\ Sound(check_oturumu_bitir_2level_fallback_v32)
    /\ Sound(check_oturumu_bitir_full_state_reset_v33)
    /\ Sound(check_dns_private_dns_conflict_v34)
    /\ Sound(check_active_pool_haptic_feedback_literal_present)
    /\ Sound(check_pool_provider_debug_state_fields)
    /\ Sound(check_active_pool_scaffold_messenger_snackbar)
    /\ Sound(check_service_api_key_from_environment)
    /\ Sound(check_auth_service_exists)
    /\ Sound(check_service_uses_auth_headers)
    /\ Sound(check_auth_token_expiry_field)
    /\ Sound(check_auth_invalidate_method)
    /\ Sound(check_whatsapp_deeplink_wa_me_format_v14)
    /\ Sound(check_vpn_service_packet_stream_getter_v15)
    /\ Sound(check_active_pool_packet_stream_listen_v15)
    /\ Sound(check_sampled_packet_class_v15)
    /\ Sound(check_active_pool_no_30_call_loop_v15)
    /\ Sound(check_telemetry_service_summary_upload_v15)
    /\ Sound(check_skorlar_screen_fetch_scores_v17)
    /\ Sound(check_score_calculator_compute_v17)
    /\ Sound(check_score_calculator_four_metrics_v17)
    /\ Sound(check_score_calculator_overall_weighted_sum_v17)
    /\ Sound(check_session_orchestrator_close_session_v17)
    /\ Sound(check_active_pool_oturumu_bitur_button_v17)
    /\ Sound(check_active_pool_close_then_navigate_v17)
    /\ Sound(check_skorlar_empty_state_v17)
    /\ Sound(check_skorlar_card_overall_gauge_v17)
    /\ Sound(check_backend_sessions_close_handler_v17)
    /\ Sound(check_backend_summary_stats_shape_v17)
    /\ Sound(check_score_calculator_unit_tests_v17)
    /\ Sound(check_vpn_service_dart_singleton_v20)
    /\ Sound(check_active_pool_screen_ui_propagation_v21)
    /\ Sound(check_pubspec_webrtc_dep_v16)
    /\ Sound(check_webrtc_service_rtc_peer_connection_v16)
    /\ Sound(check_webrtc_service_on_ice_candidate_v16)
    /\ Sound(check_session_orchestrator_start_session_v16)
    /\ Sound(check_session_orchestrator_long_poll_v16)
    /\ Sound(check_backend_webrtc_long_poll_handlers_v16)
    /\ Sound(check_webrtc_service_on_track_v16)
    /\ Sound(check_active_pool_webrtc_status_indicator_v16)
<1>1. Sound(check_no_vpn_string_in_sprint10_ui)
    <2>1. \A f : Sound(Bans("S25", f, Raw(f), {"vpn"}))  BY CommentBansSound DEF CommentBans
    <2>2. QED  BY <2>1 DEF check_no_vpn_string_in_sprint10_ui, Sound
<1>2. Sound(check_whatsapp_deeplink_literal_present)
    BY RequiresSound DEF check_whatsapp_deeplink_literal_present, Clean, Offences
<1>3. Sound(check_whatsapp_deeplink_intent_format)
    BY RequiresEachSound DEF check_whatsapp_deeplink_intent_format, Offences
<1>4. Sound(check_p2p_matcher_sessions_endpoint)
    BY RequiresSound, CommentBansSound, UnionSound DEF check_p2p_matcher_sessions_endpoint,
       CommentBans, Clean, Offences
<1>5. Sound(check_android_manifest_whatsapp_queries_v12)
    <2> DEFINE f == "AndroidManifest.xml"
    <2>1. "<queries>" \notin Raw(f) => Sound({Finding("S42", f, {"<queries>"})})
        BY OneLackSound DEF Offences
    <2>2. Sound(Lacks("S42", f, Stripped(f), {{"<package android:name=com.whatsapp"}}))
        BY LacksSound DEF Clean, Offences
    <2>3. QED  BY <2>1, <2>2, GuardSound DEF check_android_manifest_whatsapp_queries_v12
<1>6. Sound(check_active_pool_linechart_literal_present)
    BY RequiresSound DEF check_active_pool_linechart_literal_present, Clean, Offences
<1>7. Sound(check_pool_provider_no_fake_animation_v29)
    <2>1. {MockTimer} \subseteq MockTokens  BY DEF MockTokens
    <2>2. Banned(Pool) = MockTokens  BY BannedTable DEF State
    <2>3. Sound(Bans("S28", Pool, Stripped(Pool), {MockTimer}))  BY <2>1, <2>2, BansSound
    <2>4. QED  BY <2>3, GuardSound DEF check_pool_provider_no_fake_animation_v29
<1>8. Sound(check_dart_no_fake_ui_animation_v30)
    <2> DEFINE fake(f) == Guarded("S86", f, Bans("S86", f, Stripped(f), MockTokens))
               files == ({Screen} \union State) \ gone
               all == UNION {fake(f) : f \in ({Screen} \union State) \ gone}
               needs == Requires("S86", Screen, Each({"packetStream.listen", "stateStream.listen"}))
    <2>1. check_dart_no_fake_ui_animation_v30 = all \union needs
        BY DEF check_dart_no_fake_ui_animation_v30
    <2>2. \A f \in files : MockTokens \subseteq Banned(f)  BY BannedTable
    <2>3. \A f \in files : Sound(fake(f))  BY <2>2, BansSound, GuardSound
    <2>4. \A r \in all : \E f \in files : r \in fake(f)  OBVIOUS
    <2>5. Sound(needs)  BY RequiresEachSound DEF Offences
    <2> HIDE DEF fake, files, all, needs
    <2>6. Sound(all)  BY <2>3, <2>4 DEF Sound
    <2>7. QED  BY <2>1, <2>5, <2>6, UnionSound
<1>9. Sound(check_oturumu_bitir_2level_fallback_v32)
    <2> DEFINE onScreen == Lacks("S88", Screen, Raw(Screen), Each(
                   {".stop().timeout(", "TimeoutException", "opene2ee/permissions",
                    "disconnectVpn"}))
               inActivity == Requires("S88", "MainActivity.kt", Each(
                   {"fun disconnectVpn(", "stopService", "VpnService.prepare",
                    "OpenE2eeVpnService::class.java", "disconnectVpn -> disconnectVpn("}))
               early == Bans("S88", Screen, Raw(Screen),
                             {"if (_orchestrator.sessionId == null) { return"})
    <2>1. Sound(onScreen)  BY LacksEachSound DEF Offences
    <2>2. Sound(inActivity)  BY RequiresEachSound DEF Offences
    <2>3. Sound(early)  BY CommentBansSound DEF CommentBans
    <2>4. check_oturumu_bitir_2level_fallback_v32 =
              Guarded("S88", Screen, onScreen \union early) \union inActivity
        BY DEF check_oturumu_bitir_2level_fallback_v32
    <2> HIDE DEF onScreen, inActivity, early
    <2>5. QED  BY <2>1, <2>2, <2>3, <2>4, GuardSound, UnionSound
<1>10. Sound(check_oturumu_bitir_full_state_reset_v33)
    <2> DEFINE groups ==
                   {{"_packetSub?.cancel()", "_packetSub.cancel()"},
                    {"_stateSub?.cancel()", "_stateSub.cancel()"}, {"_toplamPaket = 0"},
                    {"_vpnState = VpnLifecycleState.idle"}, {"setState(() {"},
                    {"_disconnectInProgress = true"}, {"_disconnectInProgress = false"},
                    {"context.go(/home/gorevler)"}}
    <2>1. /\ Clean({"_packetSub?.cancel()", "_packetSub.cancel()"})
          /\ Clean({"_stateSub?.cancel()", "_stateSub.cancel()"})
          /\ Clean({"_toplamPaket = 0"})
          /\ Clean({"_vpnState = VpnLifecycleState.idle"})
        BY DEF Clean, Offences
    <2>2. /\ Clean({"setState(() {"}) /\ Clean({"_disconnectInProgress = true"})
          /\ Clean({"_disconnectInProgress = false"}) /\ Clean({"context.go(/home/gorevler)"})
        BY DEF Clean, Offences
    <2>3. \A g \in groups : Clean(g)  BY <2>1, <2>2
    <2>4. check_oturumu_bitir_full_state_reset_v33 = Requires("S89", Screen, groups)
        BY DEF check_oturumu_bitir_full_state_reset_v33
    <2> HIDE DEF groups
    <2>5. QED  BY <2>3, <2>4, RequiresSound
<1>11. Sound(check_dns_private_dns_conflict_v34)
    BY RequiresEachSound, UnionSound DEF check_dns_private_dns_conflict_v34, Offences
<1>12. Sound(check_active_pool_haptic_feedback_literal_present)
    BY RequiresSound DEF check_active_pool_haptic_feedback_literal_present, Clean, Offences
<1>13. Sound(check_pool_provider_debug_state_fields)
    BY RequiresEachSound DEF check_pool_provider_debug_state_fields, Offences
<1>14. Sound(check_active_pool_scaffold_messenger_snackbar)
    BY RequiresSound DEF check_active_pool_scaffold_messenger_snackbar, Clean, Offences
<1>15. Sound(check_service_api_key_from_environment)
    BY RequiresInSound DEF check_service_api_key_from_environment, Offences
<1>16. Sound(check_auth_service_exists)
    BY RequiresEachSound DEF check_auth_service_exists, Offences
<1>17. Sound(check_service_uses_auth_headers)
    BY RequiresInSound DEF check_service_uses_auth_headers, Offences
<1>18. Sound(check_auth_token_expiry_field)
    BY RequiresSound DEF check_auth_token_expiry_field, Clean, Offences
<1>19. Sound(check_auth_invalidate_method)
    BY RequiresSound DEF check_auth_invalidate_method, Clean, Offences
<1>20. Sound(check_whatsapp_deeplink_wa_me_format_v14)
    BY RequiresSound, RequiresEachSound, UnionSound DEF
       check_whatsapp_deeplink_wa_me_format_v14, Clean, Offences
<1>21. Sound(check_vpn_service_packet_stream_getter_v15)
    BY RequiresEachSound DEF check_vpn_service_packet_stream_getter_v15, Offences
<1>22. Sound(check_active_pool_packet_stream_listen_v15)
    BY RequiresSound DEF check_active_pool_packet_stream_listen_v15, Clean, Offences
<1>23. Sound(check_sampled_packet_class_v15)
    BY RequiresEachSound DEF check_sampled_packet_class_v15, Offences
<1>24. Sound(check_active_pool_no_30_call_loop_v15)
    <2> DEFINE loop == {"< 30", "Timer.periodic"}
               ticks == IF loop \subseteq Raw(Screen) THEN {Finding("S51", Screen, loop)} ELSE {}
               stream == Lacks("S51", Screen, Raw(Screen), {{"packetStream"}})
    <2>1. Sound(ticks)  BY CommentBansSound, OneSound, UnionSound DEF CommentBans
    <2>2. Sound(stream)  BY LacksSound DEF Clean, Offences
    <2>3. check_active_pool_no_30_call_loop_v15 = Guarded("S51", Screen, ticks \union stream)
        BY DEF check_active_pool_no_30_call_loop_v15
    <2> HIDE DEF ticks, stream
    <2>4. QED  BY <2>1, <2>2, <2>3, GuardSound, UnionSound
<1>25. Sound(check_telemetry_service_summary_upload_v15)
    BY RequiresEachSound DEF check_telemetry_service_summary_upload_v15, Offences
<1>26. Sound(check_skorlar_screen_fetch_scores_v17)
    BY RequiresSound DEF check_skorlar_screen_fetch_scores_v17, Clean, Offences
<1>27. Sound(check_score_calculator_compute_v17)
    BY RequiresEachSound DEF check_score_calculator_compute_v17, Offences
<1>28. Sound(check_score_calculator_four_metrics_v17)
    BY RequiresEachSound DEF check_score_calculator_four_metrics_v17, Offences
<1>29. Sound(check_score_calculator_overall_weighted_sum_v17)
    BY RequiresEachSound DEF check_score_calculator_overall_weighted_sum_v17, Offences
<1>30. Sound(check_session_orchestrator_close_session_v17)
    BY RequiresEachSound DEF check_session_orchestrator_close_session_v17, Offences
<1>31. Sound(check_active_pool_oturumu_bitur_button_v17)
    BY RequiresSound DEF check_active_pool_oturumu_bitur_button_v17, Clean, Offences
<1>32. Sound(check_active_pool_close_then_navigate_v17)
    BY RequiresEachSound DEF check_active_pool_close_then_navigate_v17, Offences
<1>33. Sound(check_skorlar_empty_state_v17)
    BY RequiresSound DEF check_skorlar_empty_state_v17, Clean, Offences
<1>34. Sound(check_skorlar_card_overall_gauge_v17)
    BY RequiresSound DEF check_skorlar_card_overall_gauge_v17, Clean, Offences
<1>35. Sound(check_backend_sessions_close_handler_v17)
    BY RequiresSound DEF check_backend_sessions_close_handler_v17, Clean, Offences
<1>36. Sound(check_backend_summary_stats_shape_v17)
    BY RequiresEachSound DEF check_backend_summary_stats_shape_v17, Offences
<1>37. Sound(check_score_calculator_unit_tests_v17)
    BY RequiresSound DEF check_score_calculator_unit_tests_v17, Clean, Offences
<1>38. Sound(check_vpn_service_dart_singleton_v20)
    <2>1. Sound(Bans("S76", VpnDart, Stripped(VpnDart),
               {"VpnService()"}))
        BY BansSound, BannedTable
    <2>2. QED
        BY <2>1, GuardSound, LacksSound, UnionSound
        DEF check_vpn_service_dart_singleton_v20, Clean, Offences
<1>39. Sound(check_active_pool_screen_ui_propagation_v21)
    BY GuardSound, LacksSound, SoundSeriesOfTwo, UnionSound DEF
       check_active_pool_screen_ui_propagation_v21, Clean, Offences
<1>40. Sound(check_pubspec_webrtc_dep_v16)
    BY RequiresSound DEF check_pubspec_webrtc_dep_v16, Clean, Offences
<1>41. Sound(check_webrtc_service_rtc_peer_connection_v16)
    BY RequiresEachSound DEF check_webrtc_service_rtc_peer_connection_v16, Offences
<1>42. Sound(check_webrtc_service_on_ice_candidate_v16)
    BY RequiresEachSound DEF check_webrtc_service_on_ice_candidate_v16, Offences
<1>43. Sound(check_session_orchestrator_start_session_v16)
    BY RequiresEachSound DEF check_session_orchestrator_start_session_v16, Offences
<1>44. Sound(check_session_orchestrator_long_poll_v16)
    <2> DEFINE timeout == {"Duration(seconds: 30)", "_pollTimeout"}
               poll == {{".get("}, {"pollForOffer", "pollForAnswer"}}
    <2>1. timeout \intersect Raw(Orchestrator) = {}
              => Sound({Finding("S57", Orchestrator, timeout)})
        BY OneLackSound DEF Offences
    <2>2. Sound(Lacks("S57", Orchestrator, Raw(Orchestrator), poll))
        BY LacksSound DEF Clean, Offences
    <2>3. QED  BY <2>1, <2>2, GuardSound DEF check_session_orchestrator_long_poll_v16
<1>45. Sound(check_backend_webrtc_long_poll_handlers_v16)
    BY RequiresEachSound DEF check_backend_webrtc_long_poll_handlers_v16, Offences
<1>46. Sound(check_webrtc_service_on_track_v16)
    BY RequiresEachSound DEF check_webrtc_service_on_track_v16, Offences
<1>47. Sound(check_active_pool_webrtc_status_indicator_v16)
    BY RequiresEachSound DEF check_active_pool_webrtc_status_indicator_v16, Offences
<1>48. QED  BY <1>1, <1>2, <1>3, <1>4, <1>5, <1>6, <1>7, <1>8, <1>9, <1>10, <1>11, <1>12,
    <1>13, <1>14, <1>15, <1>16, <1>17, <1>18, <1>19, <1>20, <1>21, <1>22, <1>23, <1>24,
    <1>25, <1>26, <1>27, <1>28, <1>29, <1>30, <1>31, <1>32, <1>33, <1>34, <1>35, <1>36,
    <1>37, <1>38, <1>39, <1>40, <1>41, <1>42, <1>43, <1>44, <1>45, <1>46, <1>47

\* Whatever check main runs next, what it finds is true.
LEMMA ResultIsSound ==
    ASSUME Tables, NEW i \in 1..NumChecks
    PROVE  Sound(Result(i))
<1>1. i \in 1..20 => Sound(SprintNine(i))
    BY SMTT(60), BuildIsSound, NativeIsSound, AppIsSound DEF SprintNine
<1>2. i \in 21..50 => Sound(SprintTen(i))
    BY SMTT(60), BuildIsSound, NativeIsSound, AppIsSound DEF SprintTen
<1>3. i \in 51..78 => Sound(Milestones(i))
    BY SMTT(60), BuildIsSound, NativeIsSound, AppIsSound DEF Milestones
<1>4. i \in 79..93 => Sound(Regressions(i))
    BY SMTT(60), BuildIsSound, NativeIsSound, AppIsSound DEF Regressions
<1>5. QED  BY <1>1, <1>2, <1>3, <1>4 DEF NumChecks, Result

\* However often the repository was edited, every finding is true of what is
\* then audited.
THEOREM FindingsHold == Spec => []FindingsAreTrue
<1>1. Init => FindingsAreTrue  BY DEF Init, FindingsAreTrue
<1>2. Shape /\ FindingsAreTrue /\ [Next]_vars => FindingsAreTrue'
    <2> SUFFICES ASSUME Shape, FindingsAreTrue, [Next]_vars PROVE FindingsAreTrue'  OBVIOUS
    <2>1. CASE Edit
        <3>1. step = 0 /\ findings' = findings
            BY <2>1 DEF Edit, DeleteToken, CommentOut, AddBanned, MentionBanned, DeleteFile,
                        Garble, Editing
        <3>2. findings' = {}  BY <3>1 DEF Shape
        <3>3. QED  BY <3>2 DEF FindingsAreTrue
    <2>2. CASE main \/ UNCHANGED vars
        <3>1. UNCHANGED <<code, gone, garbled>>
            BY <2>2 DEF main, Start, RunCheck, Raise, Verdict, vars
        <3>2. SUFFICES ASSUME NEW r \in findings', r.check \notin CommentBans, r.file \in Files
                       PROVE  IsTrue(r)
            BY <3>1 DEF FindingsAreTrue, IsTrue, Stripped, Holding
        <3>3. CASE r \in findings  BY <3>2, <3>3 DEF FindingsAreTrue
        <3>4. CASE r \notin findings
            <4>1. RunCheck
                BY <2>2, <3>2, <3>4 DEF main, Start, Raise, Verdict, vars
            <4>2. PICK i \in 1..NumChecks : r \in Result(i) /\ Abort \notin Result(i)
                BY <3>2, <3>4, <4>1 DEF RunCheck
            <4>3. Upheld(r)  BY <4>2, ResultIsSound DEF Sound, Shape
            <4>4. r.check # "exception"
                BY <4>2, ResultIsProper DEF Proper, Entry
            <4>5. QED  BY <3>2, <4>3, <4>4 DEF Upheld
        <3>5. QED  BY <3>3, <3>4
    <2>3. QED  BY <2>1, <2>2 DEF Next
<1>3. QED  BY <1>1, <1>2, ShapeHolds, PTL DEF Spec

-----------------------------------------------------------------------------
\* What is forbidden is reported.

\* A token that stands in the code of a file that can be read.
Standing(f, t) == f \notin gone \union garbled /\ t \in code[f]

\* Findings that report it, or the structure the file has lost.
Caught(f, t, F) ==
    \E r \in F : /\ r.file \in {f, "services"}
                 /\ r.about \intersect (Holding({t}) \union Structure) # {}

\* The check that looks for token t, which is forbidden in file f.
Bars(i, f, t) ==
    \/ i \in {2, 3, 4} /\ f = Workflows[i] /\ t = "workflow_dispatch: inputs"
    \/ i = 8 /\ f = "app/build.gradle.kts"
       /\ t \in {"kotlinOptions { jvmTarget = 17", "java.util.Properties()"}
    \/ i = 11 /\ f = "res/xml" /\ t = "-- inside a comment"
    \/ i = 12 /\ f = "AndroidManifest.xml"
       /\ t \in {"manifest package=", "tools:remove usesCleartextTraffic"}
    \/ i = 21 /\ f \in {"main.dart"} \union Screens /\ t = "vpn"
    \/ i = 25 /\ f \in {Screen} \union State /\ t \in MockTokens
    \/ i = 26 /\ f = Service /\ t = "TUN_MTU = 1500"
    \/ i = 27 /\ f = Screen /\ t = "if (_orchestrator.sessionId == null) { return"
    \/ i = 47 /\ f = Matcher /\ t = "/api/v1/matches"
    \/ i = 52 /\ f = Activity /\ t = "a mock packet map"
    \/ i = 57 /\ f = Screen /\ t = "Timer.periodic( and < 30"
    \/ i = 82 /\ f = VpnDart /\ t = "VpnService()"
    \/ i = 85 /\ f = Service /\ t = ".addRoute(TUN_ADDRESS"
    \/ i = 86 /\ f = Service /\ t = "protect(Socket())"
    \/ i = 87 /\ f = Service /\ t = "more invokeMethod( than mainHandler.post {"
    \/ i = 88 /\ f = Service
       /\ t \in {"packetsObserved.incrementAndGet() twice",
                 "packetsObserved.set( outside startCapture and stopCapture",
                 "packetsObserved.set(packetsObserved.get() + 1"}

\* The workflows that must not be dispatched with inputs.
LEMMA WorkflowNames ==
    /\ Workflows[2] = "ci.yml" /\ Workflows[3] = "ios.yml"
    /\ Workflows[4] = "android-release.yml"
BY DEF Workflows

\* Whatever is forbidden, some check looks for it.
LEMMA EveryBanHasACheck == \A f : \A t \in Banned(f) : \E i \in 1..NumChecks : Bars(i, f, t)
<1> SUFFICES ASSUME NEW f, NEW t \in Banned(f) PROVE \E i \in 1..NumChecks : Bars(i, f, t)
    OBVIOUS
<1>1. \/ f \in {"ci.yml", "ios.yml", "android-release.yml"}
      \/ f = "app/build.gradle.kts"
      \/ f = "res/xml"
      \/ f = "AndroidManifest.xml"
      \/ f \in {"main.dart", TaskScreen, Scores} \union OtherScreens
      \/ f = Screen
      \/ f \in State
      \/ f = Matcher
      \/ f = Service
      \/ f = Activity
      \/ f = VpnDart
    BY DEF Banned
<1>2. \A i \in 1..93 : Bars(i, f, t) => \E j \in 1..NumChecks : Bars(j, f, t)
    BY DEF NumChecks
<1>3. CASE f \in {"ci.yml", "ios.yml", "android-release.yml"}
    <2>1. \A i \in {2, 3, 4} : i \in 1..93 /\ i \in 2..4  OBVIOUS
    <2>2. PICK i \in {2, 3, 4} : f = Workflows[i]
        <3>1. f = Workflows[2] \/ f = Workflows[3] \/ f = Workflows[4]  BY <1>3, WorkflowNames
        <3>2. QED  BY <3>1
    <2>3. Banned(Workflows[i]) = {"workflow_dispatch: inputs"}  BY <2>1, BannedTable
    <2>4. t = "workflow_dispatch: inputs"  BY <2>2, <2>3
    <2>5. Bars(i, f, t)  BY <2>2, <2>4 DEF Bars
    <2>6. QED  BY <1>2, <2>1, <2>5
<1>4. CASE f = "app/build.gradle.kts"
    <2>1. Bars(8, f, t)
        BY <1>4, BannedTable DEF Bars
    <2>2. QED  BY <1>2, <2>1
<1>5. CASE f = "res/xml"
    <2>1. Bars(11, f, t)
        BY <1>5, BannedTable DEF Bars
    <2>2. QED  BY <1>2, <2>1
<1>6. CASE f = "AndroidManifest.xml"
    <2>1. Bars(12, f, t)
        BY <1>6, BannedTable DEF Bars
    <2>2. QED  BY <1>2, <2>1
<1>7. CASE f \in {"main.dart", TaskScreen, Scores} \union OtherScreens
    <2>1. Banned(f) = {"vpn"}  BY <1>7, BannedTable
    <2>2. f \in {"main.dart"} \union Screens  BY <1>7 DEF Screens
    <2>3. Bars(21, f, t)  BY <2>1, <2>2 DEF Bars
    <2>4. QED  BY <1>2, <2>3
<1>8. CASE f = Screen
    <2>1. Bars(21, f, t) \/ Bars(25, f, t) \/ Bars(27, f, t) \/ Bars(57, f, t)
        BY <1>8, BannedTable DEF Bars, Screens
    <2>2. QED  BY <1>2, <2>1
<1>9. CASE f \in State
    <2>1. Bars(25, f, t)
        BY <1>9, BannedTable DEF Bars
    <2>2. QED  BY <1>2, <2>1
<1>10. CASE f = Matcher
    <2>1. Bars(47, f, t)
        BY <1>10, BannedTable DEF Bars
    <2>2. QED  BY <1>2, <2>1
<1>11. CASE f = Service
    <2>1. \/ Bars(26, f, t) \/ Bars(85, f, t) \/ Bars(86, f, t)
          \/ Bars(87, f, t) \/ Bars(88, f, t)
        BY <1>11, BannedTable DEF Bars
    <2>2. QED  BY <1>2, <2>1
<1>12. CASE f = Activity
    <2>1. Bars(52, f, t)
        BY <1>12, BannedTable DEF Bars
    <2>2. QED  BY <1>2, <2>1
<1>13. CASE f = VpnDart
    <2>1. Bars(82, f, t)
        BY <1>13, BannedTable DEF Bars
    <2>2. QED  BY <1>2, <2>1
<1>14. QED
    BY <1>1, <1>3, <1>4, <1>5, <1>6, <1>7, <1>8, <1>9, <1>10, <1>11, <1>12, <1>13

\* What more is found takes nothing away.
LEMMA CaughtGrows == \A f, t, F, G : Caught(f, t, F) /\ F \subseteq G => Caught(f, t, G)
BY DEF Caught

\* A finding about the token, or about the structure of its file.
LEMMA OneCatches ==
    ASSUME NEW id, NEW f, NEW t, NEW about, t \in about \/ about \intersect Structure # {}
    PROVE  Caught(f, t, {Finding(id, f, about)})
<1>1. t \in Holding({t})  BY DEF Holding
<1>2. QED  BY <1>1 DEF Caught, Finding

\* A ban on the token.
LEMMA BansCatch ==
    ASSUME NEW id, NEW f, NEW t, NEW text \in {Raw(f), Stripped(f)}, NEW T, t \in T,
           Standing(f, t)
    PROVE  Caught(f, t, Bans(id, f, text, T))
<1>1. t \in Stripped(f)  BY DEF Standing, Stripped, Holding
<1>2. t \in T \intersect text  BY <1>1, RawHoldsCode
<1>3. {Finding(id, f, {t})} \subseteq Bans(id, f, text, T)  BY <1>2 DEF Bans
<1>4. Caught(f, t, {Finding(id, f, {t})})  BY OneCatches
<1>5. QED  BY <1>3, <1>4, CaughtGrows

\* A check that reads its file finds what it searches for.
LEMMA GuardCatches ==
    ASSUME NEW id, NEW f, NEW t, NEW F, Standing(f, t), Caught(f, t, F)
    PROVE  Caught(f, t, Guarded(id, f, F)) /\ Caught(f, t, Unguarded(id, f, F))
BY DEF Standing, Guarded, Unguarded

\* Of two requirements in their order, the first that is missing is one of them.
LEMMA PairNamesOne ==
    ASSUME NEW id, NEW f, NEW text, NEW A, NEW B, FirstLack(id, f, text, <<A, B>>) # {}
    PROVE  FirstLack(id, f, text, <<A, B>>) \in {{Finding(id, f, A)}, {Finding(id, f, B)}}
<1> DEFINE groups == <<A, B>>
           failed == {i \in DOMAIN groups : groups[i] \intersect text = {}}
<1>1. failed # {} /\ FirstLack(id, f, text, groups) = {Finding(id, f, groups[Min(failed)])}
    BY DEF FirstLack
<1>2. failed \in SUBSET (1..5)  OBVIOUS
<1>3. Min(failed) \in failed  BY <1>1, <1>2, LeastExists
<1>4. groups[Min(failed)] = A \/ groups[Min(failed)] = B  BY <1>3
<1>5. QED  BY <1>1, <1>4

\* The check of a workflow reports the inputs of a dispatch, unless it reports
\* the structure of the file or ends the run.
LEMMA WorkflowCatches ==
    ASSUME NEW f \in {"ci.yml", "ios.yml", "android-release.yml"},
           Standing(f, "workflow_dispatch: inputs"), Abort \notin audit_workflow(f)
    PROVE  Caught(f, "workflow_dispatch: inputs", audit_workflow(f))
<1>1. PICK t : t = "workflow_dispatch: inputs"  OBVIOUS
<1>2. f # "android-debug.yml" /\ Standing(f, t)  BY <1>1
<1> DEFINE groups == <<{"on:"}, {"on: is a mapping"}>>
           shape == FirstLack("workflow", f, Stripped(f), groups)
           triggers == Lacks("workflow", f, Stripped(f),
                             {{"on: workflow_dispatch and no other"}})
           bans == Bans("workflow", f, Stripped(f), {t})
           found == IF shape # {} THEN shape
                    ELSE IF "comparable triggers" \notin Stripped(f) THEN {Abort}
                    ELSE triggers \union bans
<1>3. audit_workflow(f) = IF f \in gone THEN Missing("workflow", f)
          ELSE ParsedWorkflow("workflow", f, found)
    BY <1>1, <1>2 DEF audit_workflow
<1>4. Abort \in found \/ Caught(f, t, found)
    <2>1. CASE shape # {}
        <3>1. shape \in {{Finding("workflow", f, {"on:"})},
                         {Finding("workflow", f, {"on: is a mapping"})}}
            BY <2>1, PairNamesOne
        <3>2. /\ Caught(f, t, {Finding("workflow", f, {"on:"})})
              /\ Caught(f, t, {Finding("workflow", f, {"on: is a mapping"})})
            BY OneCatches DEF Structure
        <3>3. found = shape  BY <2>1
        <3>4. QED  BY <3>1, <3>2, <3>3
    <2>2. CASE shape = {} /\ "comparable triggers" \notin Stripped(f)
        BY <2>2
    <2>3. CASE shape = {} /\ "comparable triggers" \in Stripped(f)
        <3>1. Caught(f, t, bans)  BY <1>2, BansCatch
        <3>2. bans \subseteq found  BY <2>3
        <3>3. QED  BY <3>1, <3>2, CaughtGrows
    <2>4. QED  BY <2>1, <2>2, <2>3
<1>5. f \notin gone \union garbled  BY <1>2 DEF Standing
<1> HIDE DEF found
<1>6. CASE "valid yaml" \notin Stripped(f)
    <2>1. audit_workflow(f) = {Abort}  BY <1>3, <1>5, <1>6 DEF ParsedWorkflow
    <2>2. QED  BY <1>1, <2>1
<1>7. CASE "valid yaml" \in Stripped(f) /\ "one document" \notin Stripped(f)
    <2>1. audit_workflow(f) = {Finding("workflow", f, {"one document"})}
        BY <1>3, <1>5, <1>7 DEF ParsedWorkflow
    <2>2. Caught(f, t, {Finding("workflow", f, {"one document"})})
        BY OneCatches DEF Structure
    <2>3. QED  BY <1>1, <2>1, <2>2
<1>8. CASE "valid yaml" \in Stripped(f) /\ "one document" \in Stripped(f)
    <2>1. audit_workflow(f) \in {found, {Abort}}  BY <1>3, <1>5, <1>8 DEF ParsedWorkflow
    <2>2. audit_workflow(f) = found  BY <2>1
    <2>3. QED  BY <1>1, <1>4, <2>2
<1>9. QED  BY <1>6, <1>7, <1>8

\* The checks of the build report what they forbid, unless they end the run.
LEMMA BuildCatches ==
    ASSUME NEW f, NEW t, Standing(f, t)
    PROVE
    /\ f = "app/build.gradle.kts"
       /\ t \in {"kotlinOptions { jvmTarget = 17", "java.util.Properties()"}
           => Caught(f, t, check_app_build_gradle_syntax_v2)
    /\ f = "res/xml" /\ t = "-- inside a comment"
           => Caught(f, t, check_android_xml_comments_v5)
    /\ f = "AndroidManifest.xml"
       /\ t \in {"manifest package=", "tools:remove usesCleartextTraffic"}
       /\ Abort \notin check_android_manifest_v6
           => Caught(f, t, check_android_manifest_v6)
<1>1. ASSUME f = "app/build.gradle.kts",
             t \in {"kotlinOptions { jvmTarget = 17", "java.util.Properties()"}
      PROVE  Caught(f, t, check_app_build_gradle_syntax_v2)
    <2> DEFINE T == {"kotlinOptions { jvmTarget = 17", "java.util.Properties()"}
               bans == Bans("syntax", f, Stripped(f), T)
    <2>1. f = "app/build.gradle.kts" /\ t \in T  BY <1>1
    <2>2. Caught(f, t, bans)  BY <2>1, BansCatch
    <2>3. PICK F : /\ check_app_build_gradle_syntax_v2 = Unguarded("syntax", f, F)
                   /\ bans \subseteq F
        BY <2>1 DEF check_app_build_gradle_syntax_v2
    <2>4. Caught(f, t, F)  BY <2>2, <2>3, CaughtGrows
    <2>5. QED  BY <2>3, <2>4, GuardCatches
<1>2. ASSUME f = "res/xml", t = "-- inside a comment"
      PROVE  Caught(f, t, check_android_xml_comments_v5)
    <2>1. f = "res/xml" /\ t = "-- inside a comment"  BY <1>2
    <2>2. t \in Raw(f)  BY DEF Standing, Raw, Holding
    <2>3. check_android_xml_comments_v5 =
              Unguarded("S8", f, {Finding("S8", f, {"valid xml", "-- inside a comment"})})
        BY <2>1, <2>2 DEF check_android_xml_comments_v5
    <2>4. Caught(f, t, {Finding("S8", f, {"valid xml", "-- inside a comment"})})
        BY <2>1, OneCatches
    <2>5. QED  BY <2>3, <2>4, GuardCatches
<1>3. ASSUME f = "AndroidManifest.xml",
             t \in {"manifest package=", "tools:remove usesCleartextTraffic"},
             Abort \notin check_android_manifest_v6
      PROVE  Caught(f, t, check_android_manifest_v6)
    <2> DEFINE T == {"manifest package=", "tools:remove usesCleartextTraffic"}
               bans == Bans("S9", f, Stripped(f), T)
    <2>1. f = "AndroidManifest.xml" /\ t \in T  BY <1>3
    <2>2. Caught(f, t, bans)  BY <2>1, BansCatch
    <2>3. f \notin gone \union garbled /\ "known encoding" \in Stripped(f)
        BY <1>3, <2>1 DEF Standing, check_android_manifest_v6
    <2>4. CASE "valid xml" \notin Stripped(f)
        <3>1. check_android_manifest_v6 = {Finding("S9", f, {"valid xml"})}
            BY <2>1, <2>3, <2>4 DEF check_android_manifest_v6
        <3>2. Caught(f, t, {Finding("S9", f, {"valid xml"})})  BY OneCatches DEF Structure
        <3>3. QED  BY <3>1, <3>2
    <2>5. CASE "valid xml" \in Stripped(f)
        <3>1. bans \subseteq check_android_manifest_v6
            BY <2>1, <2>3, <2>5 DEF check_android_manifest_v6
        <3>2. QED  BY <2>2, <3>1, CaughtGrows
    <2>6. QED  BY <2>4, <2>5
<1>4. QED  BY <1>1, <1>2, <1>3

\* The checks of the native side do.
LEMMA NativeCatches ==
    ASSUME NEW f, NEW t, Standing(f, t)
    PROVE
    /\ f = Service /\ t = "TUN_MTU = 1500"
           => Caught(f, t, check_vpn_service_mtu_and_fragment_log_v31)
    /\ f = Activity /\ t = "a mock packet map"
           => Caught(f, t, check_main_activity_snapshot_call_v15)
    /\ f = Service /\ t = ".addRoute(TUN_ADDRESS"
           => Caught(f, t, check_vpn_service_addroute_bad_address_v23)
    /\ f = Service /\ t = "protect(Socket())"
           => Caught(f, t, check_vpn_service_tun_passthrough_v24)
    /\ f = Service /\ t = "more invokeMethod( than mainHandler.post {"
           => Caught(f, t, check_vpn_service_ui_thread_push_v26)
    /\ f = Service /\ t \in {"packetsObserved.incrementAndGet() twice",
              "packetsObserved.set( outside startCapture and stopCapture",
              "packetsObserved.set(packetsObserved.get() + 1"}
           => Caught(f, t, check_vpn_service_packets_observed_increment_invariant_v27)
<1>1. ASSUME f = Service, t = "TUN_MTU = 1500"
      PROVE  Caught(f, t, check_vpn_service_mtu_and_fragment_log_v31)
    <2> DEFINE bans == Bans("S87", f, Stripped(f), {"TUN_MTU = 1500"})
    <2>1. f = Service /\ t \in {"TUN_MTU = 1500"}  BY <1>1
    <2>2. Caught(f, t, bans)  BY <2>1, BansCatch
    <2>3. PICK F : check_vpn_service_mtu_and_fragment_log_v31 = Guarded("S87", f, F)
                   /\ bans \subseteq F
        BY <2>1 DEF check_vpn_service_mtu_and_fragment_log_v31
    <2>4. Caught(f, t, F)  BY <2>2, <2>3, CaughtGrows
    <2>5. QED  BY <2>3, <2>4, GuardCatches
<1>2. ASSUME f = Activity, t = "a mock packet map"
      PROVE  Caught(f, t, check_main_activity_snapshot_call_v15)
    <2> DEFINE bans == Bans("S46", f, Stripped(f), {"a mock packet map"})
    <2>1. f = Activity /\ t \in {"a mock packet map"}  BY <1>2
    <2>2. Caught(f, t, bans)  BY <2>1, BansCatch
    <2>3. PICK F : check_main_activity_snapshot_call_v15 = Guarded("S46", f, F)
                   /\ bans \subseteq F
        BY <2>1 DEF check_main_activity_snapshot_call_v15
    <2>4. Caught(f, t, F)  BY <2>2, <2>3, CaughtGrows
    <2>5. QED  BY <2>3, <2>4, GuardCatches
<1>3. ASSUME f = Service, t = ".addRoute(TUN_ADDRESS"
      PROVE  Caught(f, t, check_vpn_service_addroute_bad_address_v23)
    <2> DEFINE bans == Bans("S79", f, Stripped(f), {".addRoute(TUN_ADDRESS"})
    <2>1. f = Service /\ t \in {".addRoute(TUN_ADDRESS"}  BY <1>3
    <2>2. Caught(f, t, bans)  BY <2>1, BansCatch
    <2>3. PICK F : check_vpn_service_addroute_bad_address_v23 = Guarded("S79", f, F)
                   /\ bans \subseteq F
        BY <2>1 DEF check_vpn_service_addroute_bad_address_v23
    <2>4. Caught(f, t, F)  BY <2>2, <2>3, CaughtGrows
    <2>5. QED  BY <2>3, <2>4, GuardCatches
<1>4. ASSUME f = Service, t = "protect(Socket())"
      PROVE  Caught(f, t, check_vpn_service_tun_passthrough_v24)
    <2> DEFINE bans == Bans("S80", f, Stripped(f), {"protect(Socket())"})
    <2>1. f = Service /\ t \in {"protect(Socket())"}  BY <1>4
    <2>2. Caught(f, t, bans)  BY <2>1, BansCatch
    <2>3. PICK F : check_vpn_service_tun_passthrough_v24 = Guarded("S80", f, F)
                   /\ bans \subseteq F
        BY <2>1 DEF check_vpn_service_tun_passthrough_v24
    <2>4. Caught(f, t, F)  BY <2>2, <2>3, CaughtGrows
    <2>5. QED  BY <2>3, <2>4, GuardCatches
<1>5. ASSUME f = Service, t = "more invokeMethod( than mainHandler.post {"
      PROVE  Caught(f, t, check_vpn_service_ui_thread_push_v26)
    <2> DEFINE bans == Bans("S82", f, Stripped(f), {"more invokeMethod( than mainHandler.post {"})
    <2>1. f = Service /\ t \in {"more invokeMethod( than mainHandler.post {"}  BY <1>5
    <2>2. Caught(f, t, bans)  BY <2>1, BansCatch
    <2>3. PICK F : check_vpn_service_ui_thread_push_v26 = Guarded("S82", f, F)
                   /\ bans \subseteq F
        BY <2>1 DEF check_vpn_service_ui_thread_push_v26
    <2>4. Caught(f, t, F)  BY <2>2, <2>3, CaughtGrows
    <2>5. QED  BY <2>3, <2>4, GuardCatches
<1>6. ASSUME f = Service, t \in {"packetsObserved.incrementAndGet() twice",
              "packetsObserved.set( outside startCapture and stopCapture",
              "packetsObserved.set(packetsObserved.get() + 1"}
      PROVE  Caught(f, t, check_vpn_service_packets_observed_increment_invariant_v27)
    <2> DEFINE twice == "packetsObserved.incrementAndGet() twice"
               sets == {"packetsObserved.set( outside startCapture and stopCapture",
                        "packetsObserved.set(packetsObserved.get() + 1"}
               found == check_vpn_service_packets_observed_increment_invariant_v27
    <2>1. f = Service /\ t \in sets \union {twice}  BY <1>6
    <2>2. t \in Stripped(f)  BY DEF Standing, Stripped, Holding
    <2>3. CASE t = twice
        <3>1. PICK F : /\ found = Guarded("S84", f, F)
                       /\ Bans("S84", f, Stripped(f), {twice}) \subseteq F
            BY <2>1, <2>2, <2>3
               DEF check_vpn_service_packets_observed_increment_invariant_v27
        <3>2. Caught(f, t, Bans("S84", f, Stripped(f), {twice}))  BY <2>3, BansCatch
        <3>3. Caught(f, t, F)  BY <3>1, <3>2, CaughtGrows
        <3>4. QED  BY <3>1, <3>3, GuardCatches
    <2>4. CASE t \in sets
        <3>1. PICK F : /\ found = Guarded("S84", f, F)
                       /\ Bans("S84", f, Stripped(f), sets) \subseteq F
            BY <2>1 DEF check_vpn_service_packets_observed_increment_invariant_v27
        <3>2. Caught(f, t, Bans("S84", f, Stripped(f), sets))  BY <2>4, BansCatch
        <3>3. Caught(f, t, F)  BY <3>1, <3>2, CaughtGrows
        <3>4. QED  BY <3>1, <3>3, GuardCatches
    <2>5. QED  BY <2>1, <2>3, <2>4
<1>7. QED  BY <1>1, <1>2, <1>3, <1>4, <1>5, <1>6

\* The checks of the application do.
LEMMA AppCatches ==
    ASSUME NEW f, NEW t, Standing(f, t)
    PROVE
    /\ f \in {"main.dart"} \union Screens /\ t = "vpn"
           => Caught(f, t, check_no_vpn_string_in_sprint10_ui)
    /\ f \in {Screen} \union State /\ t \in MockTokens
           => Caught(f, t, check_dart_no_fake_ui_animation_v30)
    /\ f = Screen /\ t = "if (_orchestrator.sessionId == null) { return"
           => Caught(f, t, check_oturumu_bitir_2level_fallback_v32)
    /\ f = Matcher /\ t = "/api/v1/matches"
           => Caught(f, t, check_p2p_matcher_sessions_endpoint)
    /\ f = Screen /\ t = "Timer.periodic( and < 30"
           => Caught(f, t, check_active_pool_no_30_call_loop_v15)
    /\ f = VpnDart /\ t = "VpnService()"
           => Caught(f, t, check_vpn_service_dart_singleton_v20)
<1>1. ASSUME f \in {"main.dart"} \union Screens, t = "vpn"
      PROVE  Caught(f, t, check_no_vpn_string_in_sprint10_ui)
    <2> DEFINE bans == Bans("S25", f, Raw(f), {"vpn"})
    <2>1. f \in ({"main.dart"} \union Screens) \ (gone \union garbled) /\ t \in {"vpn"}
        BY <1>1 DEF Standing
    <2>2. Caught(f, t, bans)  BY <2>1, BansCatch
    <2>3. bans \subseteq check_no_vpn_string_in_sprint10_ui
        BY <2>1 DEF check_no_vpn_string_in_sprint10_ui
    <2>4. QED  BY <2>2, <2>3, CaughtGrows
<1>2. ASSUME f \in {Screen} \union State, t \in MockTokens
      PROVE  Caught(f, t, check_dart_no_fake_ui_animation_v30)
    <2> DEFINE bans == Bans("S86", f, Stripped(f), MockTokens)
    <2>1. f \in ({Screen} \union State) \ gone /\ t \in MockTokens
        BY <1>2 DEF Standing
    <2>2. Caught(f, t, Guarded("S86", f, bans))  BY <2>1, BansCatch, GuardCatches
    <2>3. Guarded("S86", f, bans) \subseteq check_dart_no_fake_ui_animation_v30
        BY <2>1 DEF check_dart_no_fake_ui_animation_v30
    <2>4. QED  BY <2>2, <2>3, CaughtGrows
<1>3. ASSUME f = Screen, t = "if (_orchestrator.sessionId == null) { return"
      PROVE  Caught(f, t, check_oturumu_bitir_2level_fallback_v32)
    <2> DEFINE T == {"if (_orchestrator.sessionId == null) { return"}
               bans == Bans("S88", f, Raw(f), T)
    <2>1. f = Screen /\ t \in T  BY <1>3
    <2>2. Caught(f, t, bans)  BY <2>1, BansCatch
    <2>3. PICK F : /\ Guarded("S88", f, F) \subseteq check_oturumu_bitir_2level_fallback_v32
                   /\ bans \subseteq F
        BY <2>1 DEF check_oturumu_bitir_2level_fallback_v32
    <2>4. Caught(f, t, F)  BY <2>2, <2>3, CaughtGrows
    <2>5. QED  BY <2>3, <2>4, GuardCatches, CaughtGrows
<1>4. ASSUME f = Matcher, t = "/api/v1/matches"
      PROVE  Caught(f, t, check_p2p_matcher_sessions_endpoint)
    <2> DEFINE bans == Bans("S41", f, Raw(f), {"/api/v1/matches"})
    <2>1. f = Matcher /\ f \notin gone \union garbled /\ t \in {"/api/v1/matches"}
        BY <1>4 DEF Standing
    <2>2. Caught(f, t, bans)  BY <2>1, BansCatch
    <2>3. bans \subseteq check_p2p_matcher_sessions_endpoint
        BY <2>1 DEF check_p2p_matcher_sessions_endpoint
    <2>4. QED  BY <2>2, <2>3, CaughtGrows
<1>5. ASSUME f = Screen, t = "Timer.periodic( and < 30"
      PROVE  Caught(f, t, check_active_pool_no_30_call_loop_v15)
    <2> DEFINE loop == {"< 30", "Timer.periodic"}
               ticks == {Finding("S51", f, loop)}
    <2>1. f = Screen /\ t = "Timer.periodic( and < 30"  BY <1>5
    <2>2. loop \subseteq Holding({t})  BY <2>1, PartAssumption
    <2>3. Holding({t}) \subseteq Raw(f)  BY DEF Standing, Raw, Holding
    <2>4. PICK F : /\ check_active_pool_no_30_call_loop_v15 = Guarded("S51", f, F)
                   /\ ticks \subseteq F
        BY <2>1, <2>2, <2>3 DEF check_active_pool_no_30_call_loop_v15
    <2>5. Caught(f, t, ticks)
        <3>1. PICK r : r = Finding("S51", f, loop)  OBVIOUS
        <3>2. r.file = f /\ r.about = loop  BY <3>1 DEF Finding
        <3>3. "< 30" \in r.about \intersect (Holding({t}) \union Structure)  BY <2>2, <3>2
        <3>4. r \in ticks  BY <3>1
        <3> HIDE DEF ticks, loop
        <3>5. QED  BY <3>2, <3>3, <3>4 DEF Caught
    <2> HIDE DEF ticks, loop
    <2>6. Caught(f, t, F)  BY <2>4, <2>5, CaughtGrows
    <2>7. QED  BY <2>4, <2>6, GuardCatches
<1>6. ASSUME f = VpnDart, t = "VpnService()"
      PROVE  Caught(f, t, check_vpn_service_dart_singleton_v20)
    <2> DEFINE bans == Bans("S76", f, Stripped(f), {"VpnService()"})
    <2>1. f = VpnDart /\ t \in {"VpnService()"}  BY <1>6
    <2>2. Caught(f, t, bans)  BY <2>1, BansCatch
    <2>3. PICK F : check_vpn_service_dart_singleton_v20 = Guarded("S76", f, F)
                   /\ bans \subseteq F
        BY <2>1 DEF check_vpn_service_dart_singleton_v20
    <2>4. Caught(f, t, F)  BY <2>2, <2>3, CaughtGrows
    <2>5. QED  BY <2>3, <2>4, GuardCatches
<1>7. QED  BY <1>1, <1>2, <1>3, <1>4, <1>5, <1>6

\* Where main runs the checks that forbid something.
LEMMA BarringChecks ==
    /\ Result(2) = audit_workflow(Workflows[2])
    /\ Result(3) = audit_workflow(Workflows[3])
    /\ Result(4) = audit_workflow(Workflows[4])
    /\ Result(8) = check_app_build_gradle_syntax_v2
    /\ Result(11) = check_android_xml_comments_v5
    /\ Result(12) = check_android_manifest_v6
    /\ Result(21) = check_no_vpn_string_in_sprint10_ui
    /\ Result(25) = check_dart_no_fake_ui_animation_v30
    /\ Result(26) = check_vpn_service_mtu_and_fragment_log_v31
    /\ Result(27) = check_oturumu_bitir_2level_fallback_v32
    /\ Result(47) = check_p2p_matcher_sessions_endpoint
    /\ Result(52) = check_main_activity_snapshot_call_v15
    /\ Result(57) = check_active_pool_no_30_call_loop_v15
    /\ Result(82) = check_vpn_service_dart_singleton_v20
    /\ Result(85) = check_vpn_service_addroute_bad_address_v23
    /\ Result(86) = check_vpn_service_tun_passthrough_v24
    /\ Result(87) = check_vpn_service_ui_thread_push_v26
    /\ Result(88) = check_vpn_service_packets_observed_increment_invariant_v27
<1>1. Result(2) = audit_workflow(Workflows[2])
    BY SMTT(60) DEF Result, SprintNine
<1>2. Result(3) = audit_workflow(Workflows[3])
    BY SMTT(60) DEF Result, SprintNine
<1>3. Result(4) = audit_workflow(Workflows[4])
    BY SMTT(60) DEF Result, SprintNine
<1>4. Result(8) = check_app_build_gradle_syntax_v2
    BY SMTT(60) DEF Result, SprintNine
<1>5. Result(11) = check_android_xml_comments_v5
    BY SMTT(60) DEF Result, SprintNine
<1>6. Result(12) = check_android_manifest_v6
    BY SMTT(60) DEF Result, SprintNine
<1>7. Result(21) = check_no_vpn_string_in_sprint10_ui
    BY SMTT(60) DEF Result, SprintTen
<1>8. Result(25) = check_dart_no_fake_ui_animation_v30
    BY SMTT(60) DEF Result, SprintTen
<1>9. Result(26) = check_vpn_service_mtu_and_fragment_log_v31
    BY SMTT(60) DEF Result, SprintTen
<1>10. Result(27) = check_oturumu_bitir_2level_fallback_v32
    BY SMTT(60) DEF Result, SprintTen
<1>11. Result(47) = check_p2p_matcher_sessions_endpoint
    BY SMTT(60) DEF Result, SprintTen
<1>12. Result(52) = check_main_activity_snapshot_call_v15
    BY SMTT(60) DEF Result, Milestones
<1>13. Result(57) = check_active_pool_no_30_call_loop_v15
    BY SMTT(60) DEF Result, Milestones
<1>14. Result(82) = check_vpn_service_dart_singleton_v20
    BY SMTT(60) DEF Result, Regressions
<1>15. Result(85) = check_vpn_service_addroute_bad_address_v23
    BY SMTT(60) DEF Result, Regressions
<1>16. Result(86) = check_vpn_service_tun_passthrough_v24
    BY SMTT(60) DEF Result, Regressions
<1>17. Result(87) = check_vpn_service_ui_thread_push_v26
    BY SMTT(60) DEF Result, Regressions
<1>18. Result(88) = check_vpn_service_packets_observed_increment_invariant_v27
    BY SMTT(60) DEF Result, Regressions
<1>19. QED
    BY <1>1, <1>2, <1>3, <1>4, <1>5, <1>6, <1>7, <1>8, <1>9, <1>10, <1>11, <1>12, <1>13, <1>14,
       <1>15, <1>16, <1>17, <1>18

\* A check that looks for a token finds it where it stands.
LEMMA BarsCatch ==
    ASSUME NEW i, NEW f, NEW t, Bars(i, f, t), Standing(f, t), Abort \notin Result(i)
    PROVE  Caught(f, t, Result(i))
<1>1. PICK F : F = Result(i)  OBVIOUS
<1>2. CASE i \in {2, 3, 4} /\ f = Workflows[i] /\ t = "workflow_dispatch: inputs"
    <2>1. f \in {"ci.yml", "ios.yml", "android-release.yml"}  BY <1>2, WorkflowNames
    <2>2. Result(i) = audit_workflow(f)  BY <1>2, BarringChecks
    <2>3. QED  BY <1>2, <2>1, <2>2, WorkflowCatches
<1>3. CASE i = 8 /\ f = "app/build.gradle.kts"
           /\ t \in {"kotlinOptions { jvmTarget = 17", "java.util.Properties()"}
    <2>1. Caught(f, t, check_app_build_gradle_syntax_v2)
        BY <1>3, BuildCatches
    <2>2. Result(i) = check_app_build_gradle_syntax_v2
        BY <1>3, BarringChecks
    <2>3. QED  BY <2>1, <2>2
<1>4. CASE i = 11 /\ f = "res/xml" /\ t = "-- inside a comment"
    <2>1. Caught(f, t, check_android_xml_comments_v5)
        BY <1>4, BuildCatches
    <2>2. Result(i) = check_android_xml_comments_v5
        BY <1>4, BarringChecks
    <2>3. QED  BY <2>1, <2>2
<1>5. CASE i = 12 /\ f = "AndroidManifest.xml"
           /\ t \in {"manifest package=", "tools:remove usesCleartextTraffic"}
    <2>1. Result(i) = check_android_manifest_v6
        BY <1>5, BarringChecks
    <2>2. Caught(f, t, check_android_manifest_v6)
        BY <1>5, <2>1, BuildCatches
    <2>3. QED  BY <2>1, <2>2
<1>6. CASE i = 21 /\ f \in {"main.dart"} \union Screens /\ t = "vpn"
    <2>1. Caught(f, t, check_no_vpn_string_in_sprint10_ui)
        BY <1>6, AppCatches
    <2>2. Result(i) = check_no_vpn_string_in_sprint10_ui
        BY <1>6, BarringChecks
    <2>3. QED  BY <2>1, <2>2
<1>7. CASE i = 25 /\ f \in {Screen} \union State /\ t \in MockTokens
    <2>1. Caught(f, t, check_dart_no_fake_ui_animation_v30)
        BY <1>7, AppCatches
    <2>2. Result(i) = check_dart_no_fake_ui_animation_v30
        BY <1>7, BarringChecks
    <2>3. QED  BY <2>1, <2>2
<1>8. CASE i = 26 /\ f = Service /\ t = "TUN_MTU = 1500"
    BY <1>8, NativeCatches, BarringChecks
<1>9. CASE i = 27 /\ f = Screen /\ t = "if (_orchestrator.sessionId == null) { return"
    <2>1. Caught(f, t, check_oturumu_bitir_2level_fallback_v32)
        BY <1>9, AppCatches
    <2>2. Result(i) = check_oturumu_bitir_2level_fallback_v32
        BY <1>9, BarringChecks
    <2>3. QED  BY <2>1, <2>2
<1>10. CASE i = 47 /\ f = Matcher /\ t = "/api/v1/matches"
    <2>1. Caught(f, t, check_p2p_matcher_sessions_endpoint)
        BY <1>10, AppCatches
    <2>2. Result(i) = check_p2p_matcher_sessions_endpoint
        BY <1>10, BarringChecks
    <2>3. QED  BY <2>1, <2>2
<1>11. CASE i = 52 /\ f = Activity /\ t = "a mock packet map"
    BY <1>11, NativeCatches, BarringChecks
<1>12. CASE i = 57 /\ f = Screen /\ t = "Timer.periodic( and < 30"
    <2>1. Caught(f, t, check_active_pool_no_30_call_loop_v15)
        BY <1>12, AppCatches
    <2>2. Result(i) = check_active_pool_no_30_call_loop_v15
        BY <1>12, BarringChecks
    <2>3. QED  BY <2>1, <2>2
<1>13. CASE i = 82 /\ f = VpnDart /\ t = "VpnService()"
    <2>1. Caught(f, t, check_vpn_service_dart_singleton_v20)
        BY <1>13, AppCatches
    <2>2. Result(i) = check_vpn_service_dart_singleton_v20
        BY <1>13, BarringChecks
    <2>3. QED  BY <2>1, <2>2
<1>14. CASE i = 85 /\ f = Service /\ t = ".addRoute(TUN_ADDRESS"
    BY <1>14, NativeCatches, BarringChecks
<1>15. CASE i = 86 /\ f = Service /\ t = "protect(Socket())"
    BY <1>15, NativeCatches, BarringChecks
<1>16. CASE i = 87 /\ f = Service /\ t = "more invokeMethod( than mainHandler.post {"
    BY <1>16, NativeCatches, BarringChecks
<1>17. CASE i = 88 /\ f = Service /\ t \in {"packetsObserved.incrementAndGet() twice",
              "packetsObserved.set( outside startCapture and stopCapture",
              "packetsObserved.set(packetsObserved.get() + 1"}
    <2>1. Caught(f, t, check_vpn_service_packets_observed_increment_invariant_v27)
        BY <1>17, NativeCatches
    <2>2. Result(i) = check_vpn_service_packets_observed_increment_invariant_v27
        BY <1>17, BarringChecks
    <2>3. QED  BY <2>1, <2>2
<1>18. QED
    BY <1>2, <1>3, <1>4, <1>5, <1>6, <1>7, <1>8, <1>9, <1>10, <1>11, <1>12, <1>13, <1>14,
       <1>15, <1>16, <1>17 DEF Bars

\* What the checks that ran forbid is in what they found.
CaughtInv ==
    \A f \in Files : \A t \in Banned(f) : \A i \in 1..NumChecks :
        step > i /\ Bars(i, f, t) /\ Standing(f, t) => Caught(f, t, findings)

\* Before the run begins no check ran, and in the run no file changes.
LEMMA CaughtInvHolds == Spec => []CaughtInv
<1>1. Init => CaughtInv  BY DEF Init, CaughtInv, NumChecks
<1>2. CaughtInv /\ [Next]_vars => CaughtInv'
    <2> SUFFICES ASSUME CaughtInv, [Next]_vars PROVE CaughtInv'  OBVIOUS
    <2>1. CASE Edit \/ Start
        <3>1. step' \in {0, 1}
            BY <2>1 DEF Edit, DeleteToken, CommentOut, AddBanned, MentionBanned, DeleteFile,
                        Garble, Editing, Start
        <3>2. QED  BY <3>1 DEF CaughtInv, NumChecks
    <2>2. CASE RunCheck
        <3>1. PICK F : F = Result(step)  OBVIOUS
        <3>2. /\ step \in 1..NumChecks /\ step' = step + 1 /\ Abort \notin F
              /\ findings' = findings \union F
              /\ gone' = gone /\ garbled' = garbled /\ code' = code
            BY <2>2, <3>1 DEF RunCheck
        <3>3. SUFFICES ASSUME NEW f \in Files, NEW t \in Banned(f), NEW i \in 1..NumChecks,
                              step' > i, Bars(i, f, t), Standing(f, t)'
                       PROVE  Caught(f, t, findings)'
            BY DEF CaughtInv
        <3>4. Standing(f, t)  BY <3>2, <3>3 DEF Standing
        <3>5. step > i \/ i = step  BY <3>2, <3>3 DEF NumChecks
        <3>6. Caught(f, t, findings) \/ Caught(f, t, F)
            <4>1. CASE step > i  BY <3>3, <3>4, <4>1 DEF CaughtInv
            <4>2. CASE i = step  BY <3>1, <3>2, <3>3, <3>4, <4>2, BarsCatch
            <4>3. QED  BY <3>5, <4>1, <4>2
        <3>7. Caught(f, t, findings \union F)  BY <3>6 DEF Caught
        <3>8. QED  BY <3>2, <3>7 DEF Caught
    <2>3. CASE Raise \/ Verdict \/ UNCHANGED vars
        <3>1. UNCHANGED <<findings, step, gone, garbled, code>>
            BY <2>3 DEF Raise, Verdict, vars
        <3>2. QED  BY <3>1 DEF CaughtInv, Standing, Caught
    <2>4. QED  BY <2>1, <2>2, <2>3 DEF Next, main
<1>3. QED  BY <1>1, <1>2, PTL DEF Spec

\* Wherever something forbidden stands in the code, and whatever else was edited,
\* a run that prints its findings names it, or the structure the file has lost.
THEOREM BannedIsNamed == Spec => []BannedIsReported
<1>1. Shape /\ CaughtInv /\ Finished => BannedIsReported
    <2> SUFFICES ASSUME Shape, CaughtInv, Finished, Done,
                        NEW f \in Files \ (gone \union garbled),
                        NEW t \in Banned(f) \intersect code[f]
                 PROVE  Caught(f, t, printed)
        BY DEF BannedIsReported, Caught, Printed
    <2>1. step = NumChecks + 1 /\ printed = findings
        BY DEF Shape, TypeOK, Finished
    <2>2. Standing(f, t)  BY DEF Standing
    <2>3. PICK i \in 1..NumChecks : Bars(i, f, t)  BY EveryBanHasACheck
    <2>4. step > i  BY <2>1 DEF NumChecks
    <2>5. QED  BY <2>1, <2>2, <2>3, <2>4 DEF CaughtInv
<1>2. QED  BY <1>1, ShapeHolds, CaughtInvHolds, FinishedHolds, PTL

-----------------------------------------------------------------------------
\* No repository passes.

\* The audit never ends with exit code 0.
NeverGreen == exit # "exit 0"

\* The screen can be read, and what is said somewhere in a screen that can be read.
ScreenReads == Screen \notin gone \union garbled
ScreenSays(t) == ScreenReads /\ t \in Raw(Screen)

\* What S25 bans from the screens is part of what S88 demands there.
LEMMA DemandIsBanned == ScreenSays("disconnectVpn") => ScreenSays("vpn")
<1> DEFINE T == code[Screen] \union notes[Screen]
<1>1. SUFFICES ASSUME "disconnectVpn" \in Holding(T)
               PROVE  "vpn" \in Holding(T)
    BY DEF ScreenSays, Raw
<1>2. PICK t \in T : /\ t \in DOMAIN Part \union {"disconnectVpn"}
                     /\ "disconnectVpn" \in Holding({t})
    BY <1>1 DEF Holding
<1>3. "vpn" \in Holding({t})  BY <1>2, PartAssumption
<1>4. QED  BY <1>2, <1>3 DEF Holding

\* S25 complains of the word, and S88 of its absence.
LEMMA ChecksClash ==
    /\ ScreenSays("vpn") => Result(21) # {}
    /\ ~ScreenSays("disconnectVpn") => Result(27) # {}
<1>1. ASSUME ScreenSays("vpn") PROVE Result(21) # {}
    <2> DEFINE bans == Bans("S25", Screen, Raw(Screen), {"vpn"})
    <2>1. Screen \in ({"main.dart"} \union Screens) \ (gone \union garbled)
        BY <1>1 DEF ScreenSays, ScreenReads, Screens
    <2>2. bans \subseteq check_no_vpn_string_in_sprint10_ui
        BY <2>1 DEF check_no_vpn_string_in_sprint10_ui
    <2>3. Finding("S25", Screen, {"vpn"}) \in bans  BY <1>1 DEF ScreenSays, Bans
    <2>4. QED  BY <2>2, <2>3, BarringChecks
<1>2. ASSUME ~ScreenSays("disconnectVpn") PROVE Result(27) # {}
    <2> DEFINE T == {".stop().timeout(", "TimeoutException", "opene2ee/permissions",
                     "disconnectVpn"}
               lacks == Lacks("S88", Screen, Raw(Screen), Each(T))
    <2>1. PICK F : /\ Guarded("S88", Screen, F) \subseteq check_oturumu_bitir_2level_fallback_v32
                   /\ lacks \subseteq F
        BY DEF check_oturumu_bitir_2level_fallback_v32
    <2>2. Guarded("S88", Screen, F) # {}
        <3>1. CASE ~ScreenReads  BY <3>1 DEF ScreenReads, Guarded, Missing
        <3>2. CASE ScreenReads
            <4>1. "disconnectVpn" \notin Raw(Screen)  BY <1>2, <3>2 DEF ScreenSays
            <4>2. {"disconnectVpn"} \in Each(T)  BY DEF Each
            <4>3. Finding("S88", Screen, {"disconnectVpn"}) \in lacks
                BY <4>1, <4>2 DEF Lacks
            <4>4. Guarded("S88", Screen, F) = F  BY <3>2 DEF ScreenReads, Guarded
            <4>5. QED  BY <2>1, <4>3, <4>4
        <3>3. QED  BY <3>1, <3>2
    <2>3. QED  BY <2>1, <2>2, BarringChecks
<1>3. QED  BY <1>1, <1>2

\* A check that ran on the screen has complained of it.
ClashInv ==
    /\ step > 21 /\ ScreenSays("vpn") => findings # {}
    /\ step > 27 /\ ~ScreenSays("disconnectVpn") => findings # {}

\* Once the run began no file changes, and no finding goes.
LEMMA ClashInvHolds == Spec => []ClashInv
<1>1. Init => ClashInv  BY DEF Init, ClashInv
<1>2. ClashInv /\ [Next]_vars => ClashInv'
    <2> SUFFICES ASSUME ClashInv, [Next]_vars PROVE ClashInv'  OBVIOUS
    <2>1. CASE Edit \/ Start
        <3>1. step' \in {0, 1}
            BY <2>1 DEF Edit, DeleteToken, CommentOut, AddBanned, MentionBanned, DeleteFile,
                        Garble, Editing, Start
        <3>2. QED  BY <3>1 DEF ClashInv
    <2>2. CASE RunCheck
        <3>1. PICK F : F = Result(step)  OBVIOUS
        <3>2. /\ step \in 1..NumChecks /\ step' = step + 1 /\ findings' = findings \union F
              /\ UNCHANGED repo
            BY <2>2, <3>1 DEF RunCheck, repo
        <3>3. \A t : ScreenSays(t)' = ScreenSays(t)
            BY <3>2 DEF ScreenSays, ScreenReads, Raw, repo
        <3>4. step' > 21 => step > 21 \/ step = 21  BY <3>2 DEF NumChecks
        <3>5. step' > 27 => step > 27 \/ step = 27  BY <3>2 DEF NumChecks
        <3>6. step = 21 /\ ScreenSays("vpn") => F # {}  BY <3>1, ChecksClash
        <3>7. step = 27 /\ ~ScreenSays("disconnectVpn") => F # {}  BY <3>1, ChecksClash
        <3>8. findings # {} \/ F # {} => findings' # {}  BY <3>2
        <3>9. QED  BY <3>3, <3>4, <3>5, <3>6, <3>7, <3>8 DEF ClashInv
    <2>3. CASE Raise \/ Verdict \/ UNCHANGED vars
        <3>1. UNCHANGED <<findings, step, gone, garbled, code, notes>>
            BY <2>3 DEF Raise, Verdict, vars
        <3>2. QED  BY <3>1 DEF ClashInv, ScreenSays, ScreenReads, Raw
    <2>4. QED  BY <2>1, <2>2, <2>3 DEF Next, main
<1>3. QED  BY <1>1, <1>2, PTL DEF Spec

\* Whatever a repository holds and however often it is edited, main of the audit does not return
\* 0 on it: S88 asks for disconnectVpn in active_pool_screen.dart, S25 complains of the letters
\* vpn there, in any case and in comments too, and S88 of a screen it cannot read.
THEOREM NoRepositoryPasses == Spec => []NeverGreen
<1>1. Shape /\ Finished /\ ClashInv => NeverGreen
    <2>1. NumChecks + 1 > 21 /\ NumChecks + 1 > 27  BY DEF NumChecks
    <2>2. SUFFICES ASSUME Shape, Finished, ClashInv, exit = "exit 0"
                   PROVE  FALSE
        BY DEF NeverGreen
    <2>3. Done /\ printed = findings /\ printed = {}  BY <2>2 DEF Shape, TypeOK, Done
    <2>4. step = NumChecks + 1  BY <2>2, <2>3 DEF Finished
    <2>5. step > 21 /\ step > 27  BY <2>1, <2>4
    <2>6. findings = {}  BY <2>3
    <2>7. QED  BY <2>2, <2>5, <2>6, DemandIsBanned DEF ClashInv
<1>2. QED  BY <1>1, ShapeHolds, FinishedHolds, ClashInvHolds, PTL
=============================================================================
