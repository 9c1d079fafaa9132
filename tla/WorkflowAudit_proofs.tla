------------------------ MODULE WorkflowAudit_proofs ------------------------
(***************************************************************************)
(* Proofs about WorkflowAudit, for any repository, whatever it is made of  *)
(* and however often it was edited before the audit runs.                  *)
(***************************************************************************)
EXTENDS WorkflowAudit, TLAPS

-----------------------------------------------------------------------------
\* What a check returns.

\* An entry of the findings list.
Entry(r) == r.check # "exception" /\ r.about # {} /\ ~PassedOver(r.file)

\* What ends a run with a traceback.
Culprit ==
    \/ garbled \intersect Undecoded # {}
    \/ \E g \in TakenForGranted : g[2] \notin Stripped(g[1])

\* A check returns entries, or an exception that has a culprit.
Entries(F) == \A r \in F : Entry(r)
Proper(F)  == \A r \in F : Entry(r) \/ (r = Abort /\ Culprit)

\* A finding about something is an entry.
LEMMA FindingIsEntry ==
    ASSUME NEW id, id # "exception", NEW f, ~PassedOver(f), NEW about, about # {}
    PROVE  Entry(Finding(id, f, about))
BY DEF Entry, Finding

\* Entries are proper, and the union of what is proper is.
LEMMA EntriesAreProper ==
    ASSUME NEW F, Entries(F)
    PROVE  Proper(F)
BY DEF Entries, Proper

\* No finding at all is proper.
LEMMA NoneIsProper == Entries({}) /\ Proper({})
BY DEF Entries, Proper

\* What two parts of a check return together is proper when each part is.
LEMMA UnionIsProper ==
    ASSUME NEW F, NEW G
    PROVE  /\ Proper(F) /\ Proper(G) => Proper(F \union G)
           /\ Entries(F) /\ Entries(G) => Entries(F \union G)
BY DEF Entries, Proper

\* One finding about something.
LEMMA OneIsEntry ==
    ASSUME NEW id, id # "exception", NEW f, ~PassedOver(f), NEW about, about # {}
    PROVE  Entries({Finding(id, f, about)}) /\ Proper({Finding(id, f, about)})
BY FindingIsEntry DEF Entries, Proper

\* An exception with a culprit.
LEMMA AbortIsProper == Culprit => Proper({Abort})
BY DEF Proper

\* One requirement per token asks for something.
LEMMA EachAsks == \A T : {} \notin Each(T)
BY DEF Each

\* What is missed of groups that ask for something.
LEMMA LacksEntries ==
    ASSUME NEW id, id # "exception", NEW f, ~PassedOver(f), NEW text, NEW groups, {} \notin groups
    PROVE  Entries(Lacks(id, f, text, groups)) /\ Proper(Lacks(id, f, text, groups))
<1>1. ASSUME NEW r \in Lacks(id, f, text, groups) PROVE Entry(r)
    <2>1. PICK g \in groups : r = Finding(id, f, g)  BY DEF Lacks
    <2>2. g # {}  BY <2>1
    <2>3. QED  BY <2>1, <2>2, FindingIsEntry
<1>2. QED  BY <1>1 DEF Entries, Proper

\* What is missed of a set of tokens.
LEMMA LacksEachEntries ==
    ASSUME NEW id, id # "exception", NEW f, ~PassedOver(f), NEW text, NEW T
    PROVE  Entries(Lacks(id, f, text, Each(T))) /\ Proper(Lacks(id, f, text, Each(T)))
BY EachAsks, LacksEntries

\* What stands there and is forbidden.
LEMMA BansEntries ==
    ASSUME NEW id, id # "exception", NEW f, ~PassedOver(f), NEW text, NEW T
    PROVE  Entries(Bans(id, f, text, T)) /\ Proper(Bans(id, f, text, T))
<1>1. ASSUME NEW r \in Bans(id, f, text, T) PROVE Entry(r)
    <2>1. PICK t \in T : r = Finding(id, f, {t})  BY DEF Bans
    <2>2. QED  BY <2>1, FindingIsEntry
<1>2. QED  BY <1>1 DEF Entries, Proper

\* A few numbers have a least one.
LEMMA LeastExists ==
    ASSUME NEW S \in SUBSET (1..5), S # {}
    PROVE  Min(S) \in S
<1>1. \E x \in S : \A y \in S : x <= y
    <2>1. CASE 1 \in S  BY <2>1
    <2>2. CASE 1 \notin S /\ 2 \in S  BY <2>2
    <2>3. CASE 1 \notin S /\ 2 \notin S /\ 3 \in S  BY <2>3
    <2>4. CASE 1 \notin S /\ 2 \notin S /\ 3 \notin S /\ 4 \in S  BY <2>4
    <2>5. CASE 1 \notin S /\ 2 \notin S /\ 3 \notin S /\ 4 \notin S
        <3>1. \A x \in S : x = 5  BY <2>5
        <3>2. 5 \in S  BY <3>1
        <3>3. QED  BY <3>1, <3>2
    <2>6. QED  BY <2>1, <2>2, <2>3, <2>4, <2>5
<1>2. QED  BY <1>1 DEF Min

\* The first requirement of a series that the text fails.
LEMMA FirstLackEntries ==
    ASSUME NEW id, id # "exception", NEW f, ~PassedOver(f), NEW text, NEW groups,
           DOMAIN groups \subseteq 1..5, \A i \in DOMAIN groups : groups[i] # {}
    PROVE  Entries(FirstLack(id, f, text, groups)) /\ Proper(FirstLack(id, f, text, groups))
<1> DEFINE failed == {i \in DOMAIN groups : groups[i] \intersect text = {}}
<1>1. CASE failed = {}
    <2>1. FirstLack(id, f, text, groups) = {}  BY <1>1 DEF FirstLack
    <2>2. QED  BY <2>1, NoneIsProper
<1>2. CASE failed # {}
    <2>1. FirstLack(id, f, text, groups) = {Finding(id, f, groups[Min(failed)])}
        BY <1>2 DEF FirstLack
    <2>2. failed \in SUBSET (1..5)  OBVIOUS
    <2>3. Min(failed) \in failed  BY <1>2, <2>2, LeastExists
    <2>4. groups[Min(failed)] # {}  BY <2>3
    <2>5. QED  BY <2>1, <2>4, OneIsEntry
<1>3. QED  BY <1>1, <1>2

\* A series of one requirement.
LEMMA SeriesOfOne ==
    ASSUME NEW id, id # "exception", NEW f, ~PassedOver(f), NEW text,
           NEW A, A # {}
    PROVE  /\ Entries(FirstLack(id, f, text, <<A>>))
           /\ Proper(FirstLack(id, f, text, <<A>>))
<1> DEFINE groups == <<A>>
<1>1. DOMAIN groups \subseteq 1..5 /\ \A i \in DOMAIN groups : groups[i] # {}
    OBVIOUS
<1>2. QED  BY <1>1, FirstLackEntries

\* A series of two requirements.
LEMMA SeriesOfTwo ==
    ASSUME NEW id, id # "exception", NEW f, ~PassedOver(f), NEW text,
           NEW A, A # {}, NEW B, B # {}
    PROVE  /\ Entries(FirstLack(id, f, text, <<A, B>>))
           /\ Proper(FirstLack(id, f, text, <<A, B>>))
<1> DEFINE groups == <<A, B>>
<1>1. DOMAIN groups \subseteq 1..5 /\ \A i \in DOMAIN groups : groups[i] # {}
    OBVIOUS
<1>2. QED  BY <1>1, FirstLackEntries

\* A series of three requirements.
LEMMA SeriesOfThree ==
    ASSUME NEW id, id # "exception", NEW f, ~PassedOver(f), NEW text,
           NEW A, A # {}, NEW B, B # {}, NEW C, C # {}
    PROVE  /\ Entries(FirstLack(id, f, text, <<A, B, C>>))
           /\ Proper(FirstLack(id, f, text, <<A, B, C>>))
<1> DEFINE groups == <<A, B, C>>
<1>1. DOMAIN groups \subseteq 1..5 /\ \A i \in DOMAIN groups : groups[i] # {}
    OBVIOUS
<1>2. QED  BY <1>1, FirstLackEntries

\* A series of four requirements.
LEMMA SeriesOfFour ==
    ASSUME NEW id, id # "exception", NEW f, ~PassedOver(f), NEW text,
           NEW A, A # {}, NEW B, B # {}, NEW C, C # {}, NEW D, D # {}
    PROVE  /\ Entries(FirstLack(id, f, text, <<A, B, C, D>>))
           /\ Proper(FirstLack(id, f, text, <<A, B, C, D>>))
<1> DEFINE groups == <<A, B, C, D>>
<1>1. DOMAIN groups \subseteq 1..5 /\ \A i \in DOMAIN groups : groups[i] # {}
    OBVIOUS
<1>2. QED  BY <1>1, FirstLackEntries

\* A series of five requirements.
LEMMA SeriesOfFive ==
    ASSUME NEW id, id # "exception", NEW f, ~PassedOver(f), NEW text,
           NEW A, A # {}, NEW B, B # {}, NEW C, C # {}, NEW D, D # {}, NEW E, E # {}
    PROVE  /\ Entries(FirstLack(id, f, text, <<A, B, C, D, E>>))
           /\ Proper(FirstLack(id, f, text, <<A, B, C, D, E>>))
<1> DEFINE groups == <<A, B, C, D, E>>
<1>1. DOMAIN groups \subseteq 1..5 /\ \A i \in DOMAIN groups : groups[i] # {}
    OBVIOUS
<1>2. QED  BY <1>1, FirstLackEntries

\* Several findings reported as one.
LEMMA AsOneEntries ==
    ASSUME NEW id, id # "exception", NEW f, ~PassedOver(f), NEW F, Entries(F)
    PROVE  Entries(AsOne(id, f, F)) /\ Proper(AsOne(id, f, F))
<1>1. CASE F = {}  BY <1>1, NoneIsProper DEF AsOne
<1>2. CASE F # {}
    <2>1. PICK r \in F : r.about # {}  BY <1>2 DEF Entries, Entry
    <2>2. UNION {q.about : q \in F} # {}  BY <2>1
    <2> DEFINE all == UNION {q.about : q \in F}
    <2>3. AsOne(id, f, F) = {Finding(id, f, all)}  BY <1>2 DEF AsOne
    <2>4. all # {}  BY <2>2
    <2> HIDE DEF all
    <2>5. QED  BY <2>3, <2>4, OneIsEntry
<1>3. QED  BY <1>1, <1>2

\* A missing file is an entry.
LEMMA MissingEntries ==
    ASSUME NEW id, id # "exception", NEW f, ~PassedOver(f)
    PROVE  Entries(Missing(id, f)) /\ Proper(Missing(id, f))
BY OneIsEntry DEF Missing

\* A check that catches every error of reading its file.
LEMMA GuardedIsProper ==
    ASSUME NEW id, id # "exception", NEW f, ~PassedOver(f), NEW F, Proper(F)
    PROVE  Proper(Guarded(id, f, F))
BY OneIsEntry, MissingEntries DEF Guarded

\* No check passes over a file that ends a run when it cannot be decoded.
LEMMA UndecodedAsked == \A f \in Undecoded : ~PassedOver(f)
BY DEF Undecoded, Workflows, PassedOver, OtherScreens, OtherState

\* A check that does not, on one of the files that can end a run.
LEMMA UnguardedIsProper ==
    ASSUME NEW id, id # "exception", NEW f \in Undecoded, NEW F, Proper(F)
    PROVE  Proper(Unguarded(id, f, F))
<1>1. f \in garbled => Culprit  BY DEF Culprit
<1>2. QED  BY <1>1, UndecodedAsked, MissingEntries, AbortIsProper DEF Unguarded

\* What is taken for granted of a file and is not so is a culprit.
LEMMA NotGranted ==
    ASSUME NEW f, NEW t, <<f, t>> \in TakenForGranted, t \notin Stripped(f)
    PROVE  Culprit /\ Proper({Abort})
<1>1. <<f, t>>[1] = f /\ <<f, t>>[2] = t  OBVIOUS
<1>2. Culprit  BY <1>1 DEF Culprit
<1>3. QED  BY <1>2, AbortIsProper

\* What a loader makes of one of the files it can end a run on.
LEMMA LoadedIsProper ==
    ASSUME NEW f, <<f, "constructible scalars">> \in TakenForGranted, NEW syntax,
           NEW F, Proper(F)
    PROVE  Proper(Loaded(f, syntax, F))
BY NotGranted DEF Loaded

\* What is taken for granted of which file.
LEMMA Granted ==
    /\ \A i \in 1..4 : /\ <<Workflows[i], "valid yaml">> \in TakenForGranted
                        /\ <<Workflows[i], "top-level mapping">> \in TakenForGranted
                        /\ <<Workflows[i], "comparable triggers">> \in TakenForGranted
    /\ <<"android-debug.yml", "jobs is a mapping">> \in TakenForGranted
    /\ <<"android-debug.yml", "steps to walk">> \in TakenForGranted
    /\ <<"pubspec.yaml", "constructible scalars">> \in TakenForGranted
    /\ <<"pubspec.lock", "constructible scalars">> \in TakenForGranted
    /\ <<".flutter-plugins-dependencies", "constructible scalars">> \in TakenForGranted
    /\ <<"AndroidManifest.xml", "known encoding">> \in TakenForGranted
    /\ <<"styles.xml", "known encoding">> \in TakenForGranted
BY DEF TakenForGranted

\* The raw text of a file searched for groups of alternatives.
LEMMA RequiresIsProper ==
    ASSUME NEW id, id # "exception", NEW f, ~PassedOver(f), NEW groups, {} \notin groups
    PROVE  Proper(Requires(id, f, groups)) /\ Proper(RequiresAll(id, f, groups))
BY GuardedIsProper, LacksEntries, AsOneEntries DEF Requires, RequiresAll

\* ... and for a set of tokens.
LEMMA RequiresEachIsProper ==
    ASSUME NEW id, id # "exception", NEW f, ~PassedOver(f), NEW T
    PROVE  Proper(Requires(id, f, Each(T))) /\ Proper(RequiresAll(id, f, Each(T)))
BY EachAsks, RequiresIsProper

\* What a check says of two files it says of neither of them.
LEMMA ServicesAsked == ~PassedOver("services")
BY DEF PassedOver, OtherScreens, OtherState

\* A token that one of two files has to hold.
LEMMA RequiresInIsProper ==
    ASSUME NEW id, id # "exception", NEW files, NEW token
    PROVE  Proper(RequiresIn(id, files, token))
BY ServicesAsked, OneIsEntry, NoneIsProper DEF RequiresIn

\* The documents of a workflow: what stops the parser is a culprit.
LEMMA ParsedIsProper ==
    ASSUME NEW id, id # "exception", NEW i \in 1..4, NEW F, Proper(F)
    PROVE  Proper(ParsedWorkflow(id, Workflows[i], F))
<1> DEFINE f == Workflows[i]
<1>1. f \in Undecoded  BY DEF Undecoded
<1>2. f \in garbled => Proper({Abort})  BY <1>1, AbortIsProper DEF Culprit
<1>3. /\ "valid yaml" \notin Stripped(f) => Proper({Abort})
      /\ "top-level mapping" \notin Stripped(f) => Proper({Abort})
    BY Granted, NotGranted
<1>4. Proper({Finding(id, f, {"one document"})})  BY <1>1, UndecodedAsked, OneIsEntry
<1> HIDE DEF f
<1>5. Proper(ParsedWorkflow(id, f, F))  BY <1>2, <1>3, <1>4 DEF ParsedWorkflow
<1>6. QED  BY <1>5 DEF f

\* The steps of the one workflow whose jobs are looked at.
LEMMA StepsAreProper == Proper(DebugSteps("android-debug.yml"))
<1> DEFINE f == "android-debug.yml"
           steps == {"uses: subosito/flutter-action", "with: flutter-version",
                     "Generate local.properties from which flutter",
                     "Verify Flutter SDK path flutter_tools/gradle"}
<1>1. f = Workflows[1] /\ f \in Undecoded  BY DEF Workflows, Undecoded
<1>2. /\ "jobs is a mapping" \notin Stripped(f) => Proper({Abort})
      /\ "steps to walk" \notin Stripped(f) => Proper({Abort})
    BY Granted, NotGranted
<1>3. Proper(Lacks("workflow", f, Stripped(f), Each(steps)))
    BY <1>1, UndecodedAsked, LacksEachEntries
<1>4. QED  BY <1>2, <1>3, NoneIsProper DEF DebugSteps

\* No check passes over the files that it asks for by name, those of the build,
LEMMA BuildAsked ==
    /\ ~PassedOver("gradle-wrapper.properties")
    /\ ~PassedOver("build.gradle.kts")
    /\ ~PassedOver("app/build.gradle.kts")
    /\ ~PassedOver("android-debug.yml")
    /\ ~PassedOver("main.dart")
    /\ ~PassedOver("pubspec.yaml")
    /\ ~PassedOver("res/xml")
    /\ ~PassedOver("AndroidManifest.xml")
    /\ ~PassedOver("styles.xml")
    /\ ~PassedOver("res")
    /\ ~PassedOver("launch_background.xml")
    /\ ~PassedOver(".flutter-plugins-dependencies")
    /\ ~PassedOver("engine.version")
    /\ ~PassedOver("settings.gradle.kts")
    /\ ~PassedOver("git")
    /\ ~PassedOver(".gitignore")
    /\ ~PassedOver("pubspec.lock")
BY DEF PassedOver, OtherScreens, OtherState

\* ... of the native side,
LEMMA NativeAsked ==
    /\ ~PassedOver(Service)
    /\ ~PassedOver(Activity)
    /\ ~PassedOver(Netty)
    /\ ~PassedOver("app/build.gradle.kts")
    /\ ~PassedOver("AndroidManifest.xml")
BY DEF PassedOver, OtherScreens, OtherState, Service, Activity, Netty

\* ... and of the application.
LEMMA AppAsked ==
    /\ ~PassedOver(Screen)
    /\ ~PassedOver(TaskScreen)
    /\ ~PassedOver(Scores)
    /\ ~PassedOver(Pool)
    /\ ~PassedOver(Deeplink)
    /\ ~PassedOver(Orchestrator)
    /\ ~PassedOver(Telemetry)
    /\ ~PassedOver(Matcher)
    /\ ~PassedOver(AuthService)
    /\ ~PassedOver(Calculator)
    /\ ~PassedOver(Rtc)
    /\ ~PassedOver(VpnDart)
    /\ ~PassedOver("AndroidManifest.xml")
    /\ ~PassedOver("MainActivity.kt")
    /\ ~PassedOver("OpenE2eeVpnService.kt")
    /\ ~PassedOver("packet_parser.dart")
    /\ ~PassedOver("router.go")
    /\ ~PassedOver("sessions.go")
    /\ ~PassedOver("score_calculator_test.dart")
    /\ ~PassedOver("pubspec.yaml")
BY DEF PassedOver, OtherScreens, OtherState, Screen, TaskScreen, Scores, Pool, Deeplink,
       Orchestrator, Telemetry, Matcher, AuthService, Calculator, Rtc, VpnDart

\* Every check on the build returns entries, or an exception that has a culprit.
LEMMA BuildIsProper ==
    /\ \A i \in 1..4 : Proper(audit_workflow(Workflows[i]))
    /\ Proper(check_gradle_wrapper_version)
    /\ Proper(check_agp_version)
    /\ Proper(check_kotlin_version)
    /\ Proper(check_app_build_gradle_syntax_v2)
    /\ Proper(check_android_debug_workflow_v3)
    /\ Proper(check_mobile_entry_point_v4)
    /\ Proper(check_android_xml_comments_v5)
    /\ Proper(check_android_manifest_v6)
    /\ Proper(check_android_res_skeleton_v7)
    /\ Proper(check_flutter_plugins_dependencies_v8)
    /\ Proper(check_flutter_kotlin_embedding_v9)
    /\ Proper(check_flutter_storage_repo_v10)
    /\ Proper(check_gradle_wrapper_force_include)
    /\ Proper(check_fresh_flutter_create_preserved)
    /\ Proper(check_fresh_create_metadata_tracked)
    /\ Proper(check_pubspec_baseline_shape)
<1>1. \A i \in 1..4 : Proper(audit_workflow(Workflows[i]))
    <2> SUFFICES ASSUME NEW i \in 1..4 PROVE Proper(audit_workflow(Workflows[i]))  OBVIOUS
    <2> DEFINE f == Workflows[i]
               text == Stripped(f)
               shape == FirstLack("workflow", f, text, <<{"on:"}, {"on: is a mapping"}>>)
               triggers == Lacks("workflow", f, text, {{"on: workflow_dispatch and no other"}})
               body == IF f = "android-debug.yml" THEN DebugSteps(f)
                       ELSE Bans("workflow", f, text, {"workflow_dispatch: inputs"})
               all == IF shape # {} THEN shape
                      ELSE IF "comparable triggers" \notin text THEN {Abort}
                      ELSE triggers \union body
    <2>1. ~PassedOver(f)  BY UndecodedAsked DEF Undecoded
    <2>2. Proper(Missing("workflow", f))  BY <2>1, MissingEntries
    <2>3. Proper(shape)  BY <2>1, SeriesOfTwo
    <2>4. Proper(triggers)  BY <2>1, LacksEntries
    <2>5. Proper(body)  BY <2>1, StepsAreProper, BansEntries
    <2>6. "comparable triggers" \notin text => Proper({Abort})  BY Granted, NotGranted
    <2>7. audit_workflow(f) = IF f \in gone THEN Missing("workflow", f)
                              ELSE ParsedWorkflow("workflow", f, all)
        BY DEF audit_workflow
    <2> HIDE DEF shape, triggers, body
    <2>8. Proper(all)  BY <2>3, <2>4, <2>5, <2>6, UnionIsProper
    <2> HIDE DEF all
    <2>9. Proper(ParsedWorkflow("workflow", f, all))  BY <2>8, ParsedIsProper
    <2>10. QED  BY <2>2, <2>7, <2>9
<1>2. Proper(check_gradle_wrapper_version)
    BY BuildAsked, UnguardedIsProper, SeriesOfTwo DEF check_gradle_wrapper_version, Undecoded
<1>3. Proper(check_agp_version)
    BY BuildAsked, UnguardedIsProper, SeriesOfTwo DEF check_agp_version, Undecoded
<1>4. Proper(check_kotlin_version)
    BY BuildAsked, UnguardedIsProper, SeriesOfTwo DEF check_kotlin_version, Undecoded
<1>5. Proper(check_app_build_gradle_syntax_v2)
    BY BuildAsked, UnguardedIsProper, LacksEachEntries, BansEntries, UnionIsProper DEF
       check_app_build_gradle_syntax_v2, Undecoded
<1>6. Proper(check_android_debug_workflow_v3)
    <2> DEFINE f == "android-debug.yml"
               text == Stripped(f)
               install == "Install Flutter dependencies: flutter pub get"
               lack == FirstLack("S6", f, text, <<{install}, {"working-directory: ./mobile"}>>)
               walk == IF install \notin text /\ "a job" \in text /\ "steps to walk" \notin text
                       THEN {Abort} ELSE lack
               all == IF "jobs is a mapping" \notin text THEN {Abort} ELSE walk
    <2>1. f = Workflows[1]  BY DEF Workflows
    <2>2. Proper(Missing("S6", f)) /\ Proper(lack)  BY BuildAsked, MissingEntries, SeriesOfTwo
    <2>3. /\ "steps to walk" \notin text => Proper({Abort})
          /\ "jobs is a mapping" \notin text => Proper({Abort})
        BY Granted, NotGranted
    <2>4. check_android_debug_workflow_v3 =
              IF f \in gone THEN Missing("S6", f) ELSE ParsedWorkflow("S6", f, all)
        BY DEF check_android_debug_workflow_v3
    <2> HIDE DEF lack
    <2>5. Proper(all)  BY <2>2, <2>3
    <2> HIDE DEF all
    <2>6. Proper(ParsedWorkflow("S6", Workflows[1], all))  BY <2>5, ParsedIsProper
    <2>7. QED  BY <2>1, <2>2, <2>4, <2>6
<1>7. Proper(check_mobile_entry_point_v4)
    <2> DEFINE pub == "pubspec.yaml"
               calls == Lacks("S7", "main.dart", Raw("main.dart"),
                              Each({"runApp(", "ProviderScope"}))
               shape == FirstLack("S7", pub, Stripped(pub),
                            <<{"valid yaml"}, {"top-level mapping"}>>)
               deps == Lacks("S7", pub, Stripped(pub), Each({"flutter_riverpod", "go_router"}))
               all == IF shape # {} THEN shape ELSE deps
               inner == Unguarded("S7", pub, Loaded(pub, "valid yaml", all))
    <2>1. Proper(calls) /\ Proper(shape) /\ Proper(deps)
        BY BuildAsked, LacksEachEntries, SeriesOfTwo
    <2>2. check_mobile_entry_point_v4 = Unguarded("S7", "main.dart", calls \union inner)
        BY DEF check_mobile_entry_point_v4
    <2>3. pub \in Undecoded /\ "main.dart" \in Undecoded  BY DEF Undecoded
    <2> HIDE DEF calls, shape, deps
    <2>4. Proper(all)  BY <2>1
    <2> HIDE DEF all
    <2>5. Proper(Loaded(pub, "valid yaml", all))  BY <2>4, Granted, LoadedIsProper
    <2>6. Proper(inner)  BY <2>3, <2>5, UnguardedIsProper
    <2> HIDE DEF inner
    <2>7. Proper(calls \union inner)  BY <2>1, <2>6, UnionIsProper
    <2>8. QED  BY <2>2, <2>3, <2>7, UnguardedIsProper
<1>8. Proper(check_android_xml_comments_v5)
    BY BuildAsked, UnguardedIsProper, OneIsEntry, NoneIsProper DEF check_android_xml_comments_v5,
       Undecoded
<1>9. Proper(check_android_manifest_v6)
    <2> DEFINE f == "AndroidManifest.xml"
               app == "app/build.gradle.kts"
               bans == Bans("S9", f, Stripped(f),
                           {"manifest package=", "tools:remove usesCleartextTraffic"})
               needs == Lacks("S9", f, Raw(f), {{"xmlns:tools="}})
               namespace == Lacks("S9", app, Raw(app), {{"namespace = com.opene2ee.opene2ee"}})
    <2>1. Proper(bans) /\ Proper(needs) /\ Proper(namespace)
        BY BuildAsked, LacksEntries, BansEntries
    <2>2. Proper(Unguarded("S9", app, namespace))
        <3>1. app \in Undecoded  BY DEF Undecoded
        <3>2. QED  BY <2>1, <3>1, UnguardedIsProper
    <2>3. /\ "known encoding" \notin Stripped(f) => Proper({Abort})
          /\ f \in garbled => Proper({Abort})
        BY Granted, NotGranted, AbortIsProper DEF Culprit, Undecoded
    <2>4. Proper({Finding("S9", f, {"valid xml"})}) /\ Proper(Missing("S9", f))
        BY BuildAsked, OneIsEntry, MissingEntries
    <2>5. check_android_manifest_v6 \in
              {Missing("S9", f), {Finding("S9", f, {"valid xml"})},
               (bans \union needs) \union Unguarded("S9", app, namespace)}
          \/ /\ check_android_manifest_v6 = {Abort}
             /\ "known encoding" \notin Stripped(f) \/ f \in garbled
        BY DEF check_android_manifest_v6
    <2> HIDE DEF bans, needs, namespace
    <2>6. Proper((bans \union needs) \union Unguarded("S9", app, namespace))
        BY <2>1, <2>2, UnionIsProper
    <2>7. QED  BY <2>3, <2>4, <2>5, <2>6
<1>10. Proper(check_android_res_skeleton_v7)
    <2> DEFINE styles == "styles.xml"
               themes == IF "known encoding" \notin Stripped(styles) THEN {Abort}
                         ELSE IF styles \in garbled \/ "valid xml" \notin Stripped(styles)
                         THEN {Finding("S10", styles, {"valid xml"})}
                         ELSE Lacks("S10", styles, Stripped(styles),
                                  Each({"LaunchTheme", "NormalTheme"}))
    <2>1. "known encoding" \notin Stripped(styles) => Proper({Abort})  BY Granted, NotGranted
    <2>2. Proper(themes)  BY <2>1, BuildAsked, OneIsEntry, LacksEachEntries
    <2> DEFINE icons == Lacks("S10", "res", Stripped("res"), {{"a mipmap directory with an icon"}})
               launch == IF "launch_background.xml" \in gone
                         THEN Missing("S10", "launch_background.xml") ELSE {}
               first == IF styles \in gone THEN Missing("S10", styles) ELSE themes
    <2>3. check_android_res_skeleton_v7 =
              IF "res" \in gone THEN Missing("S10", "res")
              ELSE (first \union icons) \union launch
        BY DEF check_android_res_skeleton_v7
    <2> HIDE DEF themes
    <2>4. Proper(first) /\ Proper(icons) /\ Proper(launch) /\ Proper(Missing("S10", "res"))
        BY <2>2, BuildAsked, LacksEntries, MissingEntries, NoneIsProper
    <2> HIDE DEF first, icons, launch
    <2>5. Proper((first \union icons) \union launch)  BY <2>4, UnionIsProper
    <2>6. QED  BY <2>3, <2>4, <2>5
<1>11. Proper(check_flutter_plugins_dependencies_v8)
    <2> DEFINE f == ".flutter-plugins-dependencies"
               shape == FirstLack("S11", f, Stripped(f),
                            <<{"valid json"}, {"top-level mapping"}, {"plugins"},
                              {"plugins.android"}, {"a plugin entry"}>>)
               entry == Lacks("S11", f, Stripped(f), Each({"entry name", "entry native_build"}))
               all == IF shape # {} THEN shape ELSE entry
    <2>1. Proper(shape) /\ Proper(entry)  BY BuildAsked, SeriesOfFive, LacksEachEntries
    <2>2. check_flutter_plugins_dependencies_v8 =
              Unguarded("S11", f, Loaded(f, "valid json", all))
        BY DEF check_flutter_plugins_dependencies_v8
    <2> HIDE DEF shape, entry
    <2>3. Proper(all)  BY <2>1
    <2> HIDE DEF all
    <2>4. Proper(Loaded(f, "valid json", all))  BY <2>3, Granted, LoadedIsProper
    <2>5. f \in Undecoded  BY DEF Undecoded
    <2>6. QED  BY <2>2, <2>4, <2>5, UnguardedIsProper
<1>12. Proper(check_flutter_kotlin_embedding_v9)
    BY BuildAsked, UnguardedIsProper, LacksEntries, SeriesOfFour, SeriesOfOne DEF
       check_flutter_kotlin_embedding_v9, Undecoded
<1>13. Proper(check_flutter_storage_repo_v10)
    <2>1. "app/build.gradle.kts" \in garbled => Culprit  BY DEF Culprit, Undecoded
    <2>2. QED
        BY <2>1, BuildAsked, UnguardedIsProper, OneIsEntry, NoneIsProper, AbortIsProper
        DEF check_flutter_storage_repo_v10, Undecoded
<1>14. Proper(check_gradle_wrapper_force_include)
    <2> SUFFICES ASSUME NEW r \in check_gradle_wrapper_force_include
                 PROVE  Entry(r) \/ (r = Abort /\ Culprit)
        BY DEF Proper
    <2>1. CASE ".gitignore" \in garbled \ gone
        <3>1. r = Abort  BY <2>1 DEF check_gradle_wrapper_force_include
        <3>2. Culprit  BY <2>1 DEF Culprit, Undecoded
        <3>3. QED  BY <3>1, <3>2
    <2>2. CASE ".gitignore" \notin garbled \ gone
        <3>1. \E t : r = Finding("S17", "git", {t}) \/ r = Finding("S17", ".gitignore", {t})
            BY <2>2 DEF check_gradle_wrapper_force_include
        <3>2. QED  BY <3>1, BuildAsked, FindingIsEntry
    <2>3. QED  BY <2>1, <2>2
<1>15. Proper(check_fresh_flutter_create_preserved)
    <2> SUFFICES ASSUME NEW r \in check_fresh_flutter_create_preserved
                 PROVE  Entry(r) \/ (r = Abort /\ Culprit)
        BY DEF Proper
    <2> DEFINE f == "pubspec.lock"
               series == <<{"valid yaml"}, {"top-level mapping"}, {"packages"},
                           {"packages.flutter"}, {"packages.flutter.source: sdk"}>>
    <2>1. \/ /\ r = Abort
             /\ \/ f \in garbled \/ ".gitignore" \in garbled
                \/ "constructible scalars" \notin Stripped(f)
          \/ r \in Missing("S18", f) \/ r \in FirstLack("S18", f, Stripped(f), series)
          \/ \E t : r = Finding("S18", "git", {t}) \/ r = Finding("S18", ".gitignore", {t})
        BY DEF check_fresh_flutter_create_preserved, Unguarded, Loaded
    <2>2. /\ f \in garbled \/ ".gitignore" \in garbled => Culprit
          /\ "constructible scalars" \notin Stripped(f) => Culprit
        BY Granted, NotGranted DEF Culprit, Undecoded
    <2>3. Entries(FirstLack("S18", f, Stripped(f), series))  BY BuildAsked, SeriesOfFive
    <2>4. Entries(Missing("S18", f))  BY BuildAsked, MissingEntries
    <2>5. QED  BY <2>1, <2>2, <2>3, <2>4, BuildAsked, FindingIsEntry DEF Entries
<1>16. Proper(check_fresh_create_metadata_tracked)
    <2> SUFFICES ASSUME NEW r \in check_fresh_create_metadata_tracked
                 PROVE  Entry(r) \/ (r = Abort /\ Culprit)
        BY DEF Proper
    <2>1. \E t : r = Finding("S19", "git", {t})  BY DEF check_fresh_create_metadata_tracked
    <2>2. QED  BY <2>1, BuildAsked, FindingIsEntry
<1>17. Proper(check_pubspec_baseline_shape)
    <2> DEFINE f == "pubspec.yaml"
               shape == FirstLack("S20", f, Stripped(f), <<{"valid yaml"}, {"top-level mapping"}>>)
               baseline == Lacks("S20", f, Stripped(f), Each(
                               {"name", "environment.sdk", "dependencies.flutter.sdk: flutter",
                                "dev_dependencies.flutter_test.sdk: flutter"}))
               all == IF shape # {} THEN shape ELSE AsOne("S20", f, baseline)
    <2>1. Proper(shape) /\ Entries(baseline)  BY BuildAsked, SeriesOfTwo, LacksEachEntries
    <2>2. check_pubspec_baseline_shape = Unguarded("S20", f, Loaded(f, "valid yaml", all))
        BY DEF check_pubspec_baseline_shape
    <2> HIDE DEF shape, baseline
    <2>3. Proper(all)  BY <2>1, BuildAsked, AsOneEntries
    <2> HIDE DEF all
    <2>4. Proper(Loaded(f, "valid yaml", all))  BY <2>3, Granted, LoadedIsProper
    <2>5. f \in Undecoded  BY DEF Undecoded
    <2>6. QED  BY <2>2, <2>4, <2>5, UnguardedIsProper
<1>18. QED  BY <1>1, <1>2, <1>3, <1>4, <1>5, <1>6, <1>7, <1>8, <1>9, <1>10, <1>11, <1>12,
    <1>13, <1>14, <1>15, <1>16, <1>17

\* Every check on the native side returns entries, or an exception that has a culprit.
LEMMA NativeIsProper ==
    /\ Proper(check_vpn_service_mtu_and_fragment_log_v31)
    /\ Proper(check_notification_chronometer_autostop_v35)
    /\ Proper(check_vpn_service_passthrough_count_invariant_v36)
    /\ Proper(check_manifest_change_network_state_v37)
    /\ Proper(check_stop_capture_ring_clear_invariant_v38)
    /\ Proper(check_check_private_dns_bind_5_logd_invariant_v39)
    /\ Proper(check_check_private_dns_5s_fallback_invariant_v40)
    /\ Proper(check_check_private_dns_call_before_establish_invariant_v41)
    /\ Proper(check_user_space_tcp_ip_stack_invariant_v42)
    /\ Proper(check_tcp_state_machine_v43)
    /\ Proper(check_udp_forwarder_v44)
    /\ Proper(check_tcp_5tuple_v45)
    /\ Proper(check_tcp_dataflow_v46)
    /\ Proper(check_teardown_comprehensive_v48)
    /\ Proper(check_main_activity_get_sampled_packets_v13)
    /\ Proper(check_vpn_service_on_packets_sampled_literal_v15)
    /\ Proper(check_main_activity_snapshot_call_v15)
    /\ Proper(check_vpn_service_foreground_notification_text_v15)
    /\ Proper(check_main_activity_owns_vpn_channel_v18)
    /\ Proper(check_vpn_service_startforeground_within_5s_v19)
    /\ Proper(check_vpn_service_log_d_breadcrumbs_v20)
    /\ Proper(check_vpn_service_state_transition_breadcrumbs_v22)
    /\ Proper(check_vpn_service_addroute_bad_address_v23)
    /\ Proper(check_vpn_service_tun_passthrough_v24)
    /\ Proper(check_vpn_service_ui_thread_push_v26)
    /\ Proper(check_vpn_service_packets_observed_increment_invariant_v27)
<1>1. Proper(check_vpn_service_mtu_and_fragment_log_v31)
    BY NativeAsked, GuardedIsProper, LacksEntries, BansEntries, UnionIsProper DEF
       check_vpn_service_mtu_and_fragment_log_v31
<1>2. Proper(check_notification_chronometer_autostop_v35)
    BY NativeAsked, GuardedIsProper, LacksEachEntries
       DEF check_notification_chronometer_autostop_v35
<1>3. Proper(check_vpn_service_passthrough_count_invariant_v36)
    BY NativeAsked, GuardedIsProper, LacksEachEntries DEF
       check_vpn_service_passthrough_count_invariant_v36
<1>4. Proper(check_manifest_change_network_state_v37)
    BY NativeAsked, GuardedIsProper, LacksEntries
       DEF check_manifest_change_network_state_v37
<1>5. Proper(check_stop_capture_ring_clear_invariant_v38)
    BY NativeAsked, GuardedIsProper, LacksEachEntries
       DEF check_stop_capture_ring_clear_invariant_v38
<1>6. Proper(check_check_private_dns_bind_5_logd_invariant_v39)
    BY NativeAsked, GuardedIsProper, LacksEachEntries DEF
       check_check_private_dns_bind_5_logd_invariant_v39
<1>7. Proper(check_check_private_dns_5s_fallback_invariant_v40)
    BY NativeAsked, GuardedIsProper, LacksEachEntries DEF
       check_check_private_dns_5s_fallback_invariant_v40
<1>8. Proper(check_check_private_dns_call_before_establish_invariant_v41)
    BY NativeAsked, GuardedIsProper, LacksEachEntries, SeriesOfTwo, UnionIsProper DEF
       check_check_private_dns_call_before_establish_invariant_v41
<1>9. Proper(check_user_space_tcp_ip_stack_invariant_v42)
    BY NativeAsked, GuardedIsProper, LacksEachEntries, UnionIsProper, NoneIsProper
    DEF check_user_space_tcp_ip_stack_invariant_v42
<1>10. Proper(check_tcp_state_machine_v43)
    <2>1. \A T : {} \notin Each(T) \union {{"ACK, flow", "ACK ->"}}  BY EachAsks
    <2>2. QED  BY <2>1, NativeAsked, GuardedIsProper, LacksEntries DEF check_tcp_state_machine_v43
<1>11. Proper(check_udp_forwarder_v44)
    BY NativeAsked, GuardedIsProper, LacksEachEntries, LacksEntries, UnionIsProper, NoneIsProper DEF
       check_udp_forwarder_v44
<1>12. Proper(check_tcp_5tuple_v45)
    BY NativeAsked, LacksEachEntries, LacksEntries, SeriesOfTwo, AsOneEntries, MissingEntries,
       OneIsEntry, UnionIsProper, NoneIsProper DEF check_tcp_5tuple_v45
<1>13. Proper(check_tcp_dataflow_v46)
    BY NativeAsked, GuardedIsProper, LacksEachEntries DEF check_tcp_dataflow_v46
<1>14. Proper(check_teardown_comprehensive_v48)
    <2> SUFFICES ASSUME NEW r \in check_teardown_comprehensive_v48
                 PROVE  Entry(r) \/ (r = Abort /\ Culprit)
        BY DEF Proper
    <2>1. \A T : /\ Entries(Lacks("S115", Netty, Stripped(Netty), Each(T)))
                 /\ Entries(AsOne("S115", Netty, Lacks("S115", Netty, Stripped(Netty), Each(T))))
        BY NativeAsked, LacksEachEntries, AsOneEntries
    <2>2. \/ r \in Missing("S115", Netty) \/ r = Finding("S115", Netty, {"read failed"})
          \/ \E T : \/ r \in Lacks("S115", Netty, Stripped(Netty), Each(T))
                    \/ r \in AsOne("S115", Netty, Lacks("S115", Netty, Stripped(Netty), Each(T)))
        BY DEF check_teardown_comprehensive_v48, Guarded
    <2>3. QED  BY <2>1, <2>2, NativeAsked, MissingEntries, FindingIsEntry DEF Entries
<1>15. Proper(check_main_activity_get_sampled_packets_v13)
    <2> SUFFICES ASSUME NEW r \in check_main_activity_get_sampled_packets_v13
                 PROVE  Entry(r) \/ (r = Abort /\ Culprit)
        BY DEF Proper
    <2>1. \E f \in {Activity, Service} :
              \/ r = Finding("S43", f, {"read failed"})
              \/ r = Finding("S43", f, {"getSampledPackets"})
              \/ r = Finding("S43", f, {"when (call.method)", "getSampledPackets"})
        BY DEF check_main_activity_get_sampled_packets_v13
    <2>2. QED  BY <2>1, NativeAsked, FindingIsEntry
<1>16. Proper(check_vpn_service_on_packets_sampled_literal_v15)
    BY NativeAsked, GuardedIsProper, LacksEntries
       DEF check_vpn_service_on_packets_sampled_literal_v15
<1>17. Proper(check_main_activity_snapshot_call_v15)
    BY NativeAsked, GuardedIsProper, BansEntries DEF check_main_activity_snapshot_call_v15
<1>18. Proper(check_vpn_service_foreground_notification_text_v15)
    BY NativeAsked, GuardedIsProper, LacksEntries
       DEF check_vpn_service_foreground_notification_text_v15
<1>19. Proper(check_main_activity_owns_vpn_channel_v18)
    BY NativeAsked, GuardedIsProper, LacksEntries
       DEF check_main_activity_owns_vpn_channel_v18
<1>20. Proper(check_vpn_service_startforeground_within_5s_v19)
    BY NativeAsked, GuardedIsProper, LacksEntries, SeriesOfTwo, UnionIsProper DEF
       check_vpn_service_startforeground_within_5s_v19
<1>21. Proper(check_vpn_service_log_d_breadcrumbs_v20)
    BY NativeAsked, GuardedIsProper, LacksEntries
       DEF check_vpn_service_log_d_breadcrumbs_v20
<1>22. Proper(check_vpn_service_state_transition_breadcrumbs_v22)
    BY NativeAsked, GuardedIsProper, LacksEachEntries, AsOneEntries, UnionIsProper DEF
       check_vpn_service_state_transition_breadcrumbs_v22
<1>23. Proper(check_vpn_service_addroute_bad_address_v23)
    BY NativeAsked, GuardedIsProper, LacksEntries, BansEntries, OneIsEntry, UnionIsProper,
       NoneIsProper
       DEF check_vpn_service_addroute_bad_address_v23
<1>24. Proper(check_vpn_service_tun_passthrough_v24)
    BY NativeAsked, GuardedIsProper, LacksEntries, BansEntries, UnionIsProper DEF
       check_vpn_service_tun_passthrough_v24
<1>25. Proper(check_vpn_service_ui_thread_push_v26)
    BY NativeAsked, GuardedIsProper, LacksEachEntries, BansEntries, UnionIsProper DEF
       check_vpn_service_ui_thread_push_v26
<1>26. Proper(check_vpn_service_packets_observed_increment_invariant_v27)
    BY NativeAsked, GuardedIsProper, BansEntries, SeriesOfThree, UnionIsProper DEF
       check_vpn_service_packets_observed_increment_invariant_v27
<1>27. QED  BY <1>1, <1>2, <1>3, <1>4, <1>5, <1>6, <1>7, <1>8, <1>9, <1>10, <1>11, <1>12,
    <1>13, <1>14, <1>15, <1>16, <1>17, <1>18, <1>19, <1>20, <1>21, <1>22, <1>23, <1>24,
    <1>25, <1>26

\* Every check on the application and the back end returns entries, or an
\* exception that has a culprit.
LEMMA AppIsProper ==
    /\ Proper(check_no_vpn_string_in_sprint10_ui)
    /\ Proper(check_whatsapp_deeplink_literal_present)
    /\ Proper(check_whatsapp_deeplink_intent_format)
    /\ Proper(check_p2p_matcher_sessions_endpoint)
    /\ Proper(check_android_manifest_whatsapp_queries_v12)
    /\ Proper(check_active_pool_linechart_literal_present)
    /\ Proper(check_pool_provider_no_fake_animation_v29)
    /\ Proper(check_dart_no_fake_ui_animation_v30)
    /\ Proper(check_oturumu_bitir_2level_fallback_v32)
    /\ Proper(check_oturumu_bitir_full_state_reset_v33)
    /\ Proper(check_dns_private_dns_conflict_v34)
    /\ Proper(check_active_pool_haptic_feedback_literal_present)
    /\ Proper(check_pool_provider_debug_state_fields)
    /\ Proper(check_active_pool_scaffold_messenger_snackbar)
    /\ Proper(check_service_api_key_from_environment)
    /\ Proper(check_auth_service_exists)
    /\ Proper(check_service_uses_auth_headers)
    /\ Proper(check_auth_token_expiry_field)
    /\ Proper(check_auth_invalidate_method)
    /\ Proper(check_whatsapp_deeplink_wa_me_format_v14)
    /\ Proper(check_vpn_service_packet_stream_getter_v15)
    /\ Proper(check_active_pool_packet_stream_listen_v15)
    /\ Proper(check_sampled_packet_class_v15)
    /\ Proper(check_active_pool_no_30_call_loop_v15)
    /\ Proper(check_telemetry_service_summary_upload_v15)
    /\ Proper(check_skorlar_screen_fetch_scores_v17)
    /\ Proper(check_score_calculator_compute_v17)
    /\ Proper(check_score_calculator_four_metrics_v17)
    /\ Proper(check_score_calculator_overall_weighted_sum_v17)
    /\ Proper(check_session_orchestrator_close_session_v17)
    /\ Proper(check_active_pool_oturumu_bitur_button_v17)
    /\ Proper(check_active_pool_close_then_navigate_v17)
    /\ Proper(check_skorlar_empty_state_v17)
    /\ Proper(check_skorlar_card_overall_gauge_v17)
    /\ Proper(check_backend_sessions_close_handler_v17)
    /\ Proper(check_backend_summary_stats_shape_v17)
    /\ Proper(check_score_calculator_unit_tests_v17)
    /\ Proper(check_vpn_service_dart_singleton_v20)
    /\ Proper(check_active_pool_screen_ui_propagation_v21)
    /\ Proper(check_pubspec_webrtc_dep_v16)
    /\ Proper(check_webrtc_service_rtc_peer_connection_v16)
    /\ Proper(check_webrtc_service_on_ice_candidate_v16)
    /\ Proper(check_session_orchestrator_start_session_v16)
    /\ Proper(check_session_orchestrator_long_poll_v16)
    /\ Proper(check_backend_webrtc_long_poll_handlers_v16)
    /\ Proper(check_webrtc_service_on_track_v16)
    /\ Proper(check_active_pool_webrtc_status_indicator_v16)
<1>1. Proper(check_no_vpn_string_in_sprint10_ui)
    <2> SUFFICES ASSUME NEW r \in check_no_vpn_string_in_sprint10_ui
                 PROVE  Entry(r) \/ (r = Abort /\ Culprit)
        BY DEF Proper
    <2>1. PICK f \in ({"main.dart"} \union Screens) \ (gone \union garbled) :
              r \in Bans("S25", f, Raw(f), {"vpn"})
        BY DEF check_no_vpn_string_in_sprint10_ui
    <2>2. ~PassedOver(f)  BY <2>1 DEF PassedOver
    <2>3. QED  BY <2>1, <2>2, BansEntries DEF Entries
<1>2. Proper(check_whatsapp_deeplink_literal_present)
    BY AppAsked, RequiresIsProper DEF check_whatsapp_deeplink_literal_present
<1>3. Proper(check_whatsapp_deeplink_intent_format)
    BY AppAsked, RequiresEachIsProper DEF check_whatsapp_deeplink_intent_format
<1>4. Proper(check_p2p_matcher_sessions_endpoint)
    BY AppAsked, RequiresIsProper, BansEntries, UnionIsProper, NoneIsProper DEF
       check_p2p_matcher_sessions_endpoint
<1>5. Proper(check_android_manifest_whatsapp_queries_v12)
    BY AppAsked, GuardedIsProper, LacksEntries, OneIsEntry DEF
       check_android_manifest_whatsapp_queries_v12
<1>6. Proper(check_active_pool_linechart_literal_present)
    BY AppAsked, RequiresIsProper DEF check_active_pool_linechart_literal_present
<1>7. Proper(check_pool_provider_no_fake_animation_v29)
    BY AppAsked, GuardedIsProper, BansEntries DEF check_pool_provider_no_fake_animation_v29
<1>8. Proper(check_dart_no_fake_ui_animation_v30)
    <2> SUFFICES ASSUME NEW r \in check_dart_no_fake_ui_animation_v30
                 PROVE  Entry(r) \/ (r = Abort /\ Culprit)
        BY DEF Proper
    <2> DEFINE fake(f) == Guarded("S86", f, Bans("S86", f, Stripped(f), MockTokens))
               files == ({Screen} \union State) \ gone
               all == UNION {fake(f) : f \in files}
               needs == Requires("S86", Screen, Each({"packetStream.listen", "stateStream.listen"}))
    <2>0. check_dart_no_fake_ui_animation_v30 = all \union needs
        BY DEF check_dart_no_fake_ui_animation_v30
    <2>1. (\E f \in files : r \in fake(f)) \/ r \in needs
        <3>1. r \in all \/ r \in needs  BY <2>0
        <3>2. r \in all => \E f \in files : r \in fake(f)  OBVIOUS
        <3>3. QED  BY <3>1, <3>2
    <2>2. \A f \in files : ~PassedOver(f)
        <3>1. \A f \in State \ OtherState : ~PassedOver(f)  BY AppAsked DEF State
        <3>2. \A f \in OtherState \ gone : ~PassedOver(f)
            BY DEF PassedOver, OtherScreens, OtherState
        <3>3. QED  BY <3>1, <3>2, AppAsked
    <2>3. \A f \in files : Proper(fake(f))
        BY <2>2, GuardedIsProper, BansEntries
    <2>4. Proper(needs)
        BY AppAsked, RequiresEachIsProper
    <2>5. QED  BY <2>1, <2>3, <2>4 DEF Proper
<1>9. Proper(check_oturumu_bitir_2level_fallback_v32)
    BY AppAsked, GuardedIsProper, RequiresEachIsProper, LacksEachEntries, BansEntries, UnionIsProper
       DEF check_oturumu_bitir_2level_fallback_v32
<1>10. Proper(check_oturumu_bitir_full_state_reset_v33)
    BY AppAsked, RequiresIsProper DEF check_oturumu_bitir_full_state_reset_v33
<1>11. Proper(check_dns_private_dns_conflict_v34)
    BY AppAsked, RequiresEachIsProper, UnionIsProper DEF check_dns_private_dns_conflict_v34
<1>12. Proper(check_active_pool_haptic_feedback_literal_present)
    BY AppAsked, RequiresIsProper DEF check_active_pool_haptic_feedback_literal_present
<1>13. Proper(check_pool_provider_debug_state_fields)
    BY AppAsked, RequiresEachIsProper DEF check_pool_provider_debug_state_fields
<1>14. Proper(check_active_pool_scaffold_messenger_snackbar)
    BY AppAsked, RequiresIsProper DEF check_active_pool_scaffold_messenger_snackbar
<1>15. Proper(check_service_api_key_from_environment)
    BY AppAsked, RequiresInIsProper DEF check_service_api_key_from_environment
<1>16. Proper(check_auth_service_exists)
    BY AppAsked, RequiresEachIsProper DEF check_auth_service_exists
<1>17. Proper(check_service_uses_auth_headers)
    BY AppAsked, RequiresInIsProper DEF check_service_uses_auth_headers
<1>18. Proper(check_auth_token_expiry_field)
    BY AppAsked, RequiresIsProper DEF check_auth_token_expiry_field
<1>19. Proper(check_auth_invalidate_method)
    BY AppAsked, RequiresIsProper DEF check_auth_invalidate_method
<1>20. Proper(check_whatsapp_deeplink_wa_me_format_v14)
    BY AppAsked, RequiresIsProper, RequiresEachIsProper, UnionIsProper DEF
       check_whatsapp_deeplink_wa_me_format_v14
<1>21. Proper(check_vpn_service_packet_stream_getter_v15)
    BY AppAsked, RequiresEachIsProper DEF check_vpn_service_packet_stream_getter_v15
<1>22. Proper(check_active_pool_packet_stream_listen_v15)
    BY AppAsked, RequiresIsProper DEF check_active_pool_packet_stream_listen_v15
<1>23. Proper(check_sampled_packet_class_v15)
    BY AppAsked, RequiresEachIsProper DEF check_sampled_packet_class_v15
<1>24. Proper(check_active_pool_no_30_call_loop_v15)
    BY AppAsked, GuardedIsProper, LacksEntries, OneIsEntry, UnionIsProper, NoneIsProper DEF
       check_active_pool_no_30_call_loop_v15
<1>25. Proper(check_telemetry_service_summary_upload_v15)
    BY AppAsked, RequiresEachIsProper DEF check_telemetry_service_summary_upload_v15
<1>26. Proper(check_skorlar_screen_fetch_scores_v17)
    BY AppAsked, RequiresIsProper DEF check_skorlar_screen_fetch_scores_v17
<1>27. Proper(check_score_calculator_compute_v17)
    BY AppAsked, RequiresEachIsProper DEF check_score_calculator_compute_v17
<1>28. Proper(check_score_calculator_four_metrics_v17)
    BY AppAsked, RequiresEachIsProper DEF check_score_calculator_four_metrics_v17
<1>29. Proper(check_score_calculator_overall_weighted_sum_v17)
    BY AppAsked, RequiresEachIsProper DEF check_score_calculator_overall_weighted_sum_v17
<1>30. Proper(check_session_orchestrator_close_session_v17)
    BY AppAsked, RequiresEachIsProper DEF check_session_orchestrator_close_session_v17
<1>31. Proper(check_active_pool_oturumu_bitur_button_v17)
    BY AppAsked, RequiresIsProper DEF check_active_pool_oturumu_bitur_button_v17
<1>32. Proper(check_active_pool_close_then_navigate_v17)
    BY AppAsked, RequiresEachIsProper DEF check_active_pool_close_then_navigate_v17
<1>33. Proper(check_skorlar_empty_state_v17)
    BY AppAsked, RequiresIsProper DEF check_skorlar_empty_state_v17
<1>34. Proper(check_skorlar_card_overall_gauge_v17)
    BY AppAsked, RequiresIsProper DEF check_skorlar_card_overall_gauge_v17
<1>35. Proper(check_backend_sessions_close_handler_v17)
    BY AppAsked, RequiresIsProper DEF check_backend_sessions_close_handler_v17
<1>36. Proper(check_backend_summary_stats_shape_v17)
    BY AppAsked, RequiresEachIsProper DEF check_backend_summary_stats_shape_v17
<1>37. Proper(check_score_calculator_unit_tests_v17)
    BY AppAsked, RequiresIsProper DEF check_score_calculator_unit_tests_v17
<1>38. Proper(check_vpn_service_dart_singleton_v20)
    BY AppAsked, GuardedIsProper, LacksEntries, BansEntries, UnionIsProper DEF
       check_vpn_service_dart_singleton_v20
<1>39. Proper(check_active_pool_screen_ui_propagation_v21)
    BY AppAsked, GuardedIsProper, LacksEntries, SeriesOfTwo, UnionIsProper DEF
       check_active_pool_screen_ui_propagation_v21
<1>40. Proper(check_pubspec_webrtc_dep_v16)
    BY AppAsked, RequiresIsProper DEF check_pubspec_webrtc_dep_v16
<1>41. Proper(check_webrtc_service_rtc_peer_connection_v16)
    BY AppAsked, RequiresEachIsProper DEF check_webrtc_service_rtc_peer_connection_v16
<1>42. Proper(check_webrtc_service_on_ice_candidate_v16)
    BY AppAsked, RequiresEachIsProper DEF check_webrtc_service_on_ice_candidate_v16
<1>43. Proper(check_session_orchestrator_start_session_v16)
    BY AppAsked, RequiresEachIsProper DEF check_session_orchestrator_start_session_v16
<1>44. Proper(check_session_orchestrator_long_poll_v16)
    BY AppAsked, GuardedIsProper, LacksEntries, OneIsEntry DEF
       check_session_orchestrator_long_poll_v16
<1>45. Proper(check_backend_webrtc_long_poll_handlers_v16)
    BY AppAsked, RequiresEachIsProper DEF check_backend_webrtc_long_poll_handlers_v16
<1>46. Proper(check_webrtc_service_on_track_v16)
    BY AppAsked, RequiresEachIsProper DEF check_webrtc_service_on_track_v16
<1>47. Proper(check_active_pool_webrtc_status_indicator_v16)
    BY AppAsked, RequiresEachIsProper DEF check_active_pool_webrtc_status_indicator_v16
<1>48. QED  BY <1>1, <1>2, <1>3, <1>4, <1>5, <1>6, <1>7, <1>8, <1>9, <1>10, <1>11, <1>12,
    <1>13, <1>14, <1>15, <1>16, <1>17, <1>18, <1>19, <1>20, <1>21, <1>22, <1>23, <1>24,
    <1>25, <1>26, <1>27, <1>28, <1>29, <1>30, <1>31, <1>32, <1>33, <1>34, <1>35, <1>36,
    <1>37, <1>38, <1>39, <1>40, <1>41, <1>42, <1>43, <1>44, <1>45, <1>46, <1>47
\* Whatever check main runs next, it returns entries, or an exception that has a
\* culprit.
LEMMA ResultIsProper ==
    ASSUME NEW i \in 1..NumChecks
    PROVE  Proper(Result(i))
<1>1. i \in 1..20 => Proper(SprintNine(i))
    BY SMTT(60), BuildIsProper, NativeIsProper, AppIsProper DEF SprintNine
<1>2. i \in 21..50 => Proper(SprintTen(i))
    BY SMTT(60), BuildIsProper, NativeIsProper, AppIsProper DEF SprintTen
<1>3. i \in 51..78 => Proper(Milestones(i))
    BY SMTT(60), BuildIsProper, NativeIsProper, AppIsProper DEF Milestones
<1>4. i \in 79..93 => Proper(Regressions(i))
    BY SMTT(60), BuildIsProper, NativeIsProper, AppIsProper DEF Regressions
<1>5. QED  BY <1>1, <1>2, <1>3, <1>4 DEF NumChecks, Result

-----------------------------------------------------------------------------
\* The type invariant and the tracebacks.

\* What the files hold, in code and in comments, comes from Tree and Banned.
Tables ==
    /\ \A f \in Files : code[f] \union notes[f] \subseteq Tree[f] \union Banned(f)
    /\ code = [f \in Files |-> code[f]]
    /\ notes = [f \in Files |-> notes[f]]

\* Files are edited before the run begins, no finding is about a file that was
\* passed over, and the exception that ends a run has a culprit in the
\* repository, which no step of the run changes.
Shape ==
    /\ TypeOK /\ Tables
    /\ \A r \in findings : ~PassedOver(r.file)
    /\ step = 0 => exit = "running" /\ findings = {}
    /\ exit = "traceback" => Culprit

\* An edit leaves the run where it was: not begun.
LEMMA EditShape ==
    ASSUME Shape, Edit
    PROVE  Shape'
<1>1. PICK f \in Files :
          \/ \E t \in Tree[f] : DeleteToken(f, t) \/ CommentOut(f, t)
          \/ \E t \in Banned(f) : AddBanned(f, t) \/ MentionBanned(f, t)
          \/ DeleteFile(f)
          \/ Garble(f)
    BY DEF Edit
<1>2. /\ step = 0 /\ edits < MaxEdits /\ edits' = edits + 1
      /\ UNCHANGED <<step, findings, printed, exit>>
    BY <1>1 DEF DeleteToken, CommentOut, AddBanned, MentionBanned, DeleteFile, Garble, Editing
<1>3. exit = "running" /\ findings = {} /\ printed = {}
    BY <1>2 DEF Shape, TypeOK, Done
<1>4. edits' \in 0..MaxEdits
    BY <1>2, AuditAssumption DEF Shape, TypeOK
<1>5. Tables'
    <2>1. ASSUME NEW t \in Tree[f], DeleteToken(f, t) PROVE Tables'
        <3>1. code' = [code EXCEPT ![f] = @ \ Along(t)] /\ notes' = notes
            BY <2>1 DEF DeleteToken
        <3>2. QED  BY <3>1 DEF Shape, Tables
    <2>2. ASSUME NEW t \in Tree[f], CommentOut(f, t) PROVE Tables'
        <3>1. /\ code' = [code EXCEPT ![f] = @ \ Along(t)]
              /\ notes' = [notes EXCEPT ![f] = @ \union (code[f] \intersect Along(t))]
            BY <2>2 DEF CommentOut
        <3>2. QED  BY <3>1 DEF Shape, Tables
    <2>3. ASSUME NEW t \in Banned(f), AddBanned(f, t) PROVE Tables'
        <3>1. code' = [code EXCEPT ![f] = @ \union {t}] /\ notes' = notes
            BY <2>3 DEF AddBanned
        <3>2. QED  BY <3>1 DEF Shape, Tables
    <2>4. ASSUME NEW t \in Banned(f), MentionBanned(f, t) PROVE Tables'
        <3>1. notes' = [notes EXCEPT ![f] = @ \union {t}] /\ code' = code
            BY <2>4 DEF MentionBanned
        <3>2. QED  BY <3>1 DEF Shape, Tables
    <2>5. CASE DeleteFile(f) \/ Garble(f)
        BY <2>5 DEF DeleteFile, Garble, Shape, Tables
    <2>6. QED  BY <1>1, <2>1, <2>2, <2>3, <2>4, <2>5
<1>6. gone' \subseteq Files /\ garbled' \subseteq Readable
    <2>1. CASE DeleteFile(f)
        BY <2>1, AuditAssumption DEF DeleteFile, Shape, TypeOK
    <2>2. CASE Garble(f)
        BY <2>2 DEF Garble, Shape, TypeOK
    <2>3. CASE gone' = gone /\ garbled' = garbled
        BY <2>3 DEF Shape, TypeOK
    <2>4. QED
        BY <1>1, <2>1, <2>2, <2>3 DEF DeleteToken, CommentOut, AddBanned, MentionBanned
<1>7. QED
    BY <1>2, <1>3, <1>4, <1>5, <1>6 DEF Shape, Tables, TypeOK, Done, NumChecks, Outcomes

\* The run changes no file, and what it collects are entries.
LEMMA RunShape ==
    ASSUME Shape, main
    PROVE  Shape'
<1>1. /\ UNCHANGED <<code, notes, gone, garbled, edits>>
    BY DEF main, Start, RunCheck, Raise, Verdict
<1>2. /\ Culprit' <=> Culprit
      /\ \A f : PassedOver(f)' <=> PassedOver(f)
    BY <1>1 DEF Culprit, Stripped, Holding, PassedOver
<1>3. CASE Start
    BY <1>1, <1>2, <1>3 DEF Start, Shape, Tables, TypeOK, Done, NumChecks
<1>4. CASE RunCheck
    <2>1. PICK i \in 1..NumChecks : i = step  BY <1>4 DEF RunCheck
    <2>2. Proper(Result(i))  BY ResultIsProper
    <2>3. findings' = findings \union Result(i) /\ Abort \notin Result(i)
        BY <1>4, <2>1 DEF RunCheck
    <2>4. \A r \in findings' : r.check # "exception" /\ r.about # {} /\ ~PassedOver(r.file)
        BY <2>2, <2>3 DEF Proper, Entry, Shape, TypeOK
    <2>5. /\ step' = step + 1 /\ step' \in 0..NumChecks + 1 /\ step' # 0
          /\ UNCHANGED <<printed, exit>> /\ exit = "running"
        BY <1>4, <2>1 DEF RunCheck, NumChecks
    <2>6. QED  BY <1>1, <1>2, <2>4, <2>5 DEF Shape, Tables, TypeOK, Done
<1>5. CASE Raise
    <2>1. PICK i \in 1..NumChecks : i = step  BY <1>5 DEF Raise
    <2>2. Proper(Result(i)) /\ Abort \in Result(i)
        BY <1>5, <2>1, ResultIsProper DEF Raise
    <2>3. ~Entry(Abort)  BY DEF Entry, Abort, Finding
    <2>4. Culprit  BY <2>2, <2>3 DEF Proper
    <2>5. /\ exit' = "traceback" /\ exit = "running" /\ step # 0
          /\ UNCHANGED <<step, findings, printed>>
        BY <1>5, <2>1 DEF Raise, NumChecks
    <2>6. QED  BY <1>1, <1>2, <2>4, <2>5 DEF Shape, Tables, TypeOK, Done, Outcomes
<1>6. CASE Verdict
    <2>1. step = NumChecks + 1  BY <1>6 DEF Verdict
    <2>2. step # 0  BY <2>1 DEF NumChecks
    <2>3. /\ exit = "running" /\ printed' = findings /\ UNCHANGED <<step, findings>>
          /\ exit' = IF findings = {} THEN "exit 0" ELSE "exit 1"
        BY <1>6 DEF Verdict
    <2>4. QED  BY <1>1, <1>2, <2>2, <2>3 DEF Shape, Tables, TypeOK, Done, Outcomes
<1>7. QED  BY <1>3, <1>4, <1>5, <1>6 DEF main

\* The shape is an invariant.
LEMMA ShapeHolds == Spec => []Shape
<1>1. Init => Shape
    <2> SUFFICES ASSUME Init PROVE Shape  OBVIOUS
    <2>1. code = [f \in Files |-> code[f]] /\ notes = [f \in Files |-> notes[f]]
        BY AuditAssumption DEF Init
    <2>2. \A f \in Files : code[f] \union notes[f] \subseteq Tree[f] \union Banned(f)
        BY DEF Init
    <2>3. QED
        BY <2>1, <2>2, AuditAssumption DEF Init, Shape, Tables, TypeOK, Done, Outcomes, NumChecks
<1>2. Shape /\ [Next]_vars => Shape'
    <2> SUFFICES ASSUME Shape, [Next]_vars PROVE Shape'  OBVIOUS
    <2>1. CASE Next  BY <2>1, EditShape, RunShape DEF Next
    <2>2. CASE UNCHANGED vars
        BY <2>2 DEF vars, Shape, Tables, TypeOK, Done, Culprit, Stripped, Holding, PassedOver
    <2>3. QED  BY <2>1, <2>2
<1>3. QED  BY <1>1, <1>2, PTL DEF Spec

\* The findings of a run are entries that say what they are about, and they are
\* printed exactly by a run that ends with exit code 1.
THEOREM TypeCorrect == Spec => []TypeOK
<1>1. Shape => TypeOK  BY DEF Shape
<1>2. QED  BY <1>1, ShapeHolds, PTL

\* However often the repository was edited, only a build file that cannot be
\* decoded, or is not what the audit takes for granted, ends a run with a
\* traceback.
THEOREM SourcesEndNoRun == Spec => []SourcesNeverCrash
<1>1. Culprit => \/ garbled \ Sources # {}
                 \/ \E g \in TakenForGranted : g[2] \notin Stripped(g[1])
    BY AuditAssumption DEF Culprit
<1>2. Shape => SourcesNeverCrash  BY <1>1 DEF Shape, SourcesNeverCrash
<1>3. QED  BY <1>2, ShapeHolds, PTL

-----------------------------------------------------------------------------
\* What cannot be read is named.

Legible(f) == f \notin gone \union garbled

\* Findings that name a file that is not legible, as f or the directory it was in.
Named(f, F) == \E r \in F : Names(r, f)
Told(f, F) == \E g \in gone \union garbled : f \in Within(g) /\ Named(g, F)

\* The check that names each file it cannot decode.
Readings ==
    {<<i, Workflows[i]>> : i \in 1..4} \union
    {<<5, "gradle-wrapper.properties">>, <<6, "build.gradle.kts">>,
     <<8, "app/build.gradle.kts">>, <<10, "main.dart">>, <<11, "res/xml">>,
     <<14, ".flutter-plugins-dependencies">>, <<15, "engine.version">>,
     <<16, "settings.gradle.kts">>, <<17, ".gitignore">>, <<18, "pubspec.lock">>,
     <<20, "pubspec.yaml">>, <<22, TaskScreen>>, <<23, Screen>>, <<24, Pool>>,
     <<26, Service>>, <<32, "AndroidManifest.xml">>, <<42, AuthService>>,
     <<46, Deeplink>>, <<47, Matcher>>, <<52, Activity>>, <<53, VpnDart>>,
     <<55, "packet_parser.dart">>, <<58, Telemetry>>, <<60, Rtc>>, <<62, Orchestrator>>,
     <<67, Scores>>, <<68, Calculator>>, <<76, "router.go">>, <<77, "sessions.go">>,
     <<78, "score_calculator_test.dart">>, <<89, Netty>>}


\* The checks that name the other files they miss.
Demands ==
    {<<13, "res">>, <<13, "styles.xml">>, <<13, "launch_background.xml">>, <<17, "git">>,
     <<17, "gradlew">>, <<17, "gradlew.bat">>, <<17, "gradle-wrapper.jar">>}

\* The check that names the providers it finds and cannot decode.
Listed == {<<25, f>> : f \in OtherState}

\* A check that ends without an exception names a file it cannot read.
Naming(f, F) == ~Legible(f) /\ Abort \notin F => Named(f, F)

\* A missing file is named.
LEMMA MissingNames ==
    ASSUME NEW id, NEW f
    PROVE  Named(f, Missing(id, f))
BY DEF Named, Names, Missing, Finding

\* A finding about a file names it.
LEMMA AboutNames ==
    ASSUME NEW id, NEW f, NEW g, NEW about, f = g \/ f \in about
    PROVE  Named(f, {Finding(id, g, about)})
BY DEF Named, Names, Finding

\* What more a check finds takes nothing away.
LEMMA NamingGrows ==
    ASSUME NEW f, NEW F, NEW G
    PROVE  /\ Naming(f, F) => Naming(f, F \union G)
           /\ Named(f, F) => Named(f, F \union G)
           /\ Told(f, F) => Told(f, F \union G)
BY DEF Naming, Named, Told

\* A check that catches the errors of reading names its file.
LEMMA GuardedNames ==
    ASSUME NEW id, NEW f, NEW F
    PROVE  Naming(f, Guarded(id, f, F))
BY MissingNames, AboutNames DEF Guarded, Naming, Legible

\* ... and so does a check that does not, unless it ends the run.
LEMMA UnguardedNames ==
    ASSUME NEW id, NEW f, NEW F
    PROVE  Naming(f, Unguarded(id, f, F))
BY MissingNames, AboutNames DEF Unguarded, Naming, Legible

\* ... and one that searches the raw text.
LEMMA RequiresNames ==
    ASSUME NEW id, NEW f, NEW groups
    PROVE  Naming(f, Requires(id, f, groups)) /\ Naming(f, RequiresAll(id, f, groups))
BY GuardedNames DEF Requires, RequiresAll

\* A series of requirements fails with findings of its check about its file.
LEMMA FirstLackIsAbout ==
    ASSUME NEW id, NEW f, NEW text, NEW groups
    PROVE  \A r \in FirstLack(id, f, text, groups) : r.check = id /\ r.file = f
BY DEF FirstLack, Finding

\* The check that compares the engine's hash names the engine, or its findings
\* are about the build file that declares no hash.
LEMMA EngineNames == Naming("engine.version", check_flutter_kotlin_embedding_v9)
<1> DEFINE app == "app/build.gradle.kts"
           sdk == "engine.version"
           groups == <<{"dependencies {"}, {"dependencies block balanced"},
                       {"io.flutter:flutter_embedding_ktx"},
                       {"io.flutter:flutter_embedding_ktx:1.0.0-hash"}>>
           D == FirstLack("S12", app, Raw(app), groups)
           engine == FirstLack("S12", sdk, Raw(sdk), <<{"a 40-digit hash"}>>)
           same == Lacks("S12", app, Raw(app), {{"declared hash is the engine's"}})
           inner == Unguarded("S12", sdk, IF engine # {} THEN engine ELSE same)
           found == check_flutter_kotlin_embedding_v9
<1>1. found = Unguarded("S12", app, IF D # {} THEN D ELSE inner)
    BY DEF check_flutter_kotlin_embedding_v9
<1>2. Naming(sdk, inner)  BY UnguardedNames
<1> HIDE DEF groups
<1>3. \A r \in D : r.check = "S12" /\ r.file = app  BY FirstLackIsAbout
<1> HIDE DEF D, inner, found
<1>4. CASE app \in gone
    <2>1. found = {Finding("S12", app, {"file missing"})}
        BY <1>1, <1>4 DEF Unguarded, Missing
    <2>2. Names(Finding("S12", app, {"file missing"}), sdk)  BY DEF Names, Finding
    <2>3. QED  BY <2>1, <2>2 DEF Naming, Named, found
<1>5. CASE app \in garbled \ gone
    <2>1. found = {Abort}  BY <1>1, <1>5 DEF Unguarded
    <2>2. QED  BY <2>1 DEF Naming, found
<1>6. CASE app \notin gone \union garbled /\ D # {}
    <2>1. found = D  BY <1>1, <1>6 DEF Unguarded
    <2>2. PICK r \in D : r.check = "S12" /\ r.file = app  BY <1>3, <1>6
    <2>3. Names(r, sdk)  BY <2>2 DEF Names
    <2>4. QED  BY <2>1, <2>2, <2>3 DEF Naming, Named, found
<1>7. CASE app \notin gone \union garbled /\ D = {}
    <2>1. found = inner  BY <1>1, <1>7 DEF Unguarded
    <2>2. QED  BY <1>2, <2>1 DEF found
<1>8. QED  BY <1>4, <1>5, <1>6, <1>7

\* The check of the wrapper names .gitignore when it is missing.
LEMMA IgnoreNames == Naming(".gitignore", check_gradle_wrapper_force_include)
<1> DEFINE f == ".gitignore"
           pattern == "!**/android/gradlew"
           found == check_gradle_wrapper_force_include
<1>1. f \in garbled \ gone => found = {Abort}
    BY DEF check_gradle_wrapper_force_include
<1>2. f \in gone => Finding("S17", f, {pattern}) \in found
    BY DEF check_gradle_wrapper_force_include, MissingPatterns
<1>3. Names(Finding("S17", f, {pattern}), f)  BY DEF Names, Finding
<1> HIDE DEF found
<1>4. Naming(f, found)  BY <1>1, <1>2, <1>3 DEF Legible, Naming, Named
<1>5. QED  BY <1>4 DEF found

\* The check of pubspec.lock names it, tracked or not.
LEMMA LockNames == Naming("pubspec.lock", check_fresh_flutter_create_preserved)
<1> DEFINE f == "pubspec.lock"
<1>1. \/ check_fresh_flutter_create_preserved = {Finding("S18", "git", {f})}
      \/ \E F : check_fresh_flutter_create_preserved = Unguarded("S18", f, F)
    BY DEF check_fresh_flutter_create_preserved
<1>2. Named(f, {Finding("S18", "git", {f})})  BY AboutNames
<1>3. QED  BY <1>1, <1>2, UnguardedNames DEF Naming

\* The check that stands for a file names it when it cannot read it.
LEMMA ReadersName == \A v \in Readings : Naming(v[2], Result(v[1]))
<1>1. \A i \in 1..4 : Naming(Workflows[i], Result(i))
    <2>1. \A i \in 1..4 : Result(i) = audit_workflow(Workflows[i])
        BY SMTT(60) DEF Result, SprintNine
    <2>2. \A f : Naming(f, audit_workflow(f))
        BY MissingNames, AboutNames DEF audit_workflow, ParsedWorkflow, Naming, Legible
    <2>3. QED  BY <2>1, <2>2
<1>2. Naming("gradle-wrapper.properties", check_gradle_wrapper_version)
    BY UnguardedNames DEF check_gradle_wrapper_version
<1>3. Naming("build.gradle.kts", check_agp_version)
    BY UnguardedNames DEF check_agp_version
<1>4. Naming("app/build.gradle.kts", check_app_build_gradle_syntax_v2)
    BY UnguardedNames DEF check_app_build_gradle_syntax_v2
<1>5. Naming("main.dart", check_mobile_entry_point_v4)
    BY UnguardedNames DEF check_mobile_entry_point_v4
<1>6. Naming("res/xml", check_android_xml_comments_v5)
    BY UnguardedNames DEF check_android_xml_comments_v5
<1>7. Naming(".flutter-plugins-dependencies", check_flutter_plugins_dependencies_v8)
    BY UnguardedNames DEF check_flutter_plugins_dependencies_v8
<1>8. Naming("engine.version", check_flutter_kotlin_embedding_v9)  BY EngineNames
<1>9. Naming("settings.gradle.kts", check_flutter_storage_repo_v10)
    BY UnguardedNames DEF check_flutter_storage_repo_v10
<1>10. Naming(".gitignore", check_gradle_wrapper_force_include)  BY IgnoreNames
<1>11. Naming("pubspec.lock", check_fresh_flutter_create_preserved)  BY LockNames
<1>12. Naming("pubspec.yaml", check_pubspec_baseline_shape)
    BY UnguardedNames DEF check_pubspec_baseline_shape
<1>13. Naming(TaskScreen, check_whatsapp_deeplink_literal_present)
    BY RequiresNames DEF check_whatsapp_deeplink_literal_present
<1>14. Naming(Screen, check_active_pool_linechart_literal_present)
    BY RequiresNames DEF check_active_pool_linechart_literal_present
<1>15. Naming(Pool, check_pool_provider_no_fake_animation_v29)
    BY GuardedNames DEF check_pool_provider_no_fake_animation_v29
<1>16. Naming(Service, check_vpn_service_mtu_and_fragment_log_v31)
    BY GuardedNames DEF check_vpn_service_mtu_and_fragment_log_v31
<1>17. Naming("AndroidManifest.xml", check_manifest_change_network_state_v37)
    BY GuardedNames DEF check_manifest_change_network_state_v37
<1>18. Naming(AuthService, check_auth_service_exists)
    BY RequiresNames DEF check_auth_service_exists
<1>19. Naming(Deeplink, check_whatsapp_deeplink_intent_format)
    BY RequiresNames DEF check_whatsapp_deeplink_intent_format
<1>20. Naming(Matcher, check_p2p_matcher_sessions_endpoint)
    BY RequiresNames, NamingGrows DEF check_p2p_matcher_sessions_endpoint
<1>21. Naming(Activity, check_main_activity_snapshot_call_v15)
    BY GuardedNames DEF check_main_activity_snapshot_call_v15
<1>22. Naming(VpnDart, check_vpn_service_packet_stream_getter_v15)
    BY RequiresNames DEF check_vpn_service_packet_stream_getter_v15
<1>23. Naming("packet_parser.dart", check_sampled_packet_class_v15)
    BY RequiresNames DEF check_sampled_packet_class_v15
<1>24. Naming(Telemetry, check_telemetry_service_summary_upload_v15)
    BY RequiresNames DEF check_telemetry_service_summary_upload_v15
<1>25. Naming(Rtc, check_webrtc_service_rtc_peer_connection_v16)
    BY RequiresNames DEF check_webrtc_service_rtc_peer_connection_v16
<1>26. Naming(Orchestrator, check_session_orchestrator_start_session_v16)
    BY RequiresNames DEF check_session_orchestrator_start_session_v16
<1>27. Naming(Scores, check_skorlar_screen_fetch_scores_v17)
    BY RequiresNames DEF check_skorlar_screen_fetch_scores_v17
<1>28. Naming(Calculator, check_score_calculator_compute_v17)
    BY RequiresNames DEF check_score_calculator_compute_v17
<1>29. Naming("router.go", check_backend_sessions_close_handler_v17)
    BY RequiresNames DEF check_backend_sessions_close_handler_v17
<1>30. Naming("sessions.go", check_backend_summary_stats_shape_v17)
    BY RequiresNames DEF check_backend_summary_stats_shape_v17
<1>31. Naming("score_calculator_test.dart", check_score_calculator_unit_tests_v17)
    BY RequiresNames DEF check_score_calculator_unit_tests_v17
<1>32. Naming(Netty, check_tcp_state_machine_v43)
    BY GuardedNames DEF check_tcp_state_machine_v43
<1>33. /\ Result(5) = check_gradle_wrapper_version
       /\ Result(6) = check_agp_version
       /\ Result(8) = check_app_build_gradle_syntax_v2
       /\ Result(10) = check_mobile_entry_point_v4
       /\ Result(11) = check_android_xml_comments_v5
       /\ Result(14) = check_flutter_plugins_dependencies_v8
       /\ Result(15) = check_flutter_kotlin_embedding_v9
       /\ Result(16) = check_flutter_storage_repo_v10
       /\ Result(17) = check_gradle_wrapper_force_include
       /\ Result(18) = check_fresh_flutter_create_preserved
       /\ Result(20) = check_pubspec_baseline_shape
       /\ Result(22) = check_whatsapp_deeplink_literal_present
       /\ Result(23) = check_active_pool_linechart_literal_present
       /\ Result(24) = check_pool_provider_no_fake_animation_v29
       /\ Result(26) = check_vpn_service_mtu_and_fragment_log_v31
       /\ Result(32) = check_manifest_change_network_state_v37
       /\ Result(42) = check_auth_service_exists
       /\ Result(46) = check_whatsapp_deeplink_intent_format
       /\ Result(47) = check_p2p_matcher_sessions_endpoint
       /\ Result(52) = check_main_activity_snapshot_call_v15
       /\ Result(53) = check_vpn_service_packet_stream_getter_v15
       /\ Result(55) = check_sampled_packet_class_v15
       /\ Result(58) = check_telemetry_service_summary_upload_v15
       /\ Result(60) = check_webrtc_service_rtc_peer_connection_v16
       /\ Result(62) = check_session_orchestrator_start_session_v16
       /\ Result(67) = check_skorlar_screen_fetch_scores_v17
       /\ Result(68) = check_score_calculator_compute_v17
       /\ Result(76) = check_backend_sessions_close_handler_v17
       /\ Result(77) = check_backend_summary_stats_shape_v17
       /\ Result(78) = check_score_calculator_unit_tests_v17
       /\ Result(89) = check_tcp_state_machine_v43
    <2>1. /\ Result(5) = check_gradle_wrapper_version
          /\ Result(6) = check_agp_version
          /\ Result(8) = check_app_build_gradle_syntax_v2
          /\ Result(10) = check_mobile_entry_point_v4
          /\ Result(11) = check_android_xml_comments_v5
          /\ Result(14) = check_flutter_plugins_dependencies_v8
          /\ Result(15) = check_flutter_kotlin_embedding_v9
          /\ Result(16) = check_flutter_storage_repo_v10
          /\ Result(17) = check_gradle_wrapper_force_include
          /\ Result(18) = check_fresh_flutter_create_preserved
          /\ Result(20) = check_pubspec_baseline_shape
        BY SMTT(60) DEF Result, SprintNine
    <2>2. /\ Result(22) = check_whatsapp_deeplink_literal_present
          /\ Result(23) = check_active_pool_linechart_literal_present
          /\ Result(24) = check_pool_provider_no_fake_animation_v29
          /\ Result(26) = check_vpn_service_mtu_and_fragment_log_v31
          /\ Result(32) = check_manifest_change_network_state_v37
          /\ Result(42) = check_auth_service_exists
          /\ Result(46) = check_whatsapp_deeplink_intent_format
          /\ Result(47) = check_p2p_matcher_sessions_endpoint
        BY SMTT(60) DEF Result, SprintTen
    <2>3. /\ Result(52) = check_main_activity_snapshot_call_v15
          /\ Result(53) = check_vpn_service_packet_stream_getter_v15
          /\ Result(55) = check_sampled_packet_class_v15
          /\ Result(58) = check_telemetry_service_summary_upload_v15
          /\ Result(60) = check_webrtc_service_rtc_peer_connection_v16
          /\ Result(62) = check_session_orchestrator_start_session_v16
          /\ Result(67) = check_skorlar_screen_fetch_scores_v17
          /\ Result(68) = check_score_calculator_compute_v17
          /\ Result(76) = check_backend_sessions_close_handler_v17
          /\ Result(77) = check_backend_summary_stats_shape_v17
          /\ Result(78) = check_score_calculator_unit_tests_v17
        BY SMTT(60) DEF Result, Milestones
    <2>4. Result(89) = check_tcp_state_machine_v43
        BY SMTT(60) DEF Result, Regressions
    <2>5. QED  BY <2>1, <2>2, <2>3, <2>4
<1>34. \A v \in Readings :
        \/ \E i \in 1..4 : v[1] = i /\ v[2] = Workflows[i]
        \/ v[1] = 5 /\ v[2] = "gradle-wrapper.properties"
        \/ v[1] = 6 /\ v[2] = "build.gradle.kts"
        \/ v[1] = 8 /\ v[2] = "app/build.gradle.kts"
        \/ v[1] = 10 /\ v[2] = "main.dart"
        \/ v[1] = 11 /\ v[2] = "res/xml"
        \/ v[1] = 14 /\ v[2] = ".flutter-plugins-dependencies"
        \/ v[1] = 15 /\ v[2] = "engine.version"
        \/ v[1] = 16 /\ v[2] = "settings.gradle.kts"
        \/ v[1] = 17 /\ v[2] = ".gitignore"
        \/ v[1] = 18 /\ v[2] = "pubspec.lock"
        \/ v[1] = 20 /\ v[2] = "pubspec.yaml"
        \/ v[1] = 22 /\ v[2] = TaskScreen
        \/ v[1] = 23 /\ v[2] = Screen
        \/ v[1] = 24 /\ v[2] = Pool
        \/ v[1] = 26 /\ v[2] = Service
        \/ v[1] = 32 /\ v[2] = "AndroidManifest.xml"
        \/ v[1] = 42 /\ v[2] = AuthService
        \/ v[1] = 46 /\ v[2] = Deeplink
        \/ v[1] = 47 /\ v[2] = Matcher
        \/ v[1] = 52 /\ v[2] = Activity
        \/ v[1] = 53 /\ v[2] = VpnDart
        \/ v[1] = 55 /\ v[2] = "packet_parser.dart"
        \/ v[1] = 58 /\ v[2] = Telemetry
        \/ v[1] = 60 /\ v[2] = Rtc
        \/ v[1] = 62 /\ v[2] = Orchestrator
        \/ v[1] = 67 /\ v[2] = Scores
        \/ v[1] = 68 /\ v[2] = Calculator
        \/ v[1] = 76 /\ v[2] = "router.go"
        \/ v[1] = 77 /\ v[2] = "sessions.go"
        \/ v[1] = 78 /\ v[2] = "score_calculator_test.dart"
        \/ v[1] = 89 /\ v[2] = Netty
    BY SMT DEF Readings
<1>35. QED  BY <1>1, <1>2, <1>3, <1>4, <1>5, <1>6, <1>7, <1>8, <1>9, <1>10, <1>11, <1>12,
    <1>13, <1>14, <1>15, <1>16, <1>17, <1>18, <1>19, <1>20, <1>21, <1>22, <1>23, <1>24,
    <1>25, <1>26, <1>27, <1>28, <1>29, <1>30, <1>31, <1>32, <1>33, <1>34


\* The check of the resources names what is missing in res, or res itself.
LEMMA ResourcesName ==
    \A f \in {"res", "styles.xml", "launch_background.xml"} :
        /\ f \in gone \/ (f = "styles.xml" /\ f \in garbled)
        /\ Abort \notin check_android_res_skeleton_v7
        => Told(f, check_android_res_skeleton_v7)
<1> DEFINE found == check_android_res_skeleton_v7
           styles == "styles.xml"
           launch == "launch_background.xml"
<1>1. CASE "res" \in gone
    <2>1. found = Missing("S10", "res")  BY <1>1 DEF check_android_res_skeleton_v7
    <2>2. Named("res", found)  BY <2>1, MissingNames
    <2>3. \A f \in {"res", styles, launch} : f \in Within("res")  BY DEF Within
    <2> HIDE DEF found
    <2>4. \A f \in {"res", styles, launch} : Told(f, found)  BY <1>1, <2>2, <2>3 DEF Told
    <2>5. QED  BY <2>4 DEF found
<1>2. CASE "res" \notin gone
    <2>1. styles \in gone => Missing("S10", styles) \subseteq found
        BY <1>2 DEF check_android_res_skeleton_v7
    <2>2. styles \in garbled \ gone /\ Abort \notin found
              => {Finding("S10", styles, {"valid xml"})} \subseteq found
        BY <1>2 DEF check_android_res_skeleton_v7
    <2>3. launch \in gone => Missing("S10", launch) \subseteq found
        BY <1>2 DEF check_android_res_skeleton_v7
    <2>4. Named(styles, Missing("S10", styles)) /\ Named(launch, Missing("S10", launch))
        BY MissingNames
    <2>5. Named(styles, {Finding("S10", styles, {"valid xml"})})  BY AboutNames
    <2>6. styles \in Within(styles) /\ launch \in Within(launch)  BY DEF Within
    <2> HIDE DEF found
    <2>7. /\ styles \in gone \union garbled /\ Abort \notin found => Named(styles, found)
          /\ launch \in gone => Named(launch, found)
        BY <2>1, <2>2, <2>3, <2>4, <2>5 DEF Named
    <2>8. /\ styles \in gone \union garbled /\ Abort \notin found => Told(styles, found)
          /\ launch \in gone => Told(launch, found)
        BY <2>6, <2>7 DEF Told
    <2>9. QED  BY <1>2, <2>8 DEF found
<1>3. QED  BY <1>1, <1>2

\* The check of the wrapper names each of its files that is not there.
LEMMA WrapperNames ==
    \A f \in {"git", "gradlew", "gradlew.bat", "gradle-wrapper.jar"} :
        f \in gone /\ Abort \notin check_gradle_wrapper_force_include
            => Named(f, check_gradle_wrapper_force_include)
<1> DEFINE wrapper == {"gradlew", "gradlew.bat", "gradle-wrapper.jar"}
           found == check_gradle_wrapper_force_include
<1>1. \A f \in wrapper : f \in gone \/ "git" \in gone
          => Finding("S17", "git", {f}) \in found \/ found = {Abort}
    BY DEF check_gradle_wrapper_force_include, _git_ls_files_tracked
<1>2. \A f : Names(Finding("S17", "git", {f}), f) /\ Names(Finding("S17", "git", {f}), "git")
    BY DEF Names, Finding
<1> HIDE DEF found
<1>3. \A f \in wrapper : f \in gone /\ Abort \notin found => Named(f, found)
    BY <1>1, <1>2 DEF Named
<1>4. "git" \in gone /\ Abort \notin found => Named("git", found)
    BY <1>1, <1>2 DEF Named
<1>5. QED  BY <1>3, <1>4 DEF found

\* The files one of these checks asks for and cannot read.
Wanting(v) ==
    \/ v \in Readings /\ ~Legible(v[2])
    \/ v \in Demands /\ (v[2] \in gone \/ (v[2] = "styles.xml" /\ v[2] \in garbled))
    \/ v \in Listed /\ v[2] \in garbled \ gone

\* The check of the mock values names each provider that it cannot decode.
LEMMA ProvidersName ==
    \A f \in OtherState : f \in garbled \ gone => Named(f, check_dart_no_fake_ui_animation_v30)
<1> SUFFICES ASSUME NEW f \in OtherState, f \in garbled \ gone
             PROVE  Named(f, check_dart_no_fake_ui_animation_v30)
    OBVIOUS
<1> DEFINE fake(g) == Guarded("S86", g, Bans("S86", g, Stripped(g), MockTokens))
           files == ({Screen} \union State) \ gone
<1>1. f \in files  BY DEF State
<1>2. fake(f) = {Finding("S86", f, {"read failed"})}  BY DEF Guarded
<1>n. Named(f, {Finding("S86", f, {"read failed"})})  BY AboutNames
<1> HIDE DEF fake
<1>3. Named(f, fake(f))  BY <1>2, <1>n
<1> USE DEF fake
<1>4. UNION {fake(g) : g \in files} \subseteq check_dart_no_fake_ui_animation_v30
    BY DEF check_dart_no_fake_ui_animation_v30
<1> HIDE DEF fake
<1>5. fake(f) \subseteq UNION {fake(g) : g \in files}  BY <1>1
<1>6. QED  BY <1>3, <1>4, <1>5 DEF Named

\* Where main runs the two checks that ask for files they do not decode, and the
\* one that looks what files there are.
LEMMA DemandingChecks ==
    /\ Result(13) = check_android_res_skeleton_v7
    /\ Result(17) = check_gradle_wrapper_force_include
    /\ Result(25) = check_dart_no_fake_ui_animation_v30
<1>1. Result(13) = check_android_res_skeleton_v7
    BY SMTT(60) DEF Result, SprintNine
<1>2. Result(17) = check_gradle_wrapper_force_include
    BY SMTT(60) DEF Result, SprintNine
<1>3. Result(25) = check_dart_no_fake_ui_animation_v30
    BY SMTT(60) DEF Result, SprintTen
<1>4. QED  BY <1>1, <1>2, <1>3

\* No check is silent about a file it asks for and does not get.
LEMMA ChecksTell ==
    ASSUME NEW v \in Readings \union Demands \union Listed, Wanting(v), Abort \notin Result(v[1])
    PROVE  Told(v[2], Result(v[1]))
<1>1. \A f : f \in Within(f)  BY DEF Within
<1>2. \A f, F : ~Legible(f) /\ Named(f, F) => Told(f, F)  BY <1>1 DEF Told, Legible
<1>3. CASE v \in Readings /\ ~Legible(v[2])
    BY <1>2, <1>3, ReadersName DEF Naming
<1>4. /\ Result(13) = check_android_res_skeleton_v7
      /\ Result(17) = check_gradle_wrapper_force_include
      /\ Result(25) = check_dart_no_fake_ui_animation_v30
    BY DemandingChecks
<1>5. CASE v \in Demands /\ (v[2] \in gone \/ (v[2] = "styles.xml" /\ v[2] \in garbled))
    <2>1. \/ v[1] = 13 /\ v[2] \in {"res", "styles.xml", "launch_background.xml"}
          \/ v[1] = 17 /\ v[2] \in {"git", "gradlew", "gradlew.bat", "gradle-wrapper.jar"}
        BY <1>5 DEF Demands
    <2>2. CASE v[1] = 13 /\ v[2] \in {"res", "styles.xml", "launch_background.xml"}
        BY <1>4, <1>5, <2>2, ResourcesName
    <2>3. CASE v[1] = 17 /\ v[2] \in {"git", "gradlew", "gradlew.bat", "gradle-wrapper.jar"}
        <3>1. v[2] \in gone  BY <1>5, <2>3
        <3>2. Named(v[2], Result(v[1]))  BY <1>4, <2>3, <3>1, WrapperNames
        <3>3. QED  BY <1>2, <3>1, <3>2 DEF Legible
    <2>4. QED  BY <2>1, <2>2, <2>3
<1>6. CASE v \in Listed /\ v[2] \in garbled \ gone
    <2>1. v[1] = 25 /\ v[2] \in OtherState  BY <1>6 DEF Listed
    <2>2. Named(v[2], Result(v[1]))  BY <1>4, <1>6, <2>1, ProvidersName
    <2>3. QED  BY <1>2, <1>6, <2>2 DEF Legible
<1>7. QED  BY <1>3, <1>5, <1>6 DEF Wanting

\* What the checks that ran could not read is told by what they found.
ToldInv ==
    \A v \in Readings \union Demands \union Listed :
        step > v[1] /\ Wanting(v) => Told(v[2], findings)

\* Before the run begins no check ran, and in the run no file changes.
LEMMA ToldInvHolds == Spec => []ToldInv
<1>1. \A v \in Readings \union Demands \union Listed : v[1] \in 1..NumChecks
    BY DEF Readings, Demands, Listed, NumChecks
<1>2. Init => ToldInv
    BY <1>1 DEF Init, ToldInv, NumChecks
<1>3. Shape /\ ToldInv /\ [Next]_vars => ToldInv'
    <2> SUFFICES ASSUME Shape, ToldInv, [Next]_vars PROVE ToldInv'  OBVIOUS
    <2>1. CASE Edit
        <3>1. step' = 0  BY <2>1 DEF Edit, DeleteToken, CommentOut, AddBanned, MentionBanned,
                                DeleteFile, Garble, Editing
        <3>2. QED  BY <1>1, <3>1 DEF ToldInv, NumChecks
    <2>2. CASE Start
        <3>1. step' = 1  BY <2>2 DEF Start
        <3>2. QED  BY <1>1, <3>1 DEF ToldInv, NumChecks
    <2>3. CASE RunCheck
        <3>1. PICK F : F = Result(step)  OBVIOUS
        <3>2. /\ step \in 1..NumChecks /\ step' = step + 1 /\ Abort \notin F
              /\ findings' = findings \union F /\ gone' = gone /\ garbled' = garbled
            BY <2>3, <3>1 DEF RunCheck
        <3>3. SUFFICES ASSUME NEW v \in Readings \union Demands \union Listed,
                              step' > v[1], Wanting(v)'
                       PROVE  Told(v[2], findings)'
            BY DEF ToldInv
        <3>4. Wanting(v)  BY <3>2, <3>3 DEF Wanting, Legible
        <3>5. step > v[1] \/ v[1] = step  BY <1>1, <3>2, <3>3 DEF NumChecks
        <3>6. Told(v[2], findings) \/ Told(v[2], F)
            <4>1. CASE step > v[1]  BY <3>4, <4>1 DEF ToldInv
            <4>2. CASE v[1] = step  BY <3>1, <3>2, <3>4, <4>2, ChecksTell
            <4>3. QED  BY <3>5, <4>1, <4>2
        <3>7. Told(v[2], findings \union F)  BY <3>6 DEF Told, Named
        <3>8. QED  BY <3>2, <3>7 DEF Told, Named
    <2>4. CASE Raise \/ Verdict \/ UNCHANGED vars
        <3>1. UNCHANGED <<findings, step, gone, garbled>>
            BY <2>4 DEF Raise, Verdict, vars
        <3>2. QED  BY <3>1 DEF ToldInv, Wanting, Told, Named, Legible
    <2>5. QED  BY <2>1, <2>2, <2>3, <2>4 DEF Next, main
<1>4. QED  BY <1>2, <1>3, ShapeHolds, PTL DEF Spec

\* The files no check asks for by name.
Others == OtherScreens \union OtherState

\* Every file the audit asks for is in the list of some check.
LEMMA EveryFileHasACheck ==
    /\ \A f \in Decoded \ ({"styles.xml"} \union Others) : \E v \in Readings : v[2] = f
    /\ \A f \in Sought \union {"styles.xml"} : \E v \in Demands : v[2] = f
    /\ \A f \in OtherState : \E v \in Listed : v[2] = f
<1> DEFINE Has(S, f) == \E v \in S : v[2] = f
<1>1. \A S, i, f : <<i, f>> \in S => Has(S, f)
    <2> SUFFICES ASSUME NEW S, NEW i, NEW f, <<i, f>> \in S PROVE Has(S, f)  OBVIOUS
    <2>1. <<i, f>>[2] = f  OBVIOUS
    <2>2. QED  BY <2>1
<1> HIDE DEF Has
<1>2. \A i \in 1..4 : Has(Readings, Workflows[i])
    <2>1. \A i \in 1..4 : <<i, Workflows[i]>> \in Readings  BY DEF Readings
    <2>2. QED  BY <1>1, <2>1
<1>3. Has(Readings, "gradle-wrapper.properties")
    <2>1. <<5, "gradle-wrapper.properties">> \in Readings  BY DEF Readings
    <2>2. QED  BY <1>1, <2>1
<1>4. Has(Readings, "build.gradle.kts")
    <2>1. <<6, "build.gradle.kts">> \in Readings  BY DEF Readings
    <2>2. QED  BY <1>1, <2>1
<1>5. Has(Readings, "app/build.gradle.kts")
    <2>1. <<8, "app/build.gradle.kts">> \in Readings  BY DEF Readings
    <2>2. QED  BY <1>1, <2>1
<1>6. Has(Readings, "main.dart")
    <2>1. <<10, "main.dart">> \in Readings  BY DEF Readings
    <2>2. QED  BY <1>1, <2>1
<1>7. Has(Readings, "res/xml")
    <2>1. <<11, "res/xml">> \in Readings  BY DEF Readings
    <2>2. QED  BY <1>1, <2>1
<1>8. Has(Readings, ".flutter-plugins-dependencies")
    <2>1. <<14, ".flutter-plugins-dependencies">> \in Readings  BY DEF Readings
    <2>2. QED  BY <1>1, <2>1
<1>9. Has(Readings, "engine.version")
    <2>1. <<15, "engine.version">> \in Readings  BY DEF Readings
    <2>2. QED  BY <1>1, <2>1
<1>10. Has(Readings, "settings.gradle.kts")
    <2>1. <<16, "settings.gradle.kts">> \in Readings  BY DEF Readings
    <2>2. QED  BY <1>1, <2>1
<1>11. Has(Readings, ".gitignore")
    <2>1. <<17, ".gitignore">> \in Readings  BY DEF Readings
    <2>2. QED  BY <1>1, <2>1
<1>12. Has(Readings, "pubspec.lock")
    <2>1. <<18, "pubspec.lock">> \in Readings  BY DEF Readings
    <2>2. QED  BY <1>1, <2>1
<1>13. Has(Readings, "pubspec.yaml")
    <2>1. <<20, "pubspec.yaml">> \in Readings  BY DEF Readings
    <2>2. QED  BY <1>1, <2>1
<1>14. Has(Readings, TaskScreen)
    <2>1. <<22, TaskScreen>> \in Readings  BY DEF Readings
    <2>2. QED  BY <1>1, <2>1
<1>15. Has(Readings, Screen)
    <2>1. <<23, Screen>> \in Readings  BY DEF Readings
    <2>2. QED  BY <1>1, <2>1
<1>16. Has(Readings, Pool)
    <2>1. <<24, Pool>> \in Readings  BY DEF Readings
    <2>2. QED  BY <1>1, <2>1
<1>17. Has(Readings, Service)
    <2>1. <<26, Service>> \in Readings  BY DEF Readings
    <2>2. QED  BY <1>1, <2>1
<1>18. Has(Readings, "AndroidManifest.xml")
    <2>1. <<32, "AndroidManifest.xml">> \in Readings  BY DEF Readings
    <2>2. QED  BY <1>1, <2>1
<1>19. Has(Readings, AuthService)
    <2>1. <<42, AuthService>> \in Readings  BY DEF Readings
    <2>2. QED  BY <1>1, <2>1
<1>20. Has(Readings, Deeplink)
    <2>1. <<46, Deeplink>> \in Readings  BY DEF Readings
    <2>2. QED  BY <1>1, <2>1
<1>21. Has(Readings, Matcher)
    <2>1. <<47, Matcher>> \in Readings  BY DEF Readings
    <2>2. QED  BY <1>1, <2>1
<1>22. Has(Readings, Activity)
    <2>1. <<52, Activity>> \in Readings  BY DEF Readings
    <2>2. QED  BY <1>1, <2>1
<1>23. Has(Readings, VpnDart)
    <2>1. <<53, VpnDart>> \in Readings  BY DEF Readings
    <2>2. QED  BY <1>1, <2>1
<1>24. Has(Readings, "packet_parser.dart")
    <2>1. <<55, "packet_parser.dart">> \in Readings  BY DEF Readings
    <2>2. QED  BY <1>1, <2>1
<1>25. Has(Readings, Telemetry)
    <2>1. <<58, Telemetry>> \in Readings  BY DEF Readings
    <2>2. QED  BY <1>1, <2>1
<1>26. Has(Readings, Rtc)
    <2>1. <<60, Rtc>> \in Readings  BY DEF Readings
    <2>2. QED  BY <1>1, <2>1
<1>27. Has(Readings, Orchestrator)
    <2>1. <<62, Orchestrator>> \in Readings  BY DEF Readings
    <2>2. QED  BY <1>1, <2>1
<1>28. Has(Readings, Scores)
    <2>1. <<67, Scores>> \in Readings  BY DEF Readings
    <2>2. QED  BY <1>1, <2>1
<1>29. Has(Readings, Calculator)
    <2>1. <<68, Calculator>> \in Readings  BY DEF Readings
    <2>2. QED  BY <1>1, <2>1
<1>30. Has(Readings, "router.go")
    <2>1. <<76, "router.go">> \in Readings  BY DEF Readings
    <2>2. QED  BY <1>1, <2>1
<1>31. Has(Readings, "sessions.go")
    <2>1. <<77, "sessions.go">> \in Readings  BY DEF Readings
    <2>2. QED  BY <1>1, <2>1
<1>32. Has(Readings, "score_calculator_test.dart")
    <2>1. <<78, "score_calculator_test.dart">> \in Readings  BY DEF Readings
    <2>2. QED  BY <1>1, <2>1
<1>33. Has(Readings, Netty)
    <2>1. <<89, Netty>> \in Readings  BY DEF Readings
    <2>2. QED  BY <1>1, <2>1
<1>34. \A f \in Decoded \ ({"styles.xml"} \union Others) : Has(Readings, f)
    BY <1>2, <1>3, <1>4, <1>5, <1>6, <1>7, <1>8, <1>9, <1>10, <1>11, <1>12, <1>13, <1>14,
       <1>15, <1>16, <1>17, <1>18, <1>19, <1>20, <1>21, <1>22, <1>23, <1>24, <1>25, <1>26,
       <1>27, <1>28, <1>29, <1>30, <1>31, <1>32, <1>33 DEF Decoded, Undecoded, Screens, State,
       Others
<1>35. \A f \in Sought \union {"styles.xml"} : Has(Demands, f)
    <2>1. \A f \in Sought \union {"styles.xml"} : <<13, f>> \in Demands \/ <<17, f>> \in Demands
        BY DEF Sought, Demands
    <2>2. QED  BY <1>1, <2>1
<1>36. \A f \in OtherState : Has(Listed, f)
    <2>1. \A f \in OtherState : <<25, f>> \in Listed  BY DEF Listed
    <2>2. QED  BY <1>1, <2>1
<1>37. QED  BY <1>34, <1>35, <1>36 DEF Has

\* A run that decides its exit code went through all the checks.
Finished == Done => step = NumChecks + 1

\* It is decided after the last check.
LEMMA FinishedHolds == Spec => []Finished
<1>1. Init => Finished  BY DEF Init, Finished, Done
<1>2. Shape /\ Finished /\ [Next]_vars => Finished'
    <2> SUFFICES ASSUME Shape, Finished, [Next]_vars PROVE Finished'  OBVIOUS
    <2>1. CASE Edit \/ Start
        <3>1. step = 0 /\ exit' = exit
            BY <2>1 DEF Edit, DeleteToken, CommentOut, AddBanned, MentionBanned, DeleteFile,
                        Garble, Editing, Start
        <3>2. QED  BY <3>1 DEF Shape, Finished, Done
    <2>2. CASE RunCheck \/ Raise  BY <2>2 DEF RunCheck, Raise, Finished, Done
    <2>3. CASE Verdict \/ UNCHANGED vars  BY <2>3 DEF Verdict, vars, Finished, Done
    <2>4. QED  BY <2>1, <2>2, <2>3 DEF Next, main
<1>3. QED  BY <1>1, <1>2, ShapeHolds, PTL DEF Spec

\* However often the repository was edited, a run that prints its findings
\* names every file it could not read, but for the screens and the missing
\* providers that no check asks for by name: no finding is about those.
THEOREM UnreadableIsNamed == Spec => []UnreadableIsReported
<1>1. Shape /\ ToldInv /\ Finished => UnreadableIsReported
    <2> SUFFICES ASSUME Shape, ToldInv, Finished, Done, NEW f \in gone \union garbled
                 PROVE  IF PassedOver(f) THEN \A r \in printed : r.file # f
                        ELSE Told(f, printed)
        BY DEF UnreadableIsReported, Told, Named
    <2>1. step = NumChecks + 1 /\ printed = findings
        BY DEF Shape, TypeOK, Finished
    <2>2. f \in Decoded \union Sought /\ (f \in garbled => f \in Decoded)
        BY AuditAssumption DEF Shape, TypeOK
    <2>3. CASE PassedOver(f)
        <3>1. \A r \in printed : ~PassedOver(r.file)  BY <2>1 DEF Shape
        <3>2. QED  BY <2>3, <3>1
    <2>4. CASE ~PassedOver(f)
        <3>1. \E v \in Readings \union Demands \union Listed : v[2] = f /\ Wanting(v)
            <4>1. CASE f \in Decoded \ ({"styles.xml"} \union Others)
                <5>1. PICK v \in Readings : v[2] = f  BY <4>1, EveryFileHasACheck
                <5>2. QED  BY <5>1 DEF Wanting, Legible
            <4>2. CASE f \in Others
                <5>1. f \in OtherState /\ f \in garbled \ gone
                    BY <2>4, <4>2 DEF Others, PassedOver
                <5>2. PICK v \in Listed : v[2] = f  BY <5>1, EveryFileHasACheck
                <5>3. QED  BY <5>1, <5>2 DEF Wanting
            <4>3. CASE f \notin Decoded \ {"styles.xml"}
                <5>1. f \in Sought \union {"styles.xml"}  BY <2>2, <4>3
                <5>2. PICK v \in Demands : v[2] = f  BY <5>1, EveryFileHasACheck
                <5>3. f \in gone \/ (f = "styles.xml" /\ f \in garbled)  BY <2>2, <4>3
                <5>4. QED  BY <5>2, <5>3 DEF Wanting
            <4>4. QED  BY <4>1, <4>2, <4>3
        <3>2. PICK v \in Readings \union Demands \union Listed : v[2] = f /\ Wanting(v)
            BY <3>1
        <3>3. step > v[1]  BY <2>1 DEF Readings, Demands, Listed, NumChecks
        <3>4. Told(f, findings)  BY <3>2, <3>3 DEF ToldInv
        <3>5. QED  BY <2>1, <2>4, <3>4
    <2>5. QED  BY <2>3, <2>4
<1>2. QED  BY <1>1, ShapeHolds, ToldInvHolds, FinishedHolds, PTL
=============================================================================
