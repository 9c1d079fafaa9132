---------------------------- MODULE BuildChecks ----------------------------
(***************************************************************************)
(* The checks of tools/workflow-yaml-audit.py on the build: the workflows, *)
(* Gradle, the manifest, the resources and what git tracks (S1 to S20).    *)
(* A structure that a parser delivers (a YAML key, an XML element, a       *)
(* version that is high enough) is a token of the file it is parsed from.  *)
(***************************************************************************)
EXTENDS AuditedRepo

Workflows == <<"android-debug.yml", "ci.yml", "ios.yml", "android-release.yml">>

\* What the checks take for granted in what a parser delivers: where it is not so,
\* the parser or the walk over its result raises an exception that nothing catches.
\* A list or a scalar has no get and no items, a null no steps to walk, keys of two
\* types no order, the date 2024-99-99 no value.
TakenForGranted ==
    ({Workflows[i] : i \in 1..4} \X {"valid yaml", "top-level mapping", "comparable triggers"})
    \union ({"android-debug.yml"} \X {"jobs is a mapping", "steps to walk"})
    \union ({"pubspec.yaml", "pubspec.lock", ".flutter-plugins-dependencies"}
              \X {"constructible scalars"})
    \union ({"AndroidManifest.xml", "styles.xml"} \X {"known encoding"})

\* The YAML documents of a workflow: a syntax error is not caught, and of the only
\* document the first thing asked is d.get.
ParsedWorkflow(id, f, findings) ==
    LET text == Stripped(f)
    IN  IF f \in garbled \/ "valid yaml" \notin text THEN {Abort}
        ELSE IF "one document" \notin text THEN {Finding(id, f, {"one document"})}
        ELSE IF "top-level mapping" \notin text THEN {Abort}
        ELSE findings

\* The steps of android-debug.yml: where there is no job, no step of one is missed.
DebugSteps(f) ==
    LET text == Stripped(f)
    IN  IF "jobs is a mapping" \notin text THEN {Abort}
        ELSE IF "a job" \notin text THEN {}
        ELSE IF "steps to walk" \notin text THEN {Abort}
        ELSE Lacks("workflow", f, text, Each(
                 {"uses: subosito/flutter-action", "with: flutter-version",
                  "Generate local.properties from which flutter",
                  "Verify Flutter SDK path flutter_tools/gradle"}))

audit_workflow(f) ==
    LET text == Stripped(f)
        shape == FirstLack("workflow", f, text, <<{"on:"}, {"on: is a mapping"}>>)
        triggers == Lacks("workflow", f, text, {{"on: workflow_dispatch and no other"}})
        body == IF f = "android-debug.yml" THEN DebugSteps(f)
                ELSE Bans("workflow", f, text, {"workflow_dispatch: inputs"})
    IN  IF f \in gone THEN Missing("workflow", f)
        ELSE ParsedWorkflow("workflow", f,
                 IF shape # {} THEN shape
                 ELSE IF "comparable triggers" \notin text THEN {Abort}
                 ELSE triggers \union body)

check_gradle_wrapper_version ==
    LET f == "gradle-wrapper.properties"
    IN  Unguarded("gradle", f, FirstLack("gradle", f, Raw(f),
            <<{"gradle-X.Y-bin.zip"}, {"gradle at least 8.7"}>>))

check_agp_version ==
    LET f == "build.gradle.kts"
    IN  Unguarded("agp", f, FirstLack("agp", f, Raw(f),
            <<{"id(com.android.application) version X.Y"}, {"agp at least 8.6"}>>))

check_kotlin_version ==
    LET f == "build.gradle.kts"
    IN  Unguarded("kotlin", f, FirstLack("kotlin", f, Raw(f),
            <<{"id(org.jetbrains.kotlin.android) version X.Y"}, {"kotlin at least 2.2"}>>))

check_app_build_gradle_syntax_v2 ==
    LET f == "app/build.gradle.kts"
    IN  Unguarded("syntax", f,
            Lacks("syntax", f, Stripped(f), Each(
                {"import java.util.Properties", "import org.jetbrains.kotlin.gradle.dsl.JvmTarget",
                 "kotlin { compilerOptions { jvmTarget.set(JvmTarget.JVM_17)"}))
            \union Bans("syntax", f, Stripped(f),
                {"kotlinOptions { jvmTarget = 17", "java.util.Properties()"}))

\* The first walk passes over jobs and steps that are none; when it finds no step, a
\* second one, for a better message, does not.
check_android_debug_workflow_v3 ==
    LET f == "android-debug.yml"
        text == Stripped(f)
        install == "Install Flutter dependencies: flutter pub get"
        walk == IF install \notin text /\ "a job" \in text /\ "steps to walk" \notin text
                THEN {Abort}
                ELSE FirstLack("S6", f, text, <<{install}, {"working-directory: ./mobile"}>>)
    IN  IF f \in gone THEN Missing("S6", f)
        ELSE ParsedWorkflow("S6", f,
                 IF "jobs is a mapping" \notin text THEN {Abort} ELSE walk)

\* What a loader makes of a file: its syntax errors are caught, a scalar that it
\* cannot give a value is not.
Loaded(f, syntax, findings) ==
    IF syntax \in Stripped(f) /\ "constructible scalars" \notin Stripped(f) THEN {Abort}
    ELSE findings

check_mobile_entry_point_v4 ==
    LET dart == "main.dart"
        pub == "pubspec.yaml"
        calls == Lacks("S7", dart, Raw(dart), Each({"runApp(", "ProviderScope"}))
        shape == FirstLack("S7", pub, Stripped(pub), <<{"valid yaml"}, {"top-level mapping"}>>)
        deps == Lacks("S7", pub, Stripped(pub), Each({"flutter_riverpod", "go_router"}))
    IN  Unguarded("S7", dart, calls \union
            Unguarded("S7", pub,
                Loaded(pub, "valid yaml", IF shape # {} THEN shape ELSE deps)))

\* expat already refuses "--" inside a comment, so the scan for it finds nothing more.
check_android_xml_comments_v5 ==
    LET f == "res/xml"
    IN  Unguarded("S8", f,
            IF "-- inside a comment" \in Raw(f) \/ "valid xml" \notin Stripped(f)
            THEN {Finding("S8", f, {"valid xml", "-- inside a comment"})} ELSE {})

\* The manifest is parsed in the encoding it declares and then read as UTF-8.
check_android_manifest_v6 ==
    LET f == "AndroidManifest.xml"
        app == "app/build.gradle.kts"
        spec == Bans("S9", f, Stripped(f),
                     {"manifest package=", "tools:remove usesCleartextTraffic"})
                \union Lacks("S9", f, Raw(f), {{"xmlns:tools="}})
        namespace == Lacks("S9", app, Raw(app), {{"namespace = com.opene2ee.opene2ee"}})
        undecoded == f \in garbled /\ "no encoding but UTF-8 declared" \in Stripped(f)
    IN  IF f \in gone THEN Missing("S9", f)
        ELSE IF "known encoding" \notin Stripped(f) THEN {Abort}
        ELSE IF undecoded \/ "valid xml" \notin Stripped(f) THEN {Finding("S9", f, {"valid xml"})}
        ELSE IF f \in garbled THEN {Abort}
        ELSE spec \union Unguarded("S9", app, namespace)

check_android_res_skeleton_v7 ==
    LET styles == "styles.xml"
        themes == IF "known encoding" \notin Stripped(styles) THEN {Abort}
                  ELSE IF styles \in garbled \/ "valid xml" \notin Stripped(styles)
                  THEN {Finding("S10", styles, {"valid xml"})}
                  ELSE Lacks("S10", styles, Stripped(styles), Each({"LaunchTheme", "NormalTheme"}))
    IN  IF "res" \in gone THEN Missing("S10", "res")
        ELSE (IF styles \in gone THEN Missing("S10", styles) ELSE themes)
             \union Lacks("S10", "res", Stripped("res"), {{"a mipmap directory with an icon"}})
             \union (IF "launch_background.xml" \in gone
                     THEN Missing("S10", "launch_background.xml") ELSE {})

check_flutter_plugins_dependencies_v8 ==
    LET f == ".flutter-plugins-dependencies"
        shape == FirstLack("S11", f, Stripped(f),
                     <<{"valid json"}, {"top-level mapping"}, {"plugins"}, {"plugins.android"},
                       {"a plugin entry"}>>)
        entry == Lacks("S11", f, Stripped(f), Each({"entry name", "entry native_build"}))
    IN  Unguarded("S11", f, Loaded(f, "valid json", IF shape # {} THEN shape ELSE entry))

check_flutter_kotlin_embedding_v9 ==
    LET app == "app/build.gradle.kts"
        sdk == "engine.version"
        declared == FirstLack("S12", app, Raw(app),
                        <<{"dependencies {"}, {"dependencies block balanced"},
                          {"io.flutter:flutter_embedding_ktx"},
                          {"io.flutter:flutter_embedding_ktx:1.0.0-hash"}>>)
        engine == FirstLack("S12", sdk, Raw(sdk), <<{"a 40-digit hash"}>>)
        same == Lacks("S12", app, Raw(app), {{"declared hash is the engine's"}})
    IN  Unguarded("S12", app,
            IF declared # {} THEN declared
            ELSE Unguarded("S12", sdk, IF engine # {} THEN engine ELSE same))

\* Only an unbalanced block is a finding: no path reports that the repository is undeclared.
check_flutter_storage_repo_v10 ==
    LET f == "settings.gradle.kts"
        app == "app/build.gradle.kts"
        unbalanced == "dependencyResolutionManagement {" \in Raw(f)
                      /\ "dependencyResolutionManagement balanced" \notin Raw(f)
        declared == "dependencyResolutionManagement {" \in Raw(f)
                    /\ "download.flutter.io in dependencyResolutionManagement" \in Raw(f)
    IN  Unguarded("S13", f,
            IF unbalanced THEN {Finding("S13", f, {"dependencyResolutionManagement balanced"})}
            ELSE IF declared \/ app \notin garbled \/ app \in gone THEN {} ELSE {Abort})

\* git ls-files fails closed: without git, or outside a repository, nothing is tracked.
_git_ls_files_tracked(path) == "git" \notin gone /\ path \in code["git"]

\* The .gitignore patterns a check needs and does not find.
MissingPatterns(patterns) ==
    IF ".gitignore" \in gone THEN patterns ELSE patterns \ Raw(".gitignore")

check_gradle_wrapper_force_include ==
    LET wrapper == {"gradlew", "gradlew.bat", "gradle-wrapper.jar"}
        untracked == {f \in wrapper : ~_git_ls_files_tracked(f) \/ f \in gone}
        unincluded == MissingPatterns({"!**/android/gradlew", "!**/android/gradlew.bat",
                                       "!**/android/gradle/wrapper/gradle-wrapper.jar"})
    IN  IF ".gitignore" \in garbled \ gone THEN {Abort}
        ELSE {Finding("S17", "git", {f}) : f \in untracked}
             \union {Finding("S17", ".gitignore", {p}) : p \in unincluded}

check_fresh_flutter_create_preserved ==
    LET f == "pubspec.lock"
        shape == FirstLack("S18", f, Stripped(f),
                     <<{"valid yaml"}, {"top-level mapping"}, {"packages"}, {"packages.flutter"},
                       {"packages.flutter.source: sdk"}>>)
        unexcluded == MissingPatterns({"**/android/.gradle/", "**/android/local.properties",
                                       "**/.dart_tool/", "**/.flutter-plugins-dependencies"})
    IN  IF ~_git_ls_files_tracked(f) THEN {Finding("S18", "git", {f})}
        ELSE Unguarded("S18", f, Loaded(f, "valid yaml",
                 IF shape # {} THEN shape
                 ELSE IF ".gitignore" \in garbled \ gone THEN {Abort}
                 ELSE {Finding("S18", ".gitignore", {p}) : p \in unexcluded}))

check_fresh_create_metadata_tracked ==
    {Finding("S19", "git", {f}) :
        f \in {f \in {".metadata", "android/.gitignore"} : ~_git_ls_files_tracked(f)}}

check_pubspec_baseline_shape ==
    LET f == "pubspec.yaml"
        shape == FirstLack("S20", f, Stripped(f), <<{"valid yaml"}, {"top-level mapping"}>>)
        baseline == Lacks("S20", f, Stripped(f), Each(
                        {"name", "environment.sdk", "dependencies.flutter.sdk: flutter",
                         "dev_dependencies.flutter_test.sdk: flutter"}))
    IN  Unguarded("S20", f, Loaded(f, "valid yaml",
            IF shape # {} THEN shape ELSE AsOne("S20", f, baseline)))
=============================================================================
