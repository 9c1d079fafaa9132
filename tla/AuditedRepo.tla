---------------------------- MODULE AuditedRepo ----------------------------
(***************************************************************************)
(* The repository as tools/workflow-yaml-audit.py reads it.                *)
(*                                                                         *)
(* A file is the set of tokens that stand in it: the substrings, patterns  *)
(* and parsed facts the audit looks for, each named by its own text.  A    *)
(* token stands in code or only in a comment.  Part says which tokens are  *)
(* substrings of which, so that one text can satisfy two checks, or        *)
(* satisfy one and offend another.  What a check reports is a set of       *)
(* findings, each naming the check, the file and the tokens it is about.   *)
(***************************************************************************)
EXTENDS Naturals, FiniteSets, Sequences, FiniteSetsExt

CONSTANT
    Part       \* Part[t]: the tokens whose text is a part of the text of t

VARIABLES
    code,      \* code[f]: the tokens of file f that stand in code
    notes,     \* notes[f]: the tokens of f that stand only in comments
    gone,      \* the files that do not exist
    garbled    \* the files whose bytes are not UTF-8 (of styles.xml, which only
               \* the XML parser reads, not in the encoding it declares)

repo == <<code, notes, gone, garbled>>

\* A text that holds the tokens of T holds their substrings as well.
Holding(T) == T \union UNION {Part[t] : t \in T \intersect DOMAIN Part}

\* The whole text of a file, comments included, as read_text returns it.
Raw(f) == Holding(code[f] \union notes[f])

\* strip_comments and its copies inside the checks: comments are dropped, strings kept.
Stripped(f) == Holding(code[f])

\* One entry of the findings list.
Finding(id, f, about) == [check |-> id, file |-> f, about |-> about]

\* An exception that no handler in the check or in main catches.
Abort == Finding("exception", "", {})

\* One requirement per token of T.
Each(T) == {{t} : t \in T}

\* Of each group of alternatives at least one has to stand in the text.
Lacks(id, f, text, groups) == {Finding(id, f, g) : g \in {g \in groups : g \intersect text = {}}}

\* None of the tokens of T may stand in the text.
Bans(id, f, text, T) == {Finding(id, f, {t}) : t \in T \intersect text}

\* A series of requirements that returns at the first one the text fails.
FirstLack(id, f, text, groups) ==
    LET failed == {i \in DOMAIN groups : groups[i] \intersect text = {}}
    IN  IF failed = {} THEN {} ELSE {Finding(id, f, groups[Min(failed)])}

\* A check that collects what it misses and reports it as one finding.
AsOne(id, f, findings) ==
    IF findings = {} THEN {}
    ELSE {Finding(id, f, UNION {r.about : r \in findings})}

Missing(id, f) == {Finding(id, f, {"file missing"})}

\* A check that passes over a missing file.
GuardedIfPresent(id, f, findings) ==
    IF f \in gone THEN {}
    ELSE IF f \in garbled THEN {Finding(id, f, {"read failed"})}
    ELSE findings

\* A check that catches OSError only.
GuardedFromOSError(id, f, findings) ==
    IF f \in gone THEN Missing(id, f)
    ELSE IF f \in garbled THEN {Abort}
    ELSE findings

\* read_text under "except (UnicodeDecodeError, OSError)".
Guarded(id, f, findings) ==
    IF f \in gone THEN Missing(id, f)
    ELSE IF f \in garbled THEN {Finding(id, f, {"read failed"})}
    ELSE findings

\* read_text without a handler.
Unguarded(id, f, findings) ==
    IF f \in gone THEN Missing(id, f)
    ELSE IF f \in garbled THEN {Abort}
    ELSE findings
=============================================================================
