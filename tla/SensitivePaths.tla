--------------------------- MODULE SensitivePaths ---------------------------
(***************************************************************************)
(* Which opens of sensitive files become evidence.  The operator names the *)
(* files by patterns.  The eBPF programs cannot run a glob matcher, so     *)
(* they gate on the bytes before a pattern's first wildcard; the reader    *)
(* matches the whole pattern on what passed (jalki/src/sensitive_paths.rs, *)
(* jalki-ebpf/src/file_open.rs, jalki/src/reader.rs).  Both halves must    *)
(* agree on what a pattern means, and neither sees the whole of a path     *)
(* that does not fit the event's buffer.                                   *)
(*                                                                         *)
(* A pattern and a path are sequences of one-character strings.            *)
(***************************************************************************)
EXTENDS Integers, Sequences, SequencesExt

CONSTANTS
  PatternLists,   \* what the operator may configure: sequences of patterns
  Paths,          \* the absolute paths processes open
  MaxPrefixes,    \* MAX_SENSITIVE_PREFIXES: slots of the kernel's map
  PrefixLen,      \* SENSITIVE_PREFIX_LEN: bytes a slot holds
  PathLen         \* FILE_OPEN_PATH_LEN: bytes of the event's path buffer

ASSUME SizesAreNat == MaxPrefixes \in Nat /\ PrefixLen \in Nat /\ PathLen \in Nat \ {0}

VARIABLES
  patterns,   \* the configured patterns, in order
  prefixes,   \* SENSITIVE_PREFIXES as the loader filled it; <<>> before
  open        \* the open(2) under way, or Idle

vars == <<patterns, prefixes, open>>

Idle == [stage |-> "idle"]
Wildcards == {"*", "?", "["}
-----------------------------------------------------------------------------
(* The userspace half. *)

IsGlob(pattern) == \E i \in DOMAIN pattern : pattern[i] \in Wildcards

\* Mutant: the matcher forgets where the last `*` was tried.
glob_match_no_advance(pattern, value) ==
  LET P == Len(pattern)
      go[s \in [p : 1..P + 1, v : 1..Len(value) + 1, star : 0..P]] ==
        IF s.v > Len(value) THEN \A i \in s.p..P : pattern[i] = "*"
        ELSE IF s.p <= P /\ pattern[s.p] \in {"?", value[s.v]}
        THEN go[[s EXCEPT !.p = @ + 1, !.v = @ + 1]]
        ELSE IF s.p <= P /\ pattern[s.p] = "*"
        THEN go[[s EXCEPT !.p = @ + 1, !.star = s.p]]
        ELSE IF s.star # 0
        THEN go[[s EXCEPT !.p = s.star + 1, !.v = @ + 1]]
        ELSE FALSE
  IN go[[p |-> 1, v |-> 1, star |-> 0]]

\* The matcher: one pass with a single point to fall back to, the last `*` and
\* the place in the value it was tried at.
glob_match(pattern, value) ==
  LET P == Len(pattern)
      V == Len(value)
      go[s \in [p : 1..P + 1, v : 1..V + 1, star : 0..P, starV : 0..V + 1]] ==
        IF s.v > V THEN \A i \in s.p..P : pattern[i] = "*"
        ELSE IF s.p <= P /\ pattern[s.p] \in {"?", value[s.v]}
        THEN go[[s EXCEPT !.p = @ + 1, !.v = @ + 1]]
        ELSE IF s.p <= P /\ pattern[s.p] = "*"
        THEN go[[s EXCEPT !.p = @ + 1, !.star = s.p, !.starV = s.v]]
        ELSE IF s.star # 0
        THEN go[[s EXCEPT !.p = s.star + 1, !.v = s.starV + 1, !.starV = @ + 1]]
        ELSE FALSE
  IN go[[p |-> 1, v |-> 1, star |-> 0, starV |-> 0]]

\* A trailing slash makes a pattern a directory: everything below it matches.
pattern_matches(pattern, path) ==
  LET directory == pattern # <<>> /\ Last(pattern) = "/"
  IN IF directory /\ ~IsGlob(pattern) THEN IsPrefix(pattern, path)
     ELSE glob_match(IF directory THEN Append(pattern, "*") ELSE pattern, path)

is_match(path) == \E i \in DOMAIN patterns : pattern_matches(patterns[i], path)
-----------------------------------------------------------------------------
(* The kernel half. *)

coarse_prefix(pattern) ==
  LET upTo == SelectInSeq(pattern, LAMBDA c : c \in Wildcards)
      prefix == IF upTo = 0 THEN pattern ELSE SubSeq(pattern, 1, upTo - 1)
  IN IF prefix = <<>> THEN <<"/">> ELSE prefix

\* A slot keeps the first PrefixLen bytes: a longer prefix gates on less.
sensitive_prefix(prefix) == SubSeq(prefix, 1, IF Len(prefix) < PrefixLen THEN Len(prefix) ELSE PrefixLen)

prefix_matches(path, prefix) ==
  prefix # <<>> /\ Len(prefix) <= PathLen /\ IsPrefix(prefix, path)

matches_sensitive_prefix(path) == \E i \in DOMAIN prefixes : prefix_matches(path, prefixes[i])
-----------------------------------------------------------------------------
Init ==
  /\ patterns \in PatternLists
  /\ prefixes = <<>>
  /\ open = Idle

\* load_and_attach fills the map before any program is attached.  Patterns past
\* the last slot are left out, with a warning.
populate_sensitive_prefixes ==
  /\ prefixes = <<>>
  /\ prefixes' = [i \in 1..(IF Len(patterns) < MaxPrefixes THEN Len(patterns) ELSE MaxPrefixes) |->
                    sensitive_prefix(coarse_prefix(patterns[i]))]
  /\ UNCHANGED <<patterns, open>>

\* The helpers end what they copy with a NUL: a longer path loses its tail.
Cut(path) == IF Len(path) < PathLen THEN path ELSE SubSeq(path, 1, PathLen - 1)

Attached == prefixes # <<>>

\* An open of an existing file that reaches the LSM hook: bpf_d_path fails on a
\* path that does not fit, and the program gives the event up.
file_open(path) ==
  /\ Attached /\ open = Idle
  /\ open' = [stage |-> IF Len(path) < PathLen /\ matches_sensitive_prefix(path)
                        THEN "ring" ELSE "dropped",
              type |-> "kernel.file.open", path |-> path, seen |-> Cut(path), nul |-> TRUE]
  /\ UNCHANGED <<patterns, prefixes>>

\* A failed open: the requested string is copied at entry and gated there.
file_open_attempt(path) ==
  /\ Attached /\ open = Idle
  /\ open' = [stage |-> IF matches_sensitive_prefix(Cut(path)) THEN "ring" ELSE "dropped",
              type |-> "kernel.file.open_attempt", path |-> path, seen |-> Cut(path), nul |-> TRUE]
  /\ UNCHANGED <<patterns, prefixes>>

\* FileOpenEvent::path_truncated: no NUL anywhere in the buffer.
path_truncated == ~open.nul

record_matches_sensitive_paths ==
  \/ open.type = "kernel.file.open_attempt" /\ path_truncated
  \/ is_match(open.seen)

\* The reader takes the event off the ring and keeps or drops the record.
Read ==
  /\ open.stage = "ring"
  /\ open' = [open EXCEPT !.stage = IF record_matches_sensitive_paths THEN "kept" ELSE "dropped"]
  /\ UNCHANGED <<patterns, prefixes>>

Done ==
  /\ open.stage \in {"kept", "dropped"}
  /\ open' = Idle
  /\ UNCHANGED <<patterns, prefixes>>

Next ==
  \/ populate_sensitive_prefixes \/ Read \/ Done
  \/ \E path \in Paths : file_open(path) \/ file_open_attempt(path)

Spec == Init /\ [][Next]_vars
-----------------------------------------------------------------------------
(* What a pattern means, told without an algorithm: `*` stands for any run  *)
(* of bytes, `?` for one, every other byte for itself, and a directory for  *)
(* all that is below it.                                                    *)
Denotes(pattern, path) ==
  LET full == IF Last(pattern) = "/" THEN Append(pattern, "*") ELSE pattern
      fits[i \in 1..Len(full) + 1, j \in 1..Len(path) + 1] ==
        IF i > Len(full) THEN j > Len(path)
        ELSE IF full[i] = "*" THEN \E k \in j..Len(path) + 1 : fits[i + 1, k]
        ELSE j <= Len(path) /\ full[i] \in {"?", path[j]} /\ fits[i + 1, j + 1]
  IN fits[1, 1]

\* The patterns that have a slot in the kernel's map.
Effective == {patterns[i] : i \in {n \in DOMAIN patterns : n <= MaxPrefixes}}

\* Watched opens are neither lost nor invented: an open of a path that fits the
\* buffer becomes a record if an effective pattern describes it, and only if some
\* pattern does.
\* The kernel gate, cut to its slots, may let more through, never less; the
\* reader's matcher, which keeps a single fall-back point, decides as the meaning
\* of the pattern does
\* (runtime-evidence-model.md: "a coarse in-kernel prefix gate ... and a precise
\* userspace pattern match"; sensitive_paths.rs: "`*` (matches any run, including
\* empty)").
WatchedExactly ==
  open.stage \in {"kept", "dropped"} /\ Len(open.path) < PathLen =>
  /\ open.stage = "dropped" => \A pattern \in Effective : ~Denotes(pattern, open.path)
  /\ open.stage = "kept" => \E i \in DOMAIN patterns : Denotes(patterns[i], open.path)

\* runtime-evidence-model.md, "A truncated requested path (path_truncated=true)
\* is kept": a failed open whose requested path did not fit the buffer is never
\* judged by the part of it that is left.
TruncatedIsKept ==
  open.stage \in {"kept", "dropped"} =>
    (/\ open.type = "kernel.file.open_attempt"
     /\ Len(open.path) >= PathLen
     /\ matches_sensitive_prefix(open.seen)
     => open.stage = "kept")
=============================================================================
