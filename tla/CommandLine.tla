---------------------------- MODULE CommandLine ----------------------------
(***************************************************************************)
(* The command line: how a sequence of tokens becomes a command            *)
(* (cli/src/parser.ts, memory-parser.ts, mcp-config.ts, help.ts).          *)
(*                                                                         *)
(* A token is a record: its text; whether it is an option, that is, starts *)
(* with "--", and which one it names; the number its digits spell, -1 when *)
(* it is no number; and what it has that some option refuses: "control"    *)
(* characters, white space at its "edges", nothing but white space         *)
(* ("blank"), a length over the limit ("long"), a "padded" number.  Every  *)
(* error is the one Refused: only its wording tells them apart.            *)
(***************************************************************************)
EXTENDS Integers, Sequences, FiniteSets, SequencesExt

CONSTANTS
  MaxInteger,   \* Number.MAX_SAFE_INTEGER, which TLC cannot count to
  MaxLimit,     \* GITHUB_MAX_LIMIT
  MaxNotes      \* the same for each kind of note

Refused == [refused |-> TRUE]
IsRefused(x) == "refused" \in DOMAIN x

Modes == {"--json", "--markdown"}

-----------------------------------------------------------------------------
(* The grammars. An option is a flag, or takes a text, a number or one of a  *)
(* set of words; a memory option belongs to some of the subcommands, and is  *)
(* refused before the subcommand and on the others.                          *)

MemorySubcommands == {"capture", "changes", "status", "history", "export", "delete", "repair", "timeline"}
Everywhere == MemorySubcommands \union {"none"}

Flag(of) == [of |-> of, takes |-> "nothing"]
Text(of) == [of |-> of, takes |-> "text"]
Number(of, least, most) == [of |-> of, takes |-> "number", least |-> least, most |-> most]
Word(of, words) == [of |-> of, takes |-> "word", words |-> words]

ApplySubcommands == {"capture", "export", "delete", "repair"}
Categories ==
  {"added", "removed", "modified", "resolved", "reopened", "becameOverdue", "noLongerOverdue",
   "severityIncreased", "severityDecreased", "fresh", "stale", "evidenceChanged"}
ItemKinds == {"milestone", "task", "risk", "decision", "dependency", "blocker"}

MemoryOptions ==
  [ projectId |-> Text(Everywhere), dataDir |-> Text(Everywhere),
    apply |-> Flag(ApplySubcommands), forceCorruptDelete |-> Flag({"delete"}), migrateStore |-> Flag({"capture"}),
    confirm |-> Text({"delete"}), locale |-> Word({"capture"}, {"en", "fa"}),
    previous |-> Text({"changes"}), current |-> Text({"changes"}), staleAfter |-> Number({"changes"}, 0, 31536000),
    limit |-> Number({"history", "timeline"}, 1, 100), beforeSequence |-> Number({"timeline"}, 0, MaxInteger),
    category |-> Word({"timeline"}, Categories), kind |-> Word({"timeline"}, ItemKinds),
    destination |-> Text({"export"}) ]

Operations == {"brief", "risks", "next", "handoff"}
GitHubOptions ==
  LET of == Operations \union {"none"} IN
  [ providerConfig |-> [of |-> of, takes |-> "any"],
    source |-> Word(of, {"overview", "repository", "issues", "pull-requests", "item", "search"}),
    state |-> Word(of, {"open", "closed", "all"}), kind |-> Word(of, {"all", "issues", "pull-requests"}),
    number |-> [Number(of, 1, MaxInteger) EXCEPT !.takes = "plain number"],
    query |-> [of |-> of, takes |-> "terms"], limit |-> Number(of, 1, MaxLimit),
    includeComments |-> Flag(of), commentLimit |-> Number(of, 1, MaxNotes["comments"]),
    includeReviews |-> Flag(of), reviewLimit |-> Number(of, 1, MaxNotes["reviews"]),
    includeReviewComments |-> Flag(of), reviewCommentLimit |-> Number(of, 1, MaxNotes["reviewComments"]) ]

ProviderSubcommands == {"status", "doctor"}
ProvidersOptions ==
  LET of == ProviderSubcommands \union {"none"} IN
  [providerConfig |-> [of |-> of, takes |-> "any"], confirmNetwork |-> Flag(of)]

\* Which further word (neither an option nor its value) a command accepts after
\* those it has. The first one is its subcommand, operation or name.
MemoryWord(words, t) == words # <<>> \/ t.text \in MemorySubcommands
GitHubWord(words, t) == IF words = <<>> THEN t.text \in Operations ELSE Len(words) = 1
ProvidersWord(words, t) ==
  CASE words = <<>> -> t.text \in ProviderSubcommands
    [] Len(words) = 1 -> words[1].text = "doctor" /\ t.text = "github"
    [] OTHER -> Len(words) = 2

FlatCommands == {"status", "doctor", "plan", "brief", "risks", "next", "handoff", "install-preview"}
FlatWord(words, t) ==
  \/ words = <<>> /\ t.text \in FlatCommands
  \/ words # <<>> /\ words[1].text = "plan"
  \/ Len(words) = 1 /\ words[1].text \in Operations \union {"install-preview"}

-----------------------------------------------------------------------------
(* Reading the tokens one by one. *)

\* The value an option reads from the token after it.
Accepts(option, t) ==
  /\ ~t.option
  /\ CASE option.takes = "any" -> TRUE
       [] option.takes = "text" -> "control" \notin t.has
       [] option.takes = "word" -> t.text \in option.words
       [] option.takes = "terms" -> t.has \intersect {"control", "edges", "blank", "long"} = {}
       [] option.takes = "number" -> t.number \in option.least..option.most
       [] option.takes = "plain number" -> t.number \in option.least..option.most /\ "padded" \notin t.has

ValueOf(option, t) == IF option.takes \in {"number", "plain number"} THEN t.number ELSE t.text

Reading == [words |-> <<>>, given |-> [o \in {} |-> TRUE], mode |-> "brief", pending |-> "none"]

Give(s, name, value) == [s EXCEPT !.pending = "none", !.given = (name :> value) @@ @]

Subcommand(words) == IF words = <<>> THEN "none" ELSE words[1].text

AdmitsWord(namespace, words, t) ==
  CASE namespace = "memory" -> MemoryWord(words, t)
    [] namespace = "github" -> GitHubWord(words, t)
    [] namespace = "providers" -> ProvidersWord(words, t)
    [] namespace = "flat" -> FlatWord(words, t)
    [] namespace = "mcp-config" -> FALSE

\* One token more. The last output mode wins; every other option may be given once.
ReadToken(namespace, options, s, t) ==
  IF IsRefused(s) THEN s
  ELSE IF s.pending # "none" THEN
    IF Accepts(options[s.pending], t) THEN Give(s, s.pending, ValueOf(options[s.pending], t)) ELSE Refused
  ELSE IF t.text \in Modes THEN [s EXCEPT !.mode = t.text]
  ELSE IF t.option THEN
    IF /\ t.names \in DOMAIN options \ DOMAIN s.given
       /\ Subcommand(s.words) \in options[t.names].of
    THEN IF options[t.names].takes = "nothing" THEN Give(s, t.names, TRUE)
         ELSE [s EXCEPT !.pending = t.names]
    ELSE Refused
  ELSE IF AdmitsWord(namespace, s.words, t) THEN [s EXCEPT !.words = Append(@, t)] ELSE Refused

\* All the tokens; an option at the end has no value.
AtEnd(s) == IF IsRefused(s) THEN Refused ELSE IF s.pending # "none" THEN Refused ELSE s

ReadTokens(namespace, options, tokens) ==
  LET step(s, t) == ReadToken(namespace, options, s, t)
  IN AtEnd(FoldLeft(step, Reading, tokens))

-----------------------------------------------------------------------------
(* The commands: what is made of the tokens once they are read. *)

MemoryDefaults ==
  [ capture |-> [locale |-> "en", apply |-> FALSE, migrateStore |-> FALSE],
    changes |-> [staleAfter |-> 604800], history |-> [limit |-> 20], timeline |-> [limit |-> 20],
    export |-> [apply |-> FALSE], delete |-> [apply |-> FALSE, forceCorruptDelete |-> FALSE],
    repair |-> [apply |-> FALSE], status |-> [o \in {} |-> TRUE] ]

\* What a subcommand needs, or cannot have, beyond single options.
MemoryMisuse(sub, roots, given) ==
  \/ Len(roots) > 1
  \/ sub = "changes" /\ ("previous" \in DOMAIN given) # ("current" \in DOMAIN given)
  \/ sub = "changes" /\ "previous" \in DOMAIN given /\ given.previous = given.current
  \/ sub = "export" /\ "destination" \notin DOMAIN given
  \/ sub = "delete" /\ ("apply" \in DOMAIN given) # ("confirm" \in DOMAIN given)
  \/ sub = "timeline" /\ (roots # <<>> \/ "projectId" \notin DOMAIN given)

MemoryCommand(s) ==
  IF IsRefused(s) \/ s.words = <<>> THEN Refused
  ELSE LET sub == s.words[1].text
           roots == Tail(s.words)
       IN IF MemoryMisuse(sub, roots, s.given) THEN Refused
          ELSE [command |-> "memory", sub |-> sub, mode |-> s.mode, given |-> s.given @@ MemoryDefaults[sub],
                args |-> IF sub = "timeline" THEN <<>> ELSE IF roots = <<>> THEN <<".">> ELSE <<roots[1].text>>]
ParseMemoryCommand(tokens) == MemoryCommand(ReadTokens("memory", MemoryOptions, tokens))

\* What the user named is kept apart from what a configuration may supply: no defaults here.
GitHubCommand(s) ==
  IF IsRefused(s) \/ s.words = <<>> THEN Refused
  ELSE [command |-> "github", sub |-> s.words[1].text, mode |-> s.mode, given |-> s.given,
        args |-> [i \in 1..(Len(s.words) - 1) |-> s.words[i + 1].text]]
ParseGitHubCommand(tokens) == GitHubCommand(ReadTokens("github", GitHubOptions, tokens))

ProvidersCommand(s) ==
  IF IsRefused(s) \/ s.words = <<>> THEN Refused
  ELSE IF "confirmNetwork" \in DOMAIN s.given /\ Len(s.words) = 1 THEN Refused
  ELSE [command |-> "providers", sub |-> s.words[1].text, mode |-> s.mode, given |-> s.given,
        args |-> [i \in 1..(Len(s.words) - 1) |-> s.words[i + 1].text]]
ParseProvidersCommand(tokens) == ProvidersCommand(ReadTokens("providers", ProvidersOptions, tokens))

FlatCommand(s) ==
  IF IsRefused(s) \/ s.words = <<>> THEN Refused
  ELSE LET name == s.words[1].text
           rest == Tail(s.words)
           texts == [i \in DOMAIN rest |-> rest[i].text]
       IN IF name = "plan" /\ \A i \in DOMAIN rest : "blank" \in rest[i].has THEN Refused
          ELSE IF name = "install-preview" /\ rest = <<>> THEN Refused
          ELSE [command |-> name, sub |-> name, mode |-> s.mode, given |-> s.given,
                args |-> IF name \in Operations /\ rest = <<>> THEN <<".">> ELSE texts]
ParseFlatCommand(tokens) == FlatCommand(ReadTokens("flat", [o \in {} |-> Flag({})], tokens))

ParseCliArgs(tokens) ==
  CASE tokens # <<>> /\ tokens[1].text = "github" -> ParseGitHubCommand(Tail(tokens))
    [] tokens # <<>> /\ tokens[1].text = "providers" -> ParseProvidersCommand(Tail(tokens))
    [] tokens # <<>> /\ tokens[1].text = "memory" -> ParseMemoryCommand(Tail(tokens))
    [] OTHER -> ParseFlatCommand(tokens)

\* Help is asked for by a flag anywhere, even where an option would read its value.
IsHelpRequest(tokens) == \E t \in Range(tokens) : t.text \in {"--help", "-h"}

HelpTopic(tokens) ==
  LET plain == SelectSeq(tokens, LAMBDA t : ~t.option /\ t.text # "-h") IN
  IF plain # <<>> /\ plain[1].text \in FlatCommands \union {"github", "providers", "memory", "mcp-config"}
  THEN plain[1].text ELSE "top"

-----------------------------------------------------------------------------
(* mcp-config: where the other executable of this installation is. A path is  *)
(* the sequence of its segments.                                              *)

McpConfigOptions == [name |-> [of |-> {"none"}, takes |-> "any"]]

McpConfigCommand(tokens, s) ==
  IF IsRefused(s) THEN Refused
  ELSE IF "name" \in DOMAIN s.given /\ \E t \in Range(tokens) : t.text = s.given.name /\ t.has # {} THEN Refused
  ELSE [command |-> "mcp-config", given |-> s.given @@ [name |-> "oh-my-pm"], mode |-> IF s.mode = "brief" THEN "--json" ELSE s.mode]
ParseMcpConfigArgs(tokens) == McpConfigCommand(tokens, ReadTokens("mcp-config", McpConfigOptions, tokens))

\* <prefix>/lib/oh-my-pm/versions/<version>/bin/<script> is an installation's shape.
InstalledBinDirectories(entry) ==
  LET n == Len(entry) IN
  IF n >= 7 /\ entry[n - 1] = "bin" /\ SubSeq(entry, n - 5, n - 3) = <<"lib", "oh-my-pm", "versions">>
  THEN <<SubSeq(entry, 1, n - 6) \o <<"bin">>>> ELSE <<>>

CommandFile(platform) == IF platform = "win32" THEN "omp-mcp.cmd" ELSE "omp-mcp"

ResolveInstalledMcpCommand(entry, platform, files) ==
  LET there == SelectSeq([i \in DOMAIN InstalledBinDirectories(entry) |->
                            Append(InstalledBinDirectories(entry)[i], CommandFile(platform))],
                         LAMBDA path : path \in files)
  IN IF there = <<>> THEN Refused ELSE [path |-> there[1]]
=============================================================================
