--------------------------- MODULE CommandProcess ---------------------------
(***************************************************************************)
(* One invocation of the command line program, or of the application's     *)
(* GitHub workflow with a cancellation signal: from the tokens to what is  *)
(* printed and the exit code (cli/src/local-process.ts, github-process.ts, *)
(* cli.ts; application/src: github-project.ts, local-project.ts,           *)
(* provider-diagnostics*.ts, node/).                                       *)
(*                                                                         *)
(* A process is a record: where it is ("at"), its world, what it reached   *)
(* for outside itself in order ("did"), what it sent, and its result.  The *)
(* world answers: the environment and the files of configurations, the     *)
(* documents of a project, what the runtime makes of a request, and what   *)
(* the network diagnostic and a memory command come to.                    *)
(***************************************************************************)
EXTENDS CommandLine

CONSTANTS
  Settings(_, _),     \* resolveGitHubProviderSettings: a configuration and overrides
  Selection(_, _),    \* resolveGitHubSourceSelection: settings and options
  Request(_, _),      \* createGitHubProviderRequest: a repository and a selection
  Validated(_),       \* validateProviderConfig: the contents of a file
  Defaults,           \* defaultProviderConfig
  Spelling            \* the symbols of a text, where the provider reads them

-----------------------------------------------------------------------------
(* The provider configuration: the first location that is named, and a file   *)
(* there.  The standard locations may be empty; a named one may not.          *)

Location(source, path, required) == [source |-> source, path |-> path, required |-> required]
NonEmpty(env, name) == name \in DOMAIN env /\ env[name] # " "

StandardLocation(world) ==
  LET standard == IF world.platform = "win32" THEN <<"appdata">> ELSE <<"xdg", "home">>
      set == SelectSeq(standard, LAMBDA name : NonEmpty(world.env, name))
  IN IF set = <<>> THEN Location("defaults", " ", FALSE) ELSE Location(set[1], world.env[set[1]], FALSE)

ResolveProviderConfigLocation(given, world) ==
  IF "providerConfig" \in DOMAIN given THEN Location("explicit", given.providerConfig, TRUE)
  ELSE IF NonEmpty(world.env, "named") THEN Location("environment", world.env["named"], TRUE)
  ELSE StandardLocation(world)

ConfigAt(location, world) ==
  LET path == location.path
      file == world.files[path]
  IN IF location.source = "explicit" /\ path = " " THEN Refused
     ELSE IF location.source = "defaults" THEN Defaults
     ELSE IF path \notin DOMAIN world.files THEN IF location.required THEN Refused ELSE Defaults
     ELSE IF file.is # "file" \/ ~file.readable THEN Refused   \* a symbolic link, no file, too large, no JSON
     ELSE IF IsRefused(Validated(file.config)) THEN Refused ELSE Validated(file.config)
LoadProviderConfig(given, world) == ConfigAt(ResolveProviderConfigLocation(given, world), world)

\* Control characters are looked for before the ends are trimmed: a line end at
\* the end of a token makes it no token.
ReadGitHubToken(env) ==
  IF "token" \in DOMAIN env /\ env["token"] \notin {"control", " "} THEN env["token"] ELSE "none"

-----------------------------------------------------------------------------
(* A process. *)

Process(line, world) ==
  [of |-> "process", at |-> "start", line |-> line, world |-> world, aborted |-> FALSE,
   did |-> <<>>, sent |-> <<>>, exit |-> -1, out |-> "nothing", ok |-> FALSE]

Reached(p, effects) == [p EXCEPT !.did = @ \o effects]
Reply(p, exit) == [p EXCEPT !.at = "done", !.exit = exit, !.out = "stdout", !.ok = exit \in {0, 3}]
Complain(p, exit) == [p EXCEPT !.at = "done", !.exit = exit, !.out = "stderr"]
Escape(p) == [p EXCEPT !.at = "done", !.exit = 1, !.out = "uncaught"]   \* nothing catches what was thrown

-----------------------------------------------------------------------------
(* The GitHub workflow: everything that can be refused is, before a token is   *)
(* read, the clock is read or a transport exists.                              *)

NoteNames == [comments |-> "includeComments", reviews |-> "includeReviews", reviewComments |-> "includeReviewComments"]
LimitNames == [comments |-> "commentLimit", reviews |-> "reviewLimit", reviewComments |-> "reviewCommentLimit"]

Only(f, names) == [n \in DOMAIN f \intersect names |-> f[n]]

GitHubOverrides(command) ==
  Only(command.given, {"limit"})
  @@ (IF command.args = <<>> THEN [o \in {} |-> 0] ELSE [repository |-> Spelling[command.args[1]]])

GitHubInput(command) ==
  LET given == command.given
      named(names) == {kind \in DOMAIN names : names[kind] \in DOMAIN given}
  IN [include |-> [kind \in named(NoteNames) |-> TRUE],
      noteLimits |-> [kind \in named(LimitNames) |-> given[LimitNames[kind]]]]
     @@ Only(given, {"source", "state", "kind", "number", "limit"})
     @@ (IF "query" \in DOMAIN given THEN [query |-> Spelling[given.query]] ELSE [o \in {} |-> 0])

SendGitHubRequest(p, config, settings, selection) ==
  LET offline == Reached(p, <<"config">>)
  IN IF IsRefused(config) \/ IsRefused(settings) THEN Complain(offline, 2)
     ELSE IF IsRefused(selection) \/ p.aborted THEN Complain(offline, 2)
     ELSE [Reached(offline, <<"token", "clock", "network">>) EXCEPT
             !.at = "in flight",
             !.sent = <<[token |-> ReadGitHubToken(p.world.env), selection |-> selection,
                         request |-> Request(settings.repository, selection)]>>]

\* Up to the first await: the signal cannot change while this runs.
RunGitHubProjectWorkflow(p, command) ==
  LET config == LoadProviderConfig(command.given, p.world)
      settings == Settings(config, GitHubOverrides(command))
  IN SendGitHubRequest(p, config, settings, Selection(settings, GitHubInput(command)))

\* For a mutant: the signal is not looked at again.
FinishDespiteSignal(p) ==
  CASE p.world.runtime = "throws" -> Complain(p, 1)
    [] p.world.runtime \in {"not ok", "no output"} -> Complain(p, 2)
    [] p.world.runtime = "ok" -> Reply(p, 0)

\* After it: an answer that comes too late is a failure.
FinishGitHub(p) ==
  CASE p.world.runtime = "throws" -> Complain(p, 1)
    [] p.world.runtime \in {"not ok", "no output"} -> Complain(p, 2)
    [] p.world.runtime = "ok" -> IF p.aborted THEN Complain(p, 2) ELSE Reply(p, 0)

-----------------------------------------------------------------------------
(* The local workflows, and the diagnostics. *)

RunLocalProjectWorkflow(p, command) ==
  LET read == Reached(p, <<"documents">>) IN
  IF command.args[1] = " " THEN Complain(p, 2)
  ELSE IF p.world.documents # "loaded" THEN Complain(read, 2)   \* configuration, root or documents amiss
  ELSE CASE p.world.runtime = "throws" -> Escape(read)
         [] p.world.runtime \in {"not ok", "no output"} -> Complain(read, 1)
         [] p.world.runtime = "ok" -> Reply(read, 0)

GetProviderStatus(p, command) ==
  LET config == LoadProviderConfig(command.given, p.world) IN
  Reply(Reached(p, <<"config", "token">>), IF IsRefused(config) THEN 2 ELSE 0)

\* Of the checks that need no network, the configuration's and the kernel's can fail.
OfflineDoctorOk(config, world) == ~IsRefused(config) /\ world.kernel

NetworkDiagnostic(p, settings) ==
  [Reply(Reached(p, <<"token", "network">>), IF p.world.access THEN 0 ELSE 2) EXCEPT
     !.sent = <<[token |-> ReadGitHubToken(p.world.env), selection |-> [mode |-> "repository"],
                 request |-> Request(settings.repository, [mode |-> "repository"])]>>]

\* One request to the network, if it was asked for, confirmed, and there is a
\* repository to ask about; its result is then the doctor's.
Diagnose(p, command, config, settings) ==
  LET offline == Reached(p, <<"config", "token">>)
  IN IF IsRefused(config) THEN Reply(offline, 2)
     ELSE IF command.args = <<>> \/ "confirmNetwork" \notin DOMAIN command.given
          THEN Reply(offline, IF OfflineDoctorOk(config, p.world) THEN 0 ELSE 2)
     ELSE IF IsRefused(settings) THEN Reply(offline, 2)
     ELSE NetworkDiagnostic(offline, settings)

RunProviderDoctor(p, command) ==
  LET config == LoadProviderConfig(command.given, p.world)
  IN Diagnose(p, command, config, Settings(config, IF Len(command.args) < 2 THEN [o \in {} |-> 0]
                                                   ELSE [repository |-> Spelling[command.args[2]]]))

-----------------------------------------------------------------------------
(* The program. *)

\* The commands without documents, and the preview of an installation.
RunCli(p, command) ==
  IF command.command = "install-preview"
  THEN Reply(Reached(p, <<"files">>), IF p.world.documents = "loaded" THEN 0 ELSE 1)
  ELSE CASE p.world.runtime = "throws" -> Complain(p, 1)
         [] p.world.runtime = "not ok" -> Reply(p, 1)
         [] p.world.runtime \in {"ok", "no output"} -> Reply(p, 0)

RunMemoryCommand(p, command) ==
  LET store == Reached(p, <<"store">>) IN
  CASE p.world.memory = "ok" -> Reply(store, 0)
    [] p.world.memory = "nothing to compare" -> Reply(store, 3)
    [] p.world.memory = "fails" -> Complain(store, 2)
    [] p.world.memory = "throws" -> Escape(store)

RunMcpConfigCommand(p) ==
  LET parsed == ParseMcpConfigArgs(Tail(p.line)) IN
  IF IsRefused(parsed) \/ IsRefused(ResolveInstalledMcpCommand(p.world.entry, p.world.platform, p.world.installed))
  THEN Complain(p, 2) ELSE Reply(p, 0)

RunParsed(p, command) ==
  IF IsHelpRequest(p.line) THEN Reply(p, 0)
  ELSE IF p.line # <<>> /\ p.line[1].text = "mcp-config" THEN RunMcpConfigCommand(p)
  ELSE IF IsRefused(command) THEN Complain(p, 2)
  ELSE CASE command.command = "providers" ->
              IF command.sub = "status" THEN GetProviderStatus(p, command) ELSE RunProviderDoctor(p, command)
         [] command.command = "memory" -> RunMemoryCommand(p, command)
         [] command.command = "github" -> RunGitHubProjectWorkflow(p, command)
         [] command.command \in Operations -> RunLocalProjectWorkflow(p, command)
         [] OTHER -> RunCli(p, command)
RunLocalCliProcess(p) == RunParsed(p, ParseCliArgs(p.line))

\* Only a caller of the GitHub workflow may give it a signal, and a line that asks
\* for help never comes to it; it may be aborted before the workflow starts or
\* while its request is in flight.
ComesToGitHub(line) == line # <<>> /\ line[1].text = "github" /\ ~IsHelpRequest(line)
Abort(p) ==
  IF p.world.signal /\ ~p.aborted /\ ComesToGitHub(p.line)
  THEN {[p EXCEPT !.aborted = TRUE]} ELSE {}

ProcessSteps(p) ==
  CASE p.at = "start" -> {RunLocalCliProcess(p)} \union Abort(p)
    [] p.at = "in flight" -> {FinishGitHub(p)} \union Abort(p)
    [] p.at = "done" -> {}

-----------------------------------------------------------------------------
(* What an accepted command says, spelled out in full: the subcommand, the     *)
(* words, and every option with its value, those left to their defaults too.    *)

TextToken(text) == [text |-> text, option |-> FALSE, names |-> "none", number |-> -1, has |-> {}]
NumberToken(n) == [TextToken("digits") EXCEPT !.number = n]
OptionToken(name) == [TextToken("an option") EXCEPT !.option = TRUE, !.names = name]
ModeToken(mode) == [OptionToken("none") EXCEPT !.text = mode]

OptionsOf(command) ==
  CASE command.command = "memory" -> MemoryOptions
    [] command.command = "github" -> GitHubOptions
    [] command.command = "providers" -> ProvidersOptions
    [] OTHER -> [o \in {} |-> Flag({})]

Canonical(command) ==
  LET nested == command.command \in {"memory", "github", "providers"}
      takes(o) == OptionsOf(command)[o].takes
      head == IF nested THEN <<TextToken(command.command), TextToken(command.sub)>> ELSE <<TextToken(command.command)>>
      spelled(o, tokens) ==
        tokens \o (CASE takes(o) = "nothing" -> IF command.given[o] THEN <<OptionToken(o)>> ELSE <<>>
                     [] takes(o) \in {"number", "plain number"} -> <<OptionToken(o), NumberToken(command.given[o])>>
                     [] OTHER -> <<OptionToken(o), TextToken(command.given[o])>>)
  IN head \o [i \in DOMAIN command.args |-> TextToken(command.args[i])]
          \o FoldSet(spelled, <<>>, DOMAIN command.given)
          \o (IF command.mode = "brief" THEN <<>> ELSE <<ModeToken(command.mode)>>)
=============================================================================
