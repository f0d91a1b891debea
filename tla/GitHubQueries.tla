---------------------------- MODULE GitHubQueries ----------------------------
(***************************************************************************)
(* From settings and options to the query a provider executes (config.ts,  *)
(* settings.ts, github/selection.ts and github/query.ts of providers/src). *)
(*                                                                         *)
(* A text is a sequence of symbols: for a repository its characters, for   *)
(* search terms whole words, "is:" standing for any word with a scope      *)
(* qualifier and "\t" for any control character.  Options are records with *)
(* the fields that were given.  A query is its repository, number and      *)
(* parameters; percent encoding keeps a parameter's value from ending it.  *)
(***************************************************************************)
EXTENDS Integers, Sequences, FiniteSets, SequencesExt

CONSTANTS MaxLimit, DefaultLimit,      \* GITHUB_MAX_LIMIT, GITHUB_DEFAULT_LIMIT
          MaxTerms,                    \* MAX_SEARCH_TERMS_LENGTH, GITHUB_SOURCE_QUERY_MAX
          MaxSegment,                  \* MAX_SEGMENT_LENGTH
          MaxNotes, DefaultNotes       \* of each kind of note: the most and the usual number

Refused(code) == [refused |-> code]
IsRefused(x) == "refused" \in DOMAIN x
Given(options, name) == name \in DOMAIN options
Or(options, name, default) == IF Given(options, name) THEN options[name] ELSE default

NoteKinds == {"comments", "reviews", "reviewComments"}
Listings == {"overview", "issues", "pull-requests"}
ListSources == Listings \union {"repository"}
SourceModes == ListSources \union {"item", "search"}
States == {"open", "closed", "all"}
Kinds == {"all", "issues", "pull-requests"}

-----------------------------------------------------------------------------
(* Texts. *)

Blank == {" ", "\t"}
Trim(text) ==
  LET ink == {i \in DOMAIN text : text[i] \notin Blank}
      first == CHOOSE i \in ink : \A j \in ink : i <= j
      last == CHOOSE i \in ink : \A j \in ink : j <= i
  IN IF ink = {} THEN <<>> ELSE SubSeq(text, first, last)

HasControlCharacters(text) == "\t" \in Range(text)
HasForbiddenScopeQualifier(terms) == "is:" \in Range(terms)

SegmentSymbols == {"a", "b", "-", ".", ".git"}
ValidSegment(segment) ==
  /\ segment # <<>> /\ segment \notin {<<".">>, <<".", ".">>}
  /\ Len(segment) <= MaxSegment
  /\ Range(segment) \subseteq SegmentSymbols

\* Exactly owner/repository: a URL, a path or a clone address is none.
ParseGitHubRepository(value) ==
  LET slashes == {i \in DOMAIN value : value[i] = "/"}
      slash == CHOOSE i \in slashes : TRUE
  IN IF \/ value = <<>> \/ Trim(value) # value \/ HasControlCharacters(value)
        \/ Cardinality(slashes) # 1
     THEN Refused("repository")
     ELSE IF \/ ~ValidSegment(SubSeq(value, 1, slash - 1))
             \/ ~ValidSegment(SubSeq(value, slash + 1, Len(value)))
             \/ Last(value) = ".git"
     THEN Refused("repository")
     ELSE [slug |-> value]

ValidateTerms(terms) ==
  LET trimmed == Trim(terms)
  IN IF \/ trimmed = <<>> \/ Len(trimmed) > MaxTerms
        \/ HasControlCharacters(trimmed) \/ HasForbiddenScopeQualifier(trimmed)
     THEN Refused("terms") ELSE [terms |-> trimmed]

-----------------------------------------------------------------------------
(* Configuration and settings. *)

DefaultGitHub == [enabled |-> "on", defaultLimit |-> DefaultLimit, defaultSource |-> "overview",
                  defaultState |-> "open"]

SecretKeys == {"githubToken"}        \* stands for the keys with a SECRET_KEY_MARKERS in them
KeysRefused(object, allowed) ==
  IF DOMAIN object \intersect SecretKeys # {} THEN {"secretKey"}
  ELSE IF ~(DOMAIN object \subseteq allowed) THEN {"unknownKey"} ELSE {}

InvalidGitHubValue(github, key) ==
  CASE key = "enabled" -> github[key] \notin {"on", "off"}
    [] key = "defaultRepository" -> IsRefused(ParseGitHubRepository(github[key]))
    [] key = "defaultLimit" -> github[key] \notin 1..MaxLimit
    [] key = "defaultSource" -> github[key] \notin ListSources
    [] key = "defaultState" -> github[key] \notin States

ValidateGitHub(github) ==
  LET keys == KeysRefused(github, DOMAIN DefaultGitHub \union {"defaultRepository"})
  IN IF keys # {} THEN Refused(CHOOSE c \in keys : TRUE)
     ELSE IF \E key \in DOMAIN github : InvalidGitHubValue(github, key) THEN Refused("value")
     ELSE github @@ DefaultGitHub

\* The file may be absent; what it leaves open has a default.
ValidateProviderConfig(config) ==
  LET keys == KeysRefused(config, {"version", "providers"})
      providers == Or(config, "providers", [k \in {} |-> 0])
  IN IF keys # {} THEN Refused(CHOOSE c \in keys : TRUE)
     ELSE IF Or(config, "version", 0) # 1 THEN Refused("version")
     ELSE IF KeysRefused(providers, {"github"}) # {} THEN Refused("provider")
     ELSE IF Given(providers, "github") THEN ValidateGitHub(providers.github)
     ELSE DefaultGitHub

\* What was given decides, then the configuration; what is invalid never falls back.
ResolveGitHubProviderSettings(github, overrides) ==
  LET given == Or(overrides, "repository", Or(github, "defaultRepository", <<>>))
      repository == ParseGitHubRepository(given)
      limit == Or(overrides, "limit", github.defaultLimit)
  IN IF github.enabled = "off" THEN Refused("disabled")
     ELSE IF IsRefused(repository) THEN repository
     ELSE IF limit \notin 1..MaxLimit THEN Refused("limit")
     ELSE [repository |-> repository.slug, limit |-> limit,
           source |-> Or(overrides, "source", github.defaultSource),
           state |-> Or(overrides, "state", github.defaultState)]

-----------------------------------------------------------------------------
(* The selection. *)

InvalidOption(o) ==
  \/ Given(o, "source") /\ o.source \notin SourceModes
  \/ Given(o, "state") /\ o.state \notin States
  \/ Given(o, "kind") /\ o.kind \notin Kinds
  \/ Given(o, "number") /\ o.number <= 0
  \/ Given(o, "limit") /\ o.limit \notin 1..MaxLimit
  \/ /\ Given(o, "query")
     /\ Trim(o.query) = <<>> \/ Len(o.query) > MaxTerms \/ HasControlCharacters(o.query)
  \/ \E note \in DOMAIN o.noteLimits : o.noteLimits[note] \notin 1..MaxNotes[note]

NotApplicable(mode) ==
  CASE mode \in Listings -> {"number", "query", "kind"}
    [] mode = "repository" -> {"state", "limit", "number", "query", "kind"}
    [] mode = "item" -> {"state", "limit", "query", "kind"}
    [] mode = "search" -> {"number"}

Required(mode) == CASE mode = "item" -> {"number"} [] mode = "search" -> {"query"} [] OTHER -> {}

\* A default never makes a selection invalid: only what was given is judged.
ResolveGitHubSourceSelection(defaults, o) ==
  LET mode == Or(o, "source", defaults.source)
      state == Or(o, "state", defaults.state)
      limit == Or(o, "limit", defaults.limit)
      included == {note \in DOMAIN o.include : o.include[note]}
  IN IF InvalidOption(o) THEN Refused("invalid")
     ELSE IF \/ mode # "item" /\ DOMAIN o.include \union DOMAIN o.noteLimits # {}
             \/ DOMAIN o \intersect NotApplicable(mode) # {}
     THEN Refused("notApplicable")
     ELSE IF ~(Required(mode) \subseteq DOMAIN o) THEN Refused("required")
     ELSE IF mode = "item" /\ ~(DOMAIN o.noteLimits \subseteq included) THEN Refused("invalid")
     ELSE CASE mode \in Listings -> [mode |-> mode, state |-> state, limit |-> limit]
            [] mode = "repository" -> [mode |-> mode]
            [] mode = "item" -> [mode |-> mode, number |-> o.number,
                                 notes |-> [n \in included |-> Or(o.noteLimits, n, DefaultNotes[n])]]
            [] mode = "search" -> [mode |-> mode, query |-> o.query, state |-> state, limit |-> limit,
                                   kind |-> Or(o, "kind", "all")]

-----------------------------------------------------------------------------
(* Queries: built from a selection, parsed by the provider. *)

Param(key, value) == [key |-> key, value |-> value]
Query(repository, number, params) == [repository |-> repository, number |-> number, params |-> params]

BuildGitHubListQuery(repository, source, state) ==
  Query(repository, 0, <<Param("source", source), Param("state", IF source = "repository" THEN "open" ELSE state)>>)

BuildGitHubSearchQuery(repository, terms, state, kind) ==
  Query(repository, 0, <<Param("state", state), Param("kind", kind), Param("q", terms)>>)

\* The kinds of note that are asked for, in the canonical order; none is the short form.
BuildGitHubFetchQuery(repository, number, notes) ==
  LET asked(kind) == kind \in DOMAIN notes
      kinds == SelectSeq(<<"comments", "reviews", "reviewComments">>, asked)
  IN Query(repository, number, [i \in DOMAIN kinds |-> Param(kinds[i], notes[kinds[i]])])

NotesLimit(notes) ==
  LET of(kind) == Or(notes, kind, 0) IN of("comments") + of("reviews") + of("reviewComments")

CreateGitHubProviderRequest(repository, s) ==
  CASE s.mode \in Listings ->
         [action |-> "list", query |-> BuildGitHubListQuery(repository, s.mode, s.state), limit |-> s.limit]
    [] s.mode = "repository" ->
         [action |-> "list", query |-> BuildGitHubListQuery(repository, s.mode, "open"), limit |-> 1]
    [] s.mode = "item" ->
         [action |-> "fetch", query |-> BuildGitHubFetchQuery(repository, s.number, s.notes),
          limit |-> 1 + NotesLimit(s.notes)]
    [] s.mode = "search" ->
         [action |-> "search", query |-> BuildGitHubSearchQuery(repository, s.query, s.state, s.kind),
          limit |-> s.limit]

\* No key that is unknown, none twice.
ParseParams(params, allowed) ==
  LET keys == [i \in DOMAIN params |-> params[i].key]
      at(key) == CHOOSE i \in DOMAIN params : params[i].key = key
  IN IF Range(keys) \subseteq allowed /\ IsInjective(keys)
     THEN [key \in Range(keys) |-> params[at(key)].value] ELSE Refused("parameters")

ParseGitHubListQuery(query) ==
  LET params == ParseParams(query.params, {"source", "state"})
  IN IF IsRefused(ParseGitHubRepository(query.repository)) THEN Refused("repository")
     ELSE IF query.params = <<>> THEN [slug |-> query.repository, source |-> "overview", state |-> "open"]
     ELSE IF \/ IsRefused(params)
             \/ Or(params, "source", "none") \notin ListSources
             \/ Or(params, "state", "open") \notin States
     THEN Refused("list")
     ELSE [slug |-> query.repository, source |-> params.source, state |-> Or(params, "state", "open")]

ParseGitHubSearchQuery(query) ==
  LET params == ParseParams(query.params, {"state", "kind", "q"})
      terms == ValidateTerms(Or(params, "q", <<>>))
  IN IF IsRefused(ParseGitHubRepository(query.repository)) THEN Refused("repository")
     ELSE IF \/ IsRefused(params)
             \/ Or(params, "state", "open") \notin States
             \/ Or(params, "kind", "all") \notin Kinds
             \/ IsRefused(terms)
     THEN Refused("search")
     ELSE [slug |-> query.repository, terms |-> terms.terms,
           state |-> Or(params, "state", "open"), kind |-> Or(params, "kind", "all")]

ParseGitHubFetchQuery(query) ==
  LET params == ParseParams(query.params, NoteKinds)
  IN IF IsRefused(ParseGitHubRepository(query.repository)) THEN Refused("repository")
     ELSE IF query.number <= 0 \/ IsRefused(params) THEN Refused("fetch")
     ELSE IF \E kind \in DOMAIN params : params[kind] \notin 1..MaxNotes[kind] THEN Refused("fetch")
     ELSE [slug |-> query.repository, number |-> query.number, notes |-> params]

\* The scope comes first, and terms that would change it are refused once more.
BuildGitHubIssueSearchScope(slug, state, kind, terms) ==
  IF HasForbiddenScopeQualifier(terms) THEN Refused("scope")
  ELSE [scope |-> {<<"repo", slug>>}
                  \union (IF state = "all" THEN {} ELSE {<<"is", state>>})
                  \union (IF kind = "all" THEN {} ELSE {<<"is", kind>>}),
        terms |-> terms]
=============================================================================
