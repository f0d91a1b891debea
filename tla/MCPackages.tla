----------------------------- MODULE MCPackages -----------------------------
(* Small inputs for the algorithms and processes: two or three values of   *)
(* whatever an algorithm tells apart, and the malformed neighbours of each.*)
EXTENDS Packages

\* An answer of GitHub.  It stands first: TLC compares the fields of records in the order
\* in which it met their names, and the values of two answers can be compared only if their
\* bodies are of one sort.
Answer(status, body, value) ==
  [does |-> "answer", status |-> status, remaining |-> -1, retryAfter |-> FALSE, body |-> body, incomplete |-> FALSE, value |-> value]

-----------------------------------------------------------------------------
(* Algorithms. *)

\* KernelDiff: days of four seconds, evidence of two sources in two contents.
Due(kind, on) == [kind |-> kind, on |-> on]
Item(status, severity, due, rest, refs) ==
  [status |-> status, severity |-> severity, due |-> due, rest |-> rest, refs |-> refs]
MCItems ==
  {Item(st, se, Due("none", 0), 1, {}) : st \in {"none", "open", "done", "odd"}, se \in {"low"}}
  \union {Item("open", se, Due("none", 0), 1, {}) : se \in {"none", "high", "odd"}}
  \union {Item("done", "high", due, rest, {}) : due \in {Due("day", 1), Due("day", 2), Due("at", 5)}, rest \in {1, 2}}
  \union {Item("open", "low", Due("at", 6), 1, refs) : refs \in {{11}, {12}, {11, 21}}}
MCCaptureTimes == {3, 7, 8}
MCPolicies == {[staleAfter |-> 0, skew |-> 1], [staleAfter |-> 2, skew |-> 1], [staleAfter |-> -1, skew |-> 1]}
Record(source, content, at, updated) ==
  [id |-> source * 10 + content, source |-> source, content |-> content, project |-> 1,
   observedAt |-> at, updatedAt |-> updated]
MCEvidenceOf(at) ==
  LET three == <<Record(1, 1, at, -1), Record(1, 2, at, -1), Record(2, 1, at, 1)>>
      two == <<Record(1, 1, at, 4), Record(2, 1, at + 1, -1)>>
      ahead == <<Record(1, 1, at, at + 2), Record(2, 1, at, -1)>>
  IN {[records |-> r, refs |-> {11}] : r \in {three, two, ahead}} \union {[records |-> two, refs |-> {11, 12}]}

\* KernelTimeline.
Change(kind, id, category) == [kind |-> kind, id |-> id, category |-> category]
ChangeSets == SUBSET {Change(0, 1, 0), Change(0, 1, 11), Change(1, 1, 0)}
Capture(sequence, changes) == [sequence |-> sequence, project |-> "p", snapshot |-> "s", changes |-> changes]
MCChronologies ==
  {<<Capture(2, a), Capture(3, b), Capture(4, c)>> : a \in ChangeSets, b \in ChangeSets, c \in ChangeSets}
  \union {<<Capture(2, a), Capture(2, a)>> : a \in ChangeSets}
  \union {<<Capture(2, a), [Capture(3, a) EXCEPT !.snapshot = ""]>> : a \in ChangeSets}
MCQueries ==
  {[project |-> "p", limit |-> l, before |-> -1, category |-> c, kind |-> k] : l \in {-1, 1, 2}, c \in {-1, 0}, k \in {-1, 1}}
  \union {[project |-> "p", limit |-> l, before |-> -1, category |-> -1, kind |-> -1] : l \in {0, 6}}

\* KernelState: what means the same is in one class; class 0 is not valid.
Open == <<"open">>
StateItem(id, title, status, refs) ==
  [kind |-> "task", id |-> id, title |-> title, refs |-> refs, status |-> status, due |-> "none", metadata |-> {}]
One == StateItem(<<"1">>, <<"a">>, <<"a">>, <<<<"e">>, <<"f">>>>)
OneAgain == [StateItem(<<" ", "1">>, <<" ", "a", "\n">>, <<"A", " ">>, <<<<"f">>, <<"e">>, <<"e">>>>) EXCEPT !.due = "blank"]
Two == [StateItem(<<"2">>, <<"a", " ", "b">>, <<>>, <<>>) EXCEPT !.metadata = {[key |-> <<"k">>, value |-> <<"v">>]}]
TwoAgain == [StateItem(<<"2", " ">>, <<"a", "\n", " ", "b">>, <<" ">>, <<>>) EXCEPT !.metadata = {[key |-> <<" ", "k">>, value |-> <<"v", " ">>]}]
Docs == [kind |-> "markdown", identity |-> <<"docs">>]
DocsAgain == [kind |-> "markdown", identity |-> <<".", "", "docs", "">>]
Hub == [kind |-> "githubIssue", identity |-> <<"docs">>]
Base(items) == [project |-> <<"p">>, sources |-> <<Docs, Hub>>, summary |-> {[key |-> <<"a">>, value |-> 1]},
                collections |-> [k \in {"task"} |-> items], refs |-> <<<<"e">>>>, observedAt |-> 1, gaps |-> {}]
MCStateClasses ==
  [c \in 0..8 |->
    CASE c = 1 -> {Base(<<One, Two>>), Base(<<TwoAgain, OneAgain>>),
                   [Base(<<Two, One>>) EXCEPT !.observedAt = 2, !.gaps = {<<"g">>}],
                   [Base(<<OneAgain, Two>>) EXCEPT !.sources = <<Hub, DocsAgain>>, !.summary = {[key |-> <<"A">>, value |-> 1]}]}
      [] c = 2 -> {Base(<<One>>), [Base(<<OneAgain>>) EXCEPT !.project = <<"p", "\n">>]}
      [] c = 3 -> {Base(<<[One EXCEPT !.title = <<"A">>], Two>>)}
      [] c = 4 -> {Base(<<[One EXCEPT !.status = <<>>], Two>>), Base(<<[One EXCEPT !.status = <<" ">>], TwoAgain>>)}
      [] c = 5 -> {[Base(<<One, Two>>) EXCEPT !.sources = <<Docs>>]}
      [] c = 6 -> {Base(<<>>)}
      [] c = 7 -> {[Base(<<>>) EXCEPT !.collections = [k \in {} |-> <<>>]]}
      [] c = 8 -> {[Base(<<One, Two>>) EXCEPT !.summary = {[key |-> <<"a">>, value |-> 2]}]}
      [] c = 0 -> {Base(<<One, OneAgain>>), Base(<<[One EXCEPT !.kind = "risk"]>>),
                   Base(<<[One EXCEPT !.id = <<" ">>]>>), Base(<<[One EXCEPT !.title = <<>>]>>),
                   Base(<<[One EXCEPT !.due = "bad"]>>),
                   Base(<<[One EXCEPT !.metadata = {[key |-> <<"Token", "_">>, value |-> <<>>]}]>>),
                   Base(<<[One EXCEPT !.metadata = {[key |-> <<"a">>, value |-> <<>>], [key |-> <<"A">>, value |-> <<>>]}]>>),
                   [Base(<<>>) EXCEPT !.sources = <<Docs, DocsAgain>>],
                   [Base(<<>>) EXCEPT !.sources = <<[Docs EXCEPT !.identity = <<"", "docs">>]>>],
                   [Base(<<>>) EXCEPT !.sources = <<[Docs EXCEPT !.identity = <<"docs", "..">>]>>],
                   [Base(<<>>) EXCEPT !.sources = <<[Docs EXCEPT !.identity = <<".", "">>]>>],
                   [Base(<<>>) EXCEPT !.summary = {[key |-> <<" ">>, value |-> 1]}]}]
Boundary(identity, scope) == [identity |-> identity, scope |-> scope, coverage |-> "complete"]
MCCaptures == {[at |-> at, boundaries |-> b] : at \in {1, 2},
                 b \in {<<Boundary(<<"docs">>, <<"all">>)>>,
                        <<Boundary(<<"docs">>, <<"all">>), Boundary(<<".", "docs">>, <<"all", " ">>)>>}}

\* Evidence: of the parts of a record, what means the same; class 0 is refused.
Seed == [explicit |-> "absent", rootToken |-> "t", salt |-> "s"]
Parts == [seed |-> Seed, kind |-> "markdown", source |-> <<"docs">>, content |-> <<<<"a", " ">>, <<>>, <<"b">>>>,
          policy |-> "stored", provenance |-> {}, observedAt |-> 1]
Unread == [Parts EXCEPT !.content = <<>>, !.policy = "notStored"]
MCEvidenceClasses ==
  [c \in 0..8 |->
    CASE c = 1 -> {Parts, [Parts EXCEPT !.source = <<".", "", "docs">>, !.observedAt = 0],
                   [Parts EXCEPT !.content = <<<<" ">>, <<"a">>, <<" ">>, <<"b">>, <<>>>>, !.policy = "notStored"]}
      [] c = 2 -> {[Parts EXCEPT !.content = <<<<"a">>, <<"b">>>>], [Parts EXCEPT !.content = <<<<"a">>, <<"b", "\n">>>>]}
      [] c = 3 -> {Unread, [Unread EXCEPT !.source = <<"docs", "">>]}
      [] c = 4 -> {[Unread EXCEPT !.observedAt = 2]}
      [] c = 5 -> {[Parts EXCEPT !.seed.salt = "other"]}
      [] c = 6 -> {[Parts EXCEPT !.seed.explicit = "p"], [Parts EXCEPT !.seed = [explicit |-> "p", rootToken |-> "", salt |-> "absent"]]}
      [] c = 7 -> {[Parts EXCEPT !.kind = "githubIssue"]}
      [] c = 8 -> {[Parts EXCEPT !.content = <<<<" ", "a">>, <<>>, <<"b">>>>]}
      [] c = 0 -> {[Parts EXCEPT !.seed.salt = ""], [Parts EXCEPT !.seed.rootToken = "absent"], [Parts EXCEPT !.seed.explicit = ""],
                   [Parts EXCEPT !.source = <<"", "docs">>], [Parts EXCEPT !.content = <<>>], [Unread EXCEPT !.observedAt = 0],
                   [Parts EXCEPT !.provenance = {[key |-> <<"secret">>, value |-> <<"v">>]}]}]

\* KernelGuards: the graphs of three nodes, 0 being the empty id.
Node(id, deps) == [id |-> id, dependsOn |-> deps]
Deps == {<<>>, <<1>>, <<2>>, <<3>>, <<1, 2>>, <<3, 1>>}
MCGraphs == {<<Node(1, a), Node(2, b), Node(3, c)>> : a \in Deps, b \in Deps, c \in Deps}
            \union {<<Node(1, a), Node(i, b)>> : i \in {0, 1, 2}, a \in Deps, b \in Deps}
MCUpdatePlans ==
  [id : {"", "u"}, from : {"", "1"}, to : {"", "1", "2"}, steps : {0, 1}, rollback : {"", "r"}, paths : {0, 1}]
Component(id, version) == [id |-> id, version |-> version]
All == <<"contracts", "kernel", "runtime", "planner", "providers", "skills", "cli", "installer", "validation">>
MCManifests ==
  LET full(n) == [i \in 1..n |-> Component(All[i], "1")]
  IN {[schemaVersion |-> s, systemVersion |-> "1", components |-> c] : s \in {"", "1"},
        c \in {full(9), full(8), full(8) \o full(1), full(9) \o full(1), full(8) \o <<Component(All[9], "")>>}}

\* PlanExecution.
MCPlanRequests ==
  [kind : {"plan", "status", "fix"}, contract : BOOLEAN, wellFormed : BOOLEAN, empty : {FALSE},
   groups : SUBSET {"status", "nextTask"}]
  \union [kind : {"plan"}, contract : {TRUE}, wellFormed : {TRUE}, empty : {TRUE}, groups : {{}}]
Asked(provider) == [provider |-> provider, valid |-> TRUE]
MCPlanContexts ==
  {[isObject |-> o, isArray |-> a, requests |-> r] : o \in BOOLEAN, a \in BOOLEAN,
     r \in {<<>>, <<Asked("local")>>, <<Asked("local"), Asked("github"), Asked("local")>>,
            <<Asked("local"), [provider |-> "github", valid |-> FALSE]>>}}
MCRegistries ==
  UNION {{[absent |-> FALSE, has |-> has, answers |-> answers, throws |-> throws] :
            has \in {{"local"}, {"local", "github"}}, throws \in SUBSET ({"local", "github"} \ answers)} :
         answers \in SUBSET {"local", "github"}}
  \union {[absent |-> TRUE, has |-> {}, answers |-> {}, throws |-> {}]}

-----------------------------------------------------------------------------
(* Sources. *)

\* GitHubQueries: names of one or two characters, at most two words of a search.
Repo == <<"a", "/", "b">>
MCNotes == [n \in {"comments", "reviews", "reviewComments"} |-> IF n = "comments" THEN 3 ELSE 2]
MCDefaultNotes == [n \in {"comments", "reviews", "reviewComments"} |-> 2]
Nothing == [k \in {} |-> 0]
GitHubConfig(github) == [version |-> 1, providers |-> [github |-> github]]
MCConfigs ==
  {GitHubConfig(g) : g \in
     {[defaultRepository |-> Repo], [defaultRepository |-> Repo, defaultLimit |-> 4, defaultState |-> "all"],
      [defaultRepository |-> Repo, defaultSource |-> "repository"], [defaultRepository |-> Repo, enabled |-> "off"],
      [defaultRepository |-> Repo, defaultSource |-> "item"], [defaultRepository |-> Repo, githubToken |-> 1],
      [defaultLimit |-> 9], [defaultRepository |-> <<"a">>]}}
  \union {[version |-> 1], [version |-> 2], [providers |-> Nothing], [version |-> 1, providers |-> [gitlab |-> 1]]}
MCSettingsOverrides ==
  {Nothing, [limit |-> 1], [limit |-> 0]}
  \union {[repository |-> r] : r \in {Repo, <<"b", "/", "a", ".git">>, <<"a", "/", "b", "/", "a">>, <<" ", "a", "/", "b">>,
                                     <<".", "/", "b">>, <<"a", "/">>, <<"a", "?", "/", "b">>, <<"a", "a", "a", "a", "/", "b">>}}
Listed(fields) == [include |-> Nothing, noteLimits |-> Nothing] @@ fields
Include(kinds, on) == [k \in kinds |-> on]
Terms == {<<"w">>, <<" ", "w">>, <<"w", "is:">>, <<" ">>, <<"w", "\t">>, <<"w", "w", "w", "w">>}
MCOptions ==
  {Listed(f) : f \in {Nothing} \union [source : {"overview", "repository", "issues", "odd", "item", "search"}]
     \union [state : {"all", "odd"}] \union [limit : {0, 3, 5}] \union [source : {"repository"}, state : {"open"}]
     \union [source : {"pull-requests"}, state : {"closed"}, limit : {2}] \union [number : {1}]
     \union [source : {"search"}, query : Terms, kind : {"all", "issues", "odd"}, state : {"all", "open"}]
     \union [source : {"search"}, query : {<<"w">>}, number : {1}]
     \union [source : {"item"}, number : {0, 7}] \union [source : {"item"}, number : {7}, limit : {2}]}
  \union {[include |-> Include(on, TRUE) @@ Include({"reviews"}, FALSE), noteLimits |-> limits] @@ f :
            on \in SUBSET DOMAIN MCNotes, limits \in {Nothing, [comments |-> 3], [comments |-> 4], [reviews |-> 1, comments |-> 1]},
            f \in [source : {"item"}, number : {7}] \union {Nothing}}

\* GitHubProvider: texts of up to 3, notes of up to 2 and 3 together.
MCNoteBody == [n \in DOMAIN MCNotes |-> 2]
MCCombined == [n \in DOMAIN MCNotes |-> IF n = "reviewComments" THEN 1 ELSE 3]
Raw(pr, identity, length) == 
  [identity |-> identity, pullRequest |-> pr, length |-> length, state |-> "open", draft |-> pr,
   oddState |-> FALSE, longPath |-> FALSE]
Elems(elements) == Answer(200, "page", elements)
RawNote(length) == Raw(FALSE, TRUE, length)
Endpoints == {"repository", "issues", "search", "issue", "pull", "moved"} \union DOMAIN MCNotes
Elsewhere == [origin |-> "elsewhere", endpoint |-> "moved"]
Quiet(pr) ==
  [url \in {Source!Url(e) : e \in Endpoints} \union {Elsewhere} |->
     CASE url.endpoint = "repository" -> Answer(200, "object", Raw(FALSE, TRUE, 0))
       [] url.endpoint = "issue" -> Answer(200, "object", Raw(pr, TRUE, 3))
       [] url.endpoint = "pull" -> Answer(200, "object", [merged |-> FALSE, draft |-> TRUE])
       [] url.endpoint \in DOMAIN MCNotes -> Elems(<<RawNote(1), RawNote(0), RawNote(2)>>)
       [] OTHER -> Elems(<<Raw(FALSE, TRUE, 1), Raw(TRUE, TRUE, 3), Raw(TRUE, TRUE, 0)>>)]
Redirect(url) == [does |-> "redirect", location |-> url]
Anywhere ==
  {[does |-> "fails"], Redirect(Elsewhere), Redirect(Source!Url("moved")), Redirect([origin |-> "none"]),
   Answer(200, "stalls", 0), Answer(200, "oversize", 0), Answer(200, "malformed", 0), Answer(200, "empty", 0)}
  \union {Answer(status, "malformed", 0) : status \in {404}}
  \union {[Answer(status, "empty", 0) EXCEPT !.remaining = r] : status \in {401, 403, 404, 422, 429, 500}, r \in {-1, 0}}
OddPages ==
  {Elems(<<>>), Elems(<<Raw(FALSE, FALSE, 0)>>), Elems(<<Raw(TRUE, TRUE, 4), Raw(FALSE, FALSE, 1)>>), Elems(<<Raw(FALSE, TRUE, 2)>>),
   [Elems(<<Raw(FALSE, TRUE, 1)>>) EXCEPT !.incomplete = TRUE], [Elems(<<>>) EXCEPT !.remaining = 1]}
OddNotes ==
  {Elems(<<RawNote(3), RawNote(1)>>), Elems(<<RawNote(2), RawNote(2)>>), Elems(<<[RawNote(1) EXCEPT !.identity = FALSE], RawNote(1)>>),
   Elems(<<[RawNote(0) EXCEPT !.oddState = TRUE]>>), Elems(<<[RawNote(1) EXCEPT !.longPath = TRUE]>>)}
MCNetworks ==
  {[Quiet(pr) EXCEPT ![Source!Url(e)] = a] : pr \in BOOLEAN, e \in Endpoints, a \in Anywhere}
  \union {[Quiet(FALSE) EXCEPT ![Source!Url(e)] = a] : e \in {"issues", "search"}, a \in OddPages}
  \union {[Quiet(TRUE) EXCEPT ![Source!Url(e)] = a] : e \in DOMAIN MCNotes, a \in OddNotes}
  \union {[Quiet(FALSE) EXCEPT ![Source!Url("issue")] = Answer(200, "object", r)] : r \in {Raw(FALSE, FALSE, 0), Raw(FALSE, TRUE, 4)}}
  \union {[Quiet(FALSE) EXCEPT ![Source!Url("repository")] = Redirect(Source!Url("issues")),
                               ![Source!Url("issues")] = Redirect(Source!Url("moved")),
                               ![Source!Url("moved")] = a] :
            a \in {Redirect(Source!Url("pull")), Answer(200, "object", Raw(FALSE, TRUE, 0))}}
MCGitHubRequests ==
  {[provider |-> "github"] @@ Source!CreateGitHubProviderRequest(Repo, s) : s \in
     [mode : {"overview", "issues"}, state : {"open"}, limit : {1, 2, 4}] \union [mode : {"repository"}]
     \union [mode : {"search"}, query : {<<"w">>, <<"is:">>}, state : {"all"}, kind : {"issues"}, limit : {3}]
     \union [mode : {"item"}, number : {7}, notes : {Nothing, [comments |-> 3], [comments |-> 2, reviews |-> 2, reviewComments |-> 1]}]}

\* Observation.
Field(path, value) == [path |-> path, value |-> value]
Evidence(content, fields) == [name |-> content, source |-> "hub", content |-> content, fields |-> fields]
MCStores ==
  {[records |-> {}, unreadable |-> {}]}
  \union {[records |-> {[id |-> <<"hub", 1>>, observedAt |-> 1, fields |-> {}]}, unreadable |-> u] : u \in {{}, {<<"hub", 1>>}}}
MCDerivations ==
  LET fields == {{Field(p, v)} : p \in {<<"title">>, <<"metadata", "path">>, <<"metadata", "Raw_Body">>, <<"a", "TOKEN">>,
                                         <<"a", "b", "c", "d">>}, v \in {"text", "absolutePath"}}
      one == [evidence |-> <<Evidence(1, {})>>, drafts |-> {{2}}, fields |-> {}]
      two == [one EXCEPT !.drafts = {{1}, {1, 2}}]
  IN {one} \union {[two EXCEPT !.evidence = <<Evidence(1, {}), Evidence(2, f)>>] : f \in fields}
     \union {[two EXCEPT !.evidence = <<Evidence(1, {}), Evidence(2, {})>>, !.fields = f] : f \in fields}
World(net, refused, store, derived) == [net |-> net, refused |-> refused, store |-> store, derived |-> derived]
MCWorlds ==
  LET store == CHOOSE s \in MCStores : s.records = {}
      derived == CHOOSE d \in MCDerivations : Len(d.evidence) = 1
  IN {World(net, {}, store, [derived EXCEPT !.drafts = {}]) : net \in MCNetworks}
     \union {World(Quiet(TRUE), refused, s, d) :
               refused \in {{}, {"identity"}, {"evidence"}, {"state"}}, s \in MCStores, d \in MCDerivations}

-----------------------------------------------------------------------------
(* Commands. *)

\* Tokens, and pieces of lines: an option with a value it takes, one it does not, or none.
Said(text) == Cli!TextToken(text)
Digits(n) == Cli!NumberToken(n)
Opt(name) == <<Cli!OptionToken(name)>>
OddText(has) == [Said("odd") EXCEPT !.has = {has}]
MCSpelling == ("a/b" :> Repo) @@ ("b" :> <<"b">>) @@ ("w" :> <<"w">>) @@ (" " :> <<" ">>)

MemoryHeads == {<<Said("memory"), Said(sub)>> : sub \in Cli!MemorySubcommands \union {"odd"}}
MemoryPieces ==
  {Opt(o) \o <<Said(v)>> : o \in {"projectId", "confirm", "destination", "locale", "kind"}, v \in {"p", "en", "risk"}}
  \union {Opt(o) \o <<Digits(n)>> : o \in {"limit", "staleAfter", "beforeSequence"}, n \in {0, 1, 101}}
  \union {Opt(o) : o \in {"apply", "forceCorruptDelete", "migrateStore", "dataDir", "unknown"}}
  \union {<<Said("root")>>, Opt("projectId") \o <<OddText("control")>>, Opt("previous") \o <<Said("s")>>,
          Opt("previous") \o <<Said("s")>> \o Opt("current") \o <<Said("t")>>, Opt("current") \o <<Said("s")>>,
          <<Cli!ModeToken("--json")>>, <<Cli!ModeToken("--markdown")>>, <<Said("-h")>>}
MemoryLines ==
  {h \o a \o b : h \in MemoryHeads, a \in MemoryPieces \union {<<>>}, b \in MemoryPieces \union {<<>>}}
  \union {<<Said("memory")>> \o a \o <<Said(sub)>> : a \in MemoryPieces, sub \in {"history", "delete"}}

GitHubPieces ==
  {Opt("source") \o <<Said(s)>> : s \in {"issues", "item", "search", "odd"}}
  \union {Opt("state") \o <<Said("closed")>>, Opt("kind") \o <<Said("issues")>>, Opt("number") \o <<Digits(7)>>,
          Opt("number") \o <<[Digits(7) EXCEPT !.has = {"padded"}]>>, Opt("query") \o <<Said("w")>>,
          Opt("query") \o <<OddText("edges")>>, Opt("limit") \o <<Digits(2)>>, Opt("limit") \o <<Digits(9)>>,
          Opt("includeComments"), Opt("includeReviews"), Opt("commentLimit") \o <<Digits(3)>>, Opt("commentLimit") \o <<Digits(4)>>,
          Opt("providerConfig") \o <<Said("good")>>, Opt("providerConfig") \o <<Said("gone")>>,
          Opt("providerConfig") \o <<Said(" ")>>, <<Cli!ModeToken("--json")>>, <<Said("b")>>, <<Said("a/b")>>}
GitHubLines ==
  {<<Said("github"), Said(op)>> \o a \o b \o c :
     op \in {"brief", "odd"}, a \in {<<>>, <<Said("a/b")>>}, b \in GitHubPieces \union {<<>>}, c \in GitHubPieces \union {<<>>}}
  \union {<<Said("github"), Said("risks"), Said("a/b")>> \o Opt("source") \o <<Said("item")>> \o Opt("number") \o <<Digits(7)>> \o b \o c :
            b \in GitHubPieces, c \in GitHubPieces}

OtherLines ==
  {<<Said("providers"), Said(sub)>> \o a \o b \o c :
     sub \in {"status", "doctor", "odd"}, a \in {<<>>, <<Said("github")>>}, b \in {<<>>, <<Said("a/b")>>, <<Said("b")>>},
     c \in {<<>>, Opt("confirmNetwork"), Opt("confirmNetwork") \o Opt("confirmNetwork"), Opt("providerConfig") \o <<Said("good")>>,
            Opt("confirmNetwork") \o Opt("providerConfig") \o <<Said("link")>>}}
  \union {<<Said(name)>> \o a \o b :
            name \in Cli!FlatCommands \union {"odd", "mcp-config", "providers", "memory"},
            a \in {<<>>, <<Said("root")>>, <<[Said(" ") EXCEPT !.has = {"blank"}]>>, <<Cli!ModeToken("--json")>>},
            b \in {<<>>, <<Said("b")>>, Opt("unknown"), Opt("name") \o <<Said("n")>>, <<Said("-h")>>}}
MCRunLines ==
  {<<>>} \union OtherLines \union {h \o a : h \in MemoryHeads, a \in {<<>>, Opt("projectId") \o <<Said("p")>>, <<Said("-h")>>}}
  \union {<<Said("github"), Said("brief")>> \o a \o b : a \in {<<>>, <<Said("a/b")>>}, b \in GitHubPieces}
  \union {<<Said("github"), Said("risks"), Said("a/b")>> \o Opt("source") \o <<Said("item")>> \o Opt("number") \o <<Digits(7)>>
             \o Opt("includeComments") \o Opt("commentLimit") \o <<Digits(3)>>}
MCCommandLines == {<<>>} \union MemoryLines \union GitHubLines \union OtherLines

\* Worlds of a process: where the configuration is, and one thing that may go wrong.
File(is, readable, config) == [is |-> is, readable |-> readable, config |-> config]
Files ==
  [good |-> File("file", TRUE, GitHubConfig([defaultRepository |-> Repo])), link |-> File("link", TRUE, 0),
   odd |-> File("file", TRUE, [version |-> 2]), torn |-> File("file", FALSE, 0)]
Envs ==
  {[e \in {} |-> " "], [home |-> "good"], [named |-> "gone", home |-> "good"], [named |-> "odd"], [named |-> " ", xdg |-> "torn"],
   [home |-> "gone", token |-> "t"], [xdg |-> "good", home |-> "odd", token |-> "control"], [appdata |-> "good", home |-> "odd"]}
Installed == <<"p", "lib", "oh-my-pm", "versions", "v", "bin", "omp">>
CalmWorld ==
  [env |-> [home |-> "good", token |-> "t"], platform |-> "linux", files |-> Files, runtime |-> "ok", documents |-> "loaded",
   kernel |-> TRUE, access |-> TRUE, memory |-> "ok", entry |-> Installed, installed |-> {<<"p", "bin", "omp-mcp">>}, signal |-> FALSE]
MCCommandWorlds ==
  {CalmWorld, [CalmWorld EXCEPT !.signal = TRUE], [CalmWorld EXCEPT !.kernel = FALSE], [CalmWorld EXCEPT !.access = FALSE],
   [CalmWorld EXCEPT !.documents = "empty"], [CalmWorld EXCEPT !.platform = "win32"], [CalmWorld EXCEPT !.entry = Tail(@)]}
  \union {[CalmWorld EXCEPT !.env = e] : e \in Envs}
  \union {[CalmWorld EXCEPT !.runtime = r, !.memory = m] :
            r \in {"not ok", "no output", "throws"}, m \in {"nothing to compare", "fails", "throws"}}

\* Memory requests, stores of up to two snapshots that cite one or two records, and worlds.
MCCites == ("s" :> {"e"}) @@ ("t" :> {"e", "f"})
Applying == [apply |-> TRUE]
WithOrWithout(given) == {given, given @@ [projectId |-> "p"]}
MCMemoryRequests ==
  {[sub |-> "capture", given |-> g] :
     g \in UNION {WithOrWithout([apply |-> a, migrateStore |-> mg]) : a \in BOOLEAN, mg \in BOOLEAN}}
  \union {[sub |-> sub, given |-> g] : sub \in {"status", "history"}, g \in WithOrWithout([limit |-> 1])}
  \union {[sub |-> "timeline", given |-> [projectId |-> "p", limit |-> 1]]}
  \union {[sub |-> "changes", given |-> g] : g \in WithOrWithout([staleAfter |-> 0]) \union WithOrWithout([previous |-> "t", current |-> "s"])}
  \union {[sub |-> sub, given |-> g] : sub \in {"export", "repair"}, g \in WithOrWithout(Applying)}
  \union {[sub |-> "delete", given |-> g] :
            g \in UNION {WithOrWithout([apply |-> TRUE, confirm |-> c, forceCorruptDelete |-> f]) : c \in {"p", "q"}, f \in BOOLEAN}}

StoreOf(manifest, snaps) ==
  [dir |-> TRUE, manifest |-> manifest, snaps |-> snaps, evid |-> UNION {MCCites[x] : x \in ToSet(snaps)},
   damaged |-> {}, gone |-> {}, stray |-> {}, staging |-> FALSE, locked |-> FALSE]
SoundStores == {StoreOf(mf, snaps) : mf \in {"damaged", "newer", "odd", "older", "current"}, snaps \in {<<"s">>, <<"t">>, <<"t", "s">>}}
RecordsOf(s) == ToSet(s.snaps) \union s.evid
MCMemoryStores ==
  {Memory!NoStore, [Memory!NoStore EXCEPT !.dir = TRUE], [Memory!NoStore EXCEPT !.dir = TRUE, !.stray = {"e"}, !.staging = TRUE]}
  \union SoundStores \union {[s EXCEPT !.staging = TRUE] : s \in SoundStores} \union {[s EXCEPT !.locked = TRUE] : s \in SoundStores}
  \union {[s EXCEPT !.stray = {"s"} \ RecordsOf(s)] : s \in SoundStores}
  \union {[s EXCEPT !.stray = {"s"} \ RecordsOf(s), !.damaged = {"s"}] : s \in SoundStores}
  \union {[s EXCEPT !.evid = @ \ {"e"}] : s \in SoundStores}
  \union UNION {{[s EXCEPT !.gone = {r}] : r \in RecordsOf(s)} : s \in SoundStores}
  \union UNION {{[s EXCEPT !.damaged = {r}, !.locked = l] : r \in RecordsOf(s), l \in BOOLEAN} : s \in SoundStores}

CalmMemory == [load |-> "ok", configId |-> "p", snapshot |-> "s", derives |-> TRUE, migrates |-> TRUE, destination |-> "free"]
MCMemoryWorlds ==
  {CalmMemory, [CalmMemory EXCEPT !.snapshot = "t"], [CalmMemory EXCEPT !.derives = FALSE], [CalmMemory EXCEPT !.migrates = FALSE],
   [CalmMemory EXCEPT !.destination = "taken"], [CalmMemory EXCEPT !.destination = "unsafe"]}
  \union {[CalmMemory EXCEPT !.configId = c] : c \in {"none", "bad", "q"}}
  \union {[CalmMemory EXCEPT !.load = l] : l \in {"config invalid", "root invalid", "no documents"}}

-----------------------------------------------------------------------------
(* Surfaces. *)

MCMaxAttached == [comments |-> 2, reviews |-> 1, reviewComments |-> 1]

\* Changes: known or not, nameable or not, with texts of every sort.
ToolChange(category, id, previous, current) ==
  [category |-> category, itemKind |-> "task", itemId |-> id, previous |-> previous, current |-> current, evidence |-> 1]
NoText == [f \in {} |-> ""]
ToolChanges ==
  {ToolChange(c, id, NoText, [title |-> t]) : c \in {"added", "odd"}, id \in {"x", "long", "marker"}, t \in {"a", "path"}}
  \union {ToolChange("modified", "y", [title |-> p, status |-> "open"], [title |-> t, status |-> s]) :
            p \in {"a", "control"}, t \in {"b", "control"}, s \in {"done", "path"}}
MCOldChanges == <<ToolChange("added", "x", NoText, [title |-> "a"]), ToolChange("removed", "y", [title |-> "b"], NoText)>>

ChangesCalls == {[of |-> "changes tool", changes |-> s, limit |-> l] :
                   s \in {<<>>} \union UNION {{<<a>>, <<a, b>>, <<a, b, CHOOSE c \in ToolChanges : c.itemId = "x">>} :
                                                 a \in ToolChanges, b \in ToolChanges}, l \in 1..2}
TimelineCalls ==
  {[of |-> "timeline tool", captures |-> c, query |-> q, unsafe |-> u] :
     c \in {c \in MCChronologies : Len(c) = 3}, q \in {q \in MCQueries : q.limit \notin {0, 6}}, u \in {{}, {1}, {2}}}

\* Items of an answer: sources and notes of two numbers.
Items2 == {[type |-> t, number |-> n, parent |-> 0] : t \in {"issue", "pullRequest"}, n \in {7, 8}}
          \union {[type |-> "record", number |-> 0, parent |-> 0]}
Notes2 == {[type |-> t, number |-> 0, parent |-> n] : t \in {"comments", "reviewComments"}, n \in {0, 7, 8}}
Selections2 == {[mode |-> "item", number |-> 7], [mode |-> "search", limit |-> 1], [mode |-> "issues", limit |-> 3]}
GitHubCalls ==
  {[of |-> "github tool", items |-> i, selection |-> s] : s \in Selections2,
     i \in UNION {{<<a, n>>, <<a, n, m>>, <<a, b, n, n, n>>} : a \in Items2, b \in Items2, n \in Notes2, m \in Notes2}}

Entry(fields, odd) == [fields |-> fields, odd |-> odd]
OutputCalls ==
  {[of |-> "document tool", tool |-> t, output |-> [odd |-> o, entries |-> e],
    world |-> [CalmWorld EXCEPT !.runtime = r, !.documents = d]] :
     t \in {"project_brief", "project_risks", "project_next", "project_handoff"}, o \in {{}, {"title"}}, r \in {"ok", "throws", "no output"},
     d \in {"loaded", "empty"}, e \in {<<>>, <<Entry({"url"}, {})>>, <<Entry({"url"}, {"url"}), Entry({"priority"}, {"priority"})>>,
                                      <<Entry({}, {"reason"})>>, <<Entry({"url"}, {}), Entry({"url"}, {"items"})>>}}
MCToolCalls == ChangesCalls \union TimelineCalls \union GitHubCalls \union OutputCalls

-----------------------------------------------------------------------------
(* Extraction. *)

Line(sort, mark, prefix, text) == [sort |-> sort, mark |-> mark, prefix |-> prefix, text |-> text]
Heading(h) == Line("heading", h, "", "")
Fence(mark) == Line("fence", mark, "", "")
Blank == Line("blank", "", "", "")
ListLines ==
  {Line("bullet", m, p, "a") : m \in {"", "checked", "unchecked"}, p \in {"", "risk"}}
  \union {Line("number", "", p, "b") : p \in {"", "p0"}} \union {Line("bullet", "", "", "")}
PlainLines == {Line("plain", "", p, "b") : p \in {"", "blocker", "next"}} \union {Blank}
Lines == ListLines \union PlainLines

Headings == {"blockers", "faRisks", "concerns", "dependencies", "actionItems", "decisions", "constraints", "other", ""}
Texts ==
  {<<Heading(h), a, b>> : h \in Headings, a \in ListLines, b \in Lines}
  \union {<<Heading(h), a, Fence("tick"), b, Fence(f), c>> :
            h \in {"risks", "nextSteps"}, a \in PlainLines, b \in {Heading("blockers"), Line("bullet", "unchecked", "", "c"), Fence("tilde")},
            f \in {"tick", "tilde"}, c \in {Line("plain", "", "risk", "d"), Line("bullet", "", "", "d")}}
  \union {<<Heading(g), a, Heading(h), b>> : g \in {"decisions", "milestones", "objective", "summary"}, h \in {"decisions", "roadmap", "concerns"},
            a \in {Line("bullet", "", "", "a")}, b \in {Line("bullet", "", "", "a"), Line("plain", "", "", "b")}}
  \union {<<a, b>> : a \in PlainLines, b \in PlainLines}

NoDue == Due("none", 0)
Open1(of, id) ==
  [of |-> of, id |-> id, title |-> "t", status |-> "open", labels |-> <<>>, tags |-> {}, due |-> NoDue, lines |-> <<>>,
   parent |-> "", review |-> "", author |-> "", reviewers |-> {}]
Document(id, lines) == [Open1("document", id) EXCEPT !.status = "", !.lines = lines]
Note(of, id, parent, lines) == [Open1(of, id) EXCEPT !.status = "", !.parent = parent, !.author = "u", !.lines = lines]

Bodies == {<<>>} \union {<<Heading(h), Line("bullet", "", "", "a")>> : h \in {"blockers", "risks", "concerns"}}
Issues ==
  {[Open1(of, "i") EXCEPT !.status = s, !.labels = l, !.lines = b] :
     of \in {"issue", "pullRequest"}, s \in {"open", "draft", "closed", "blocked"},
     l \in {<<>>, <<"blocker">>, <<"waiting">>, <<"p2", "critical">>, <<"duplicate">>}, b \in Bodies}
  \union {[Open1(of, "i") EXCEPT !.title = w, !.tags = g, !.due = d, !.status = s] :
     of \in {"issue", "plain", "repository"}, w \in {"t", "blocker", "delay", "concern"}, g \in {{}, {"blocked"}, {"archived"}, {"waiting"}},
     d \in {NoDue, Due("day", 1), Due("at", 8), Due("odd", 0)}, s \in {"", "open", "done"}}
NoteItems ==
  {[Note(of, "n", p, <<Heading(h), a>>) EXCEPT !.review = r] : of \in Skill!Notes, p \in {"open", "merged"},
     r \in {"changesRequested", "approved"}, h \in {"risks", "concerns", "actionItems", "decisions"}, a \in Lines}
Others == {Open1("issue", "j"), [Open1("pullRequest", "j") EXCEPT !.labels = <<"critical">>], Open1("issue", "h"),
           Document("e", <<Heading("risks"), Line("bullet", "", "", "a")>>),
           Note("review", "m", "open", <<Line("plain", "", "next", "a")>>)}

Given(items) == [items |-> items, risks |-> <<>>, tasks |-> <<>>, decisions |-> <<>>, now |-> 8]
MCSkillInputs ==
  {Given(<<Document("d", t)>>) : t \in Texts}
  \union {Given(<<i>>) : i \in Issues \union NoteItems}
  \union {Given(<<a, i, b>>) : a \in Others, b \in Others, i \in Others \union {i \in Issues : i.title = "t" /\ i.lines = <<>> /\ i.due = NoDue}}
  \union {Given(<<Document("d", <<Heading("risks"), x, Heading("actionItems"), y>>), n, o>>) :
            x \in ListLines, y \in {Line("bullet", "unchecked", "", "a"), Line("number", "", "p0", "b")},
            n \in {n \in NoteItems : n.lines[1].mark = "risks" /\ n.lines[2].prefix = "next"}, o \in Others}
  \union {[Given(<<i>>) EXCEPT !.risks = <<r>>, !.tasks = <<r>>] :
            r \in {Open1("plain", "i"), [Open1("plain", "k") EXCEPT !.title = "risk"]}, i \in Others}

-----------------------------------------------------------------------------
(* Packages. *)

\* The directory /pkg with the files a and b/a, as it is and as it is later.
Dir == <<"pkg">>
At(segs) == Pkg!Path("root", Dir \o segs)
Rel(segs) == Pkg!Path("none", segs)
A == Rel(<<"a">>)
BA == Rel(<<"b", "a">>)
DotA == Rel(<<".", "a">>)
On(contents) == [s \in DOMAIN contents |-> [sort |-> "file", content |-> contents[s]]]
Both == On((Dir \o <<"a">> :> 1) @@ (Dir \o <<"b", "a">> :> 2))
Changed == On((Dir \o <<"a">> :> 3) @@ (Dir \o <<"b", "a">> :> 2))
Gone == On(Dir \o <<"b", "a">> :> 2)
Nested == On(Dir \o Dir \o <<"a">> :> 1)
FileOf(path, content) == [path |-> path, content |-> content, checksum |-> content]

Spelled(root, base) == [root |-> root, base |-> base]
Roots == {Spelled(Rel(<<".">>), Dir), Spelled(Rel(Dir), Dir), Spelled(Rel(<<>>), Dir), Spelled(Pkg!Path("root", <<>>), <<>>)}
Token1(intent, root) == Pkg!Token(intent, root, "ready")
LocalUpdates == [mode |-> "manual", allowedChannels |-> {"stable", "dev"}, allowDowngrade |-> FALSE, requireIntegrity |-> TRUE]
FullContract == [name |-> "n", capabilities |-> Pkg!Capabilities, approval |-> TRUE, capture |-> TRUE]
FullArtifacts == [name |-> "n", capabilities |-> {"write-text-output", "write-binary-output"}, dryRun |-> TRUE, permission |-> TRUE]

Ready ==
  [name |-> "n", version |-> 2, root |-> At(<<>>), base |-> Dir, include |-> <<A, BA>>, disk |-> Both, later |-> Both, createdAt |-> 5,
   signed |-> TRUE, key |-> "k", altered |-> FALSE, channel |-> "dev", older |-> <<>>, installed |-> 1, updatePolicy |-> LocalUpdates,
   own |-> FALSE, current |-> <<FileOf(At(<<"a">>), 9)>>, backup |-> <<FileOf(A, 8)>>,
   intents |-> <<"install", "install", "install">>, policy |-> [Pkg!DefaultWritePolicy EXCEPT !.mode = "explicit"],
   approved |-> FALSE, tokens |-> {Token1("install", At(<<>>))}, contract |-> FullContract, failing |-> {}, release |-> "v",
   artifactPolicy |-> [Pkg!DefaultArtifactPolicy EXCEPT !.mode = "explicit"], artifactApproved |-> TRUE, artifactContract |-> FullArtifacts]

\* What the command line asks, of any directory.
AsTheCommand ==
  [installed |-> 1, own |-> TRUE, current |-> <<>>, backup |-> <<>>, policy |-> Pkg!DefaultWritePolicy, tokens |-> {},
   artifactPolicy |-> Pkg!DefaultArtifactPolicy, artifactApproved |-> FALSE] @@ Ready

Release1(version, time, ok) == [version |-> version, createdAt |-> time, metadata |-> ok, integrity |-> ok]
Directories ==
  {[include |-> i] : i \in {<<A>>, <<A, DotA>>, <<A, Rel(<<"..", "x">>)>>, <<A, Rel(<<"none">>)>>, <<>>}}
  \union {[later |-> d] : d \in {Changed, Gone}} \union {[disk |-> d, later |-> d] : d \in {Gone, Nested}} \union Roots
Releases ==
  {[older |-> o] : o \in {<<Release1(1, 4, TRUE)>>, <<Release1(3, 9, TRUE)>>, <<Release1(0, 5, TRUE)>>, <<Release1(2, 4, TRUE)>>, <<Release1(3, 9, FALSE)>>}}
  \union {[installed |-> v] : v \in {0, 2, 3}} \union {[altered |-> TRUE], [signed |-> FALSE], [key |-> ""], [createdAt |-> 0], [version |-> 0]}
  \union {[channel |-> "stable"], [channel |-> "odd"]}
  \union {[updatePolicy |-> [LocalUpdates EXCEPT !.allowDowngrade = TRUE]], [updatePolicy |-> [LocalUpdates EXCEPT !.requireIntegrity = FALSE]],
          [updatePolicy |-> [LocalUpdates EXCEPT !.allowedChannels = {}]]}
Impacts ==
  {[current |-> c] : c \in {<<>>, <<FileOf(At(<<"a">>), 1), FileOf(BA, 2)>>, <<FileOf(A, 9), FileOf(At(<<"a">>), 1), FileOf(Rel(<<"c">>), 7)>>}}
  \union {[backup |-> b] : b \in {<<>>, <<FileOf(A, 9)>>, <<FileOf(A, 8), FileOf(Rel(<<"d">>), 7)>>, <<FileOf(At(<<"a">>), 8)>>}}
Requests ==
  {[intents |-> i] : i \in {<<"update", "update", "update">>, <<"rollback", "rollback", "rollback">>, <<"install", "update", "install">>,
                            <<"install", "install", "update">>, <<"odd", "odd", "odd">>}}
  \union {[policy |-> [Pkg!DefaultWritePolicy EXCEPT !.mode = "explicit", !.requireReady = FALSE], approved |-> TRUE],
          [policy |-> [Pkg!DefaultWritePolicy EXCEPT !.mode = "explicit", !.requireApproval = FALSE]],
          [policy |-> [Pkg!DefaultWritePolicy EXCEPT !.mode = "explicit", !.intents = {"install"}]], [policy |-> Pkg!DefaultWritePolicy]}
  \union {[tokens |-> t] : t \in {{}, {Token1("install", Rel(<<".">>))}, {Token1("update", At(<<>>))}, {[Token1("install", At(<<>>)) EXCEPT !.text = <<>>]},
                                  {Pkg!Token("install", At(<<>>), "blocked")}}}
  \union {[approved |-> TRUE], [contract |-> [FullContract EXCEPT !.capabilities = {"backup-file"}]],
          [contract |-> [FullContract EXCEPT !.approval = FALSE]]}
Published ==
  {[failing |-> {"tests"}], [release |-> ""], [artifactApproved |-> FALSE], [artifactPolicy |-> Pkg!DefaultArtifactPolicy],
   [artifactContract |-> [FullArtifacts EXCEPT !.capabilities = {"write-text-output"}]]}

Varied(base, one, other) == {x @@ y @@ base : x \in one, y \in other}
MCPackageInputs ==
  {Ready, AsTheCommand} \union Varied(AsTheCommand, Directories, Directories \union Releases)
  \union Varied(Ready, Requests, Requests \union Impacts \union {[include |-> <<A, Rel(<<"none">>)>>], [approved |-> TRUE]})
  \union Varied(Ready, Releases, Releases \union Directories) \union Varied(Ready, Published, Published \union Requests)
  \union Varied(Ready, Impacts, Impacts \union Roots)

-----------------------------------------------------------------------------
Package(version, files, contents) ==
  [name |-> "n", version |-> version, checksum |-> 1, files |-> files, hasEntries |-> TRUE,
   entries |-> [i \in DOMAIN files |-> [path |-> files[i], checksum |-> contents[i], size |-> contents[i]]]]
Wanted(version, files, contents, time) ==
  [input |-> [manifest |-> Package(version, files, contents), root |-> At(<<>>), installedAt |-> time],
   files |-> [i \in DOMAIN files |-> FileOf(At(files[i].segs), contents[i])]]
Wanted2 == Wanted(2, <<A, BA>>, <<5, 6>>, 1)
MCInstallations ==
  {Wanted2, [Wanted2 EXCEPT !.input.installedAt = 0], [Wanted2 EXCEPT !.input.root = Pkg!Path("root", <<>>)],
   [Wanted2 EXCEPT !.files[2].checksum = 7], Wanted(3, <<A, DotA>>, <<5, 7>>, 1), Wanted(3, <<BA, Rel(<<"l">>)>>, <<5, 6>>, 1),
   Wanted(3, <<BA, Rel(<<"l", "x">>)>>, <<5, 6>>, 1),
   Wanted(3, <<BA, Rel(<<"a", "x">>)>>, <<6, 5>>, 1)}
\* On the last disk the directory b and the backups are links to a directory outside,
\* and l leads to nothing; the place that both write to is there already.
Link(to) == [sort |-> "link", to |-> to]
FileOn(content) == [sort |-> "file", content |-> content]
Out == <<"out">>
MCDisks == {[base |-> Dir, disk |-> (Dir \o <<"l">> :> Link(Dir \o <<"a">>)) @@ Gone @@ (Dir \o <<"a">> :> FileOn(1))],
            [base |-> Dir, disk |-> (Dir \o <<"l">> :> Link(Dir \o <<"a">>))],
            [base |-> Dir, disk |-> (Dir \o <<"a">> :> FileOn(1)) @@ (Dir \o <<"b">> :> Link(Out)) @@ (Out \o <<"a">> :> FileOn(2))
               @@ (Dir \o <<Pkg!BackupDirectory>> :> Link(Out)) @@ (Dir \o <<"l">> :> Link(<<"none">>))]}
Planned(id, to) == [id |-> id, from |-> 1, to |-> to, steps |-> 1, rollback |-> "r", paths |-> 1]
MCPackageUpdates == {[plan |-> Planned("u", 4), current |-> [version |-> 1, installedAt |-> 1, root |-> At(<<>>)]],
                     [plan |-> Planned("v", 1), current |-> [version |-> 1, installedAt |-> 1, root |-> At(<<>>)]]}
RollbackOf(id, paths) == [id |-> Rel(<<id>>), paths |-> paths, createdAt |-> 1]
MCPackageRollbacks == {RollbackOf("r", <<A, BA>>), RollbackOf("r", <<BA>>), RollbackOf("..", <<A>>), RollbackOf("s", <<A, Rel(<<"l">>)>>)}
MCFaults == {Pkg!NoFault, [at |-> 1, how |-> "midway"], [at |-> 2, how |-> "before"], [at |-> 2, how |-> "midway"]}
MCEdits == {[place |-> Dir \o <<"a">>, remove |-> FALSE, content |-> 4], [place |-> Dir \o <<"a">>, remove |-> TRUE, content |-> 0],
            [place |-> Dir \o <<"b">>, remove |-> FALSE, content |-> 4]}
=============================================================================
