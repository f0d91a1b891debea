--------------------------- MODULE GitHubProvider ---------------------------
(***************************************************************************)
(* The read-only GitHub provider (github/provider.ts, transport.ts and     *)
(* normalize.ts of providers/src), with the local provider and the         *)
(* registry beside it.                                                     *)
(*                                                                         *)
(* The network is a function from a URL to what its server does: it fails  *)
(* (a timeout too), redirects, or answers with a status, headers and a     *)
(* body that is well formed or not, or never ends.  A URL is an origin and *)
(* an endpoint.  The body of an issue says whether it has an identity and  *)
(* is a pull request, and how long its text is; a page is a sequence of    *)
(* such bodies or of notes.                                                *)
(***************************************************************************)
EXTENDS Integers, Sequences, FiniteSets, SequencesExt, GitHubQueries

CONSTANTS MaxRedirects,                \* MAX_REDIRECTS
          LowRemaining,                \* RATE_LIMIT_WARN_THRESHOLD
          MaxBody, MaxNoteBody, MaxCombined   \* the ceilings of a body and of all notes of a kind

Absent == -1                 \* a limit that was not given

Origin == "api.github.com"
Url(endpoint) == [origin |-> Origin, endpoint |-> endpoint]
SameOrigin(url) == url.origin = Origin

-----------------------------------------------------------------------------
(* The transport. *)

\* The URLs contacted for a request: its own, and each redirect that is followed.
Contacted(net, url) ==
  LET follow(urls, hop) ==
        LET there == net[Last(urls)]
        IN IF there.does = "redirect" /\ SameOrigin(there.location) /\ Len(urls) = hop
           THEN Append(urls, there.location) ELSE urls
  IN IF SameOrigin(url) THEN FoldLeft(follow, <<url>>, [hop \in 1..MaxRedirects |-> hop]) ELSE <<>>

\* The timer of a request ends with its headers: a body is waited for without one.
Hangs(net, url) ==
  /\ Contacted(net, url) # <<>>
  /\ LET there == net[Last(Contacted(net, url))] IN there.does = "answer" /\ there.body = "stalls"

Request(net, url) ==
  LET urls == Contacted(net, url)
      there == net[Last(urls)]
  IN IF urls = <<>> THEN Refused("transport")
     ELSE IF there.does # "answer" THEN Refused("transport")
     ELSE IF there.body \in {"oversize", "malformed"} THEN Refused("invalidResponse")
     ELSE there

-----------------------------------------------------------------------------
(* Statuses. *)

FailureForStatus(answer) ==
  CASE answer.status = 401 -> "authentication"
    [] answer.status \in {404, 410} -> "notFound"
    [] answer.status = 422 -> "invalidRequest"
    [] answer.status = 429 -> "rateLimited"
    [] answer.status = 403 -> IF answer.remaining = 0 \/ answer.retryAfter THEN "rateLimited" ELSE "forbidden"
    [] OTHER -> "transport"

Get(net, endpoint) ==
  LET answer == Request(net, Url(endpoint))
  IN IF IsRefused(answer) THEN answer
     ELSE IF answer.status \in 200..299 THEN answer ELSE Refused(FailureForStatus(answer))

\* Without the header nothing is known; it is -1 then.
LowRateLimitWarning(answer) ==
  IF answer.remaining \in 0..(LowRemaining - 1) THEN {"rateLimitLow"} ELSE {}

-----------------------------------------------------------------------------
(* Normalization. *)

Smaller(a, b) == IF a <= b THEN a ELSE b
Taken(page, limit) == SubSeq(page, 1, Smaller(limit, Len(page)))

\* What one answer came to.
Step(items, warnings) == [items |-> items, warnings |-> warnings]
With(step, warnings) == IF IsRefused(step) THEN step ELSE [step EXCEPT !.warnings = @ \union warnings]

\* Merged before closed, closed before draft; what a detail says replaces the rest.
Status(raw, detail) ==
  CASE raw.pullRequest /\ detail.merged -> "merged"
    [] raw.state = "closed" /\ ~(raw.pullRequest /\ detail.merged) -> "closed"
    [] raw.pullRequest /\ raw.state # "closed" /\ ~detail.merged /\ detail.draft -> "draft"
    [] OTHER -> "open"

NormalizeIssueOrPullRequest(raw, detail) ==
  IF ~raw.identity THEN Refused("invalidResponse")
  ELSE Step(<<[type |-> IF raw.pullRequest THEN "pullRequest" ELSE "issue",
               status |-> Status(raw, detail), body |-> Smaller(raw.length, MaxBody)]>>,
            IF raw.length > MaxBody THEN {"bodyTruncated"} ELSE {})

NormalizeRepository(raw) ==
  IF ~raw.identity THEN Refused("invalidResponse")
  ELSE Step(<<[type |-> "repository", status |-> "none", body |-> 0]>>, {})

\* A state nobody knows is kept as unknown; a path is shown only, and cut where
\* it is too long.
OddOf(kind, raw) ==
  CASE kind = "comments" -> {}
    [] kind = "reviews" -> IF raw.oddState THEN {"stateUnknown"} ELSE {}
    [] kind = "reviewComments" -> IF raw.longPath THEN {"pathTruncated"} ELSE {}

\* The notes of one kind: records without an identity are skipped, bodies cut to
\* what one may hold and then to what is left for all of them, the earlier first.
NormalizeNotes(kind, page) ==
  LET note(done, raw) ==
        LET one == Smaller(raw.length, MaxNoteBody[kind])
            left == MaxCombined[kind] - done.combined
            cut == (IF raw.length > one THEN {"noteTruncated"} ELSE {})
                   \union (IF one > left THEN {"combinedTruncated"} ELSE {})
        IN IF Len(done.items) >= MaxNotes[kind] THEN [done EXCEPT !.warnings = @ \union {"notesDropped"}]
           ELSE IF ~raw.identity THEN [done EXCEPT !.warnings = @ \union {"noteInvalid"}]
           ELSE [items |-> Append(done.items, [type |-> "note", status |-> kind, body |-> Smaller(one, left)]),
                 combined |-> done.combined + Smaller(one, left),
                 warnings |-> done.warnings \union OddOf(kind, raw) \union cut]
  IN FoldLeft(note, [items |-> <<>>, combined |-> 0, warnings |-> {}], page)

NormalizeIssueComments(page) == NormalizeNotes("comments", page)
NormalizePullRequestReviews(page) == NormalizeNotes("reviews", page)
NormalizePullRequestReviewComments(page) == NormalizeNotes("reviewComments", page)

-----------------------------------------------------------------------------
(* The handlers.  A read is its steps, each a request that is made only if *)
(* the ones before it were answered and could be used.                     *)

\* Every element of a page has to be valid; draft is what the element says itself.
UsePage(page) ==
  LET own(raw) == [merged |-> FALSE, draft |-> raw.draft]
      use(done, raw) ==
        LET step == NormalizeIssueOrPullRequest(raw, own(raw))
        IN IF IsRefused(done) THEN done ELSE IF IsRefused(step) THEN step
           ELSE Step(done.items \o step.items, done.warnings \union step.warnings)
  IN FoldLeft(use, Step(<<>>, {}), page)

Object(answer) == answer.body = "object"
IsPullRequest(answer) == Object(answer) /\ answer.value.pullRequest
ReviewsAsked(asked) == DOMAIN asked.notes \intersect {"reviews", "reviewComments"} # {}

\* What the answer of an endpoint comes to in a read.
Use(net, asked, endpoint, answer) ==
  LET issue == Get(net, "issue")
      detail == IF Object(answer) THEN answer.value ELSE [merged |-> FALSE, draft |-> FALSE]
      low == LowRateLimitWarning(answer)
  IN CASE endpoint = "repository" ->
            IF Object(answer) THEN With(NormalizeRepository(answer.value), low) ELSE Refused("invalidResponse")
       [] endpoint = "issues" ->
            IF answer.body = "page" THEN UsePage(Taken(answer.value, asked.limit - 1)) ELSE Refused("invalidResponse")
       [] endpoint = "search" ->
            IF answer.body = "page"
            THEN With(UsePage(Taken(answer.value, asked.limit)),
                      low \union (IF answer.incomplete THEN {"incompleteResults"} ELSE {}))
            ELSE Refused("invalidResponse")
       [] endpoint = "issue" ->
            IF IsPullRequest(answer) THEN Step(<<>>, low)
            ELSE IF ReviewsAsked(asked) THEN Refused("invalidRequest")
            ELSE IF ~Object(answer) THEN Refused("invalidResponse")
            ELSE With(NormalizeIssueOrPullRequest(answer.value, detail), low)
       [] endpoint = "pull" -> With(NormalizeIssueOrPullRequest(issue.value, detail), low)
       [] endpoint \in NoteKinds ->
            IF answer.body # "page" THEN Refused("invalidResponse")
            ELSE LET page == Taken(answer.value, asked.notes[endpoint])
                     notes == CASE endpoint = "comments" -> NormalizeIssueComments(page)
                                [] endpoint = "reviews" -> NormalizePullRequestReviews(page)
                                [] endpoint = "reviewComments" -> NormalizePullRequestReviewComments(page)
                 IN Step(notes.items, notes.warnings \union low)

\* The endpoints of a fetch, in order: the issue says whether a pull request is read.
FetchSteps(net, notes) ==
  LET asked(kind) == kind \in DOMAIN notes
      issue == Get(net, "issue")
  IN IF IsRefused(issue) THEN <<"issue">>
     ELSE IF IsPullRequest(issue)
     THEN <<"issue", "pull">> \o SelectSeq(<<"comments", "reviews", "reviewComments">>, asked)
     ELSE <<"issue">> \o SelectSeq(<<"comments">>, asked)

\* A read, endpoint by endpoint, up to the first that fails; none is tried twice.
Read(net, asked, endpoints) ==
  LET get(done, endpoint) ==
        LET answer == Get(net, endpoint)
            used == IF IsRefused(answer) THEN answer ELSE Use(net, asked, endpoint, answer)
            gets == Append(done.gets, endpoint)
        IN IF ~done.ok THEN done
           ELSE IF Hangs(net, Url(endpoint)) THEN [ok |-> FALSE, code |-> "hangs", gets |-> gets]
           ELSE IF IsRefused(used) THEN [ok |-> FALSE, code |-> used.refused, gets |-> gets]
           ELSE [done EXCEPT !.items = @ \o used.items, !.warnings = @ \union used.warnings, !.gets = gets]
  IN FoldLeft(get, [ok |-> TRUE, items |-> <<>>, warnings |-> {}, gets |-> <<>>], endpoints)

ProviderFailure(code) == [ok |-> FALSE, code |-> code, gets |-> <<>>]

\* The terms' scope is built before a request is: what is unsafe reaches no server.
RunIssueSearch(net, slug, state, kind, terms, limit) ==
  LET scope == BuildGitHubIssueSearchScope(slug, state, kind, terms)
  IN IF IsRefused(scope) THEN ProviderFailure("invalidRequest")
     ELSE [searched |-> scope] @@ Read(net, [limit |-> limit, notes |-> [k \in {} |-> 0]], <<"search">>)

HandleList(net, query, limit) ==
  LET parsed == ParseGitHubListQuery(query)
      asked == [limit |-> limit, notes |-> [k \in {} |-> 0]]
  IN IF IsRefused(parsed) THEN ProviderFailure("invalidRequest")
     ELSE CASE parsed.source = "repository" -> Read(net, asked, <<"repository">>)
            [] parsed.source = "overview" ->
                 Read(net, asked, IF limit > 1 THEN <<"repository", "issues">> ELSE <<"repository">>)
            [] OTHER -> RunIssueSearch(net, parsed.slug, parsed.state, parsed.source, <<>>, limit)

HandleSearch(net, query, limit) ==
  LET parsed == ParseGitHubSearchQuery(query)
  IN IF IsRefused(parsed) THEN ProviderFailure("invalidRequest")
     ELSE RunIssueSearch(net, parsed.slug, parsed.state, parsed.kind, parsed.terms, limit)

HandleFetch(net, query) ==
  LET parsed == ParseGitHubFetchQuery(query)
  IN IF IsRefused(parsed) THEN ProviderFailure("invalidRequest")
     ELSE Read(net, [limit |-> 1, notes |-> parsed.notes], FetchSteps(net, parsed.notes))

ExecuteGitHub(net, request) ==
  LET limit == IF request.limit = Absent THEN DefaultLimit ELSE request.limit
  IN IF limit \notin 1..MaxLimit THEN ProviderFailure("invalidRequest")
  ELSE CASE request.action = "list" -> HandleList(net, request.query, limit)
         [] request.action = "search" -> HandleSearch(net, request.query, limit)
         [] request.action = "fetch" -> HandleFetch(net, request.query)
         [] OTHER -> ProviderFailure("unsupportedAction")

-----------------------------------------------------------------------------
(* The local provider and the registry. *)

\* Titles and ids are compared without regard to case and spacing.
ExecuteLocal(items, request) ==
  LET limited(found) == IF request.limit = Absent THEN found ELSE Taken(found, request.limit)
      matching(item) == request.query \in item.words \/ request.query = ""
      named(item) == item.id = request.query
      answer(found) == [ok |-> TRUE, items |-> found, warnings |-> {}, gets |-> <<>>]
  IN CASE request.action = "list" -> answer(limited(items))
       [] request.action = "search" -> answer(limited(SelectSeq(items, matching)))
       [] request.action = "fetch" -> answer(Taken(SelectSeq(items, named), 1))
       [] OTHER -> ProviderFailure("unsupportedAction")

\* Of two providers with one id the first is kept; world has what each reads.
ExecuteRequest(world, request) ==
  CASE request.provider \notin DOMAIN world -> ProviderFailure("unknownProvider")
    [] request.provider = "github" -> ExecuteGitHub(world.github, request)
    [] request.provider = "local" -> ExecuteLocal(world.local, request)
=============================================================================
