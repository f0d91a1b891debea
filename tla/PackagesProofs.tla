--------------------------- MODULE PackagesProofs ---------------------------
(***************************************************************************)
(* What can be proved of the computations for every input: the lifecycle   *)
(* of a release, the outcome of an invocation of the command line, what an *)
(* installer remembers, and the guards before a write.  What folds and     *)
(* filters compute of a sequence is not among it.                          *)
(***************************************************************************)
EXTENDS Packages, FiniteSetTheorems, SequenceTheorems, TLAPS

-----------------------------------------------------------------------------
(* The lifecycle of a release. *)

Stages == DOMAIN Plan!AllowedNextStates

\* Validated at a place up to this one, after which the source was never changed.
ValidatedBefore(trail, i) ==
  \E j \in DOMAIN trail : j <= i /\ trail[j] = "validation" /\ \A k \in DOMAIN trail : trail[k] = "source" => k < j

\* The stages at which the last validation still stands.
Settled == {"validation", "ready", "released", "published", "frozen"}

TrailInv(trail) ==
  /\ trail \in Seq(Stages) /\ trail # <<>>
  /\ trail[Len(trail)] \in Settled => ValidatedBefore(trail, Len(trail))
  /\ \A i \in DOMAIN trail : trail[i] = "published" => ValidatedBefore(trail, i)
  /\ \A i, j \in DOMAIN trail : trail[i] = "published" /\ trail[j] = "published" => i = j
  /\ trail[Len(trail)] \notin {"published", "frozen"} => \A i \in DOMAIN trail : trail[i] # "published"

\* A step that is allowed keeps what the trail is known to be.
LEMMA TrailGrows ==
  ASSUME NEW trail, TrailInv(trail), NEW to \in Stages, Plan!DecideTransition(Last(trail), to)
  PROVE  TrailInv(Append(trail, to))
<1> DEFINE n == Len(trail)
           longer == Append(trail, to)
<1>1. /\ trail \in Seq(Stages) /\ n \in Nat \ {0} /\ longer \in Seq(Stages) /\ longer # <<>>
      /\ Len(longer) = n + 1 /\ longer[n + 1] = to /\ \A i \in 1..n : longer[i] = trail[i]
      /\ DOMAIN trail = 1..n /\ DOMAIN longer = 1..(n + 1)
  BY DEF TrailInv
<1>2. Stages = {"idea", "source", "validation", "ready", "released", "published", "frozen"}
  BY DEF Stages, Plan!AllowedNextStates
<1>3. trail[n] \in Stages
  BY <1>1
<1>4. to \in Plan!AllowedNextStates[trail[n]]
  BY DEF Plan!DecideTransition, Last
<1>5. /\ to = "published" => trail[n] = "released"
      /\ to = "frozen" => trail[n] = "published"
      /\ trail[n] \in {"published", "frozen"} => to = "frozen"
      /\ to \in Settled => to = "validation" \/ trail[n] \in Settled
      /\ to = "source" => trail[n] \notin {"published", "frozen"}
  BY <1>2, <1>3, <1>4 DEF Plan!AllowedNextStates, Settled
<1>6. ASSUME NEW i \in 1..n, ValidatedBefore(trail, i), to # "source" PROVE ValidatedBefore(longer, i)
  BY <1>1, <1>6 DEF ValidatedBefore
<1>7. ASSUME to \in Settled PROVE ValidatedBefore(longer, n + 1)
  <2>1. to # "source"
    BY <1>7 DEF Settled
  <2>2. CASE to = "validation"
    BY <1>1, <2>2 DEF ValidatedBefore
  <2>3. CASE trail[n] \in Settled
    BY <1>1, <2>1, <2>3 DEF ValidatedBefore, TrailInv
  <2> QED BY <1>5, <1>7, <2>2, <2>3
<1>8. ASSUME NEW i \in 1..(n + 1), longer[i] = "published" PROVE ValidatedBefore(longer, i)
  <2>1. CASE i = n + 1
    BY <1>1, <1>7, <1>8, <2>1 DEF Settled
  <2>2. CASE i \in 1..n
    <3>1. trail[i] = "published" /\ ValidatedBefore(trail, i)
      BY <1>1, <1>8, <2>2 DEF TrailInv
    <3>2. to # "source"
      BY <1>1, <1>5, <2>2, <3>1 DEF TrailInv
    <3> QED BY <1>6, <2>2, <3>1, <3>2
  <2> QED BY <1>1, <2>1, <2>2
<1>9. \A i, j \in 1..(n + 1) : longer[i] = "published" /\ longer[j] = "published" => i = j
  BY <1>1, <1>5 DEF TrailInv
<1>10. to \notin {"published", "frozen"} => \A i \in 1..(n + 1) : longer[i] # "published"
  BY <1>1, <1>5 DEF TrailInv
<1> QED BY <1>1, <1>7, <1>8, <1>9, <1>10 DEF TrailInv

LEMMA PublishedOnce ==
  ASSUME case.of = "release" => TrailInv(case.trail)
  PROVE  ReleasesAreSound(case)
<1> SUFFICES ASSUME case.of = "release" PROVE ReleasesAreSound(case)
  BY DEF ReleasesAreSound
<1> DEFINE at == {i \in DOMAIN case.trail : case.trail[i] = "published"}
<1>1. TrailInv(case.trail) /\ case.of = "release"
  OBVIOUS
<1>2. \A i, j \in at : i = j
  BY <1>1 DEF TrailInv
<1>3. Cardinality(at) <= 1
  <2>1. CASE at = {}
    BY <2>1, FS_EmptySet
  <2>2. CASE at # {}
    <3>1. PICK i \in at : at = {i}
      BY <1>2, <2>2
    <3>2. Cardinality(at) = 1
      BY ONLY <3>1, FS_Singleton
    <3> QED BY <3>2
  <2> QED BY <2>1, <2>2
<1>4. ASSUME NEW i \in DOMAIN case.trail, case.trail[i] = "published"
      PROVE  \E j \in DOMAIN case.trail : /\ case.trail[j] = "validation" /\ j < i
                                          /\ \A k \in DOMAIN case.trail : case.trail[k] = "source" => k < j
  <2>1. ValidatedBefore(case.trail, i) /\ case.trail \in Seq(Stages)
    BY <1>1, <1>4 DEF TrailInv
  <2> QED BY <1>4, <2>1 DEF ValidatedBefore
<1> QED BY <1>3, <1>4 DEF ReleasesAreSound

-----------------------------------------------------------------------------
(* One invocation of the command line. *)

\* Short sequences joined: what a process did before, and what it does next.
LEMMA Joins ==
  ASSUME NEW a, NEW b, NEW c, NEW d
  PROVE  /\ <<a>> \o <<b, c, d>> = <<a, b, c, d>>
         /\ <<a, b>> \o <<c, d>> = <<a, b, c, d>>
<1> DEFINE S == {a, b, c, d}
           w == <<a, b, c, d>>
<1>1. <<a>> \in Seq(S) /\ <<a, b>> \in Seq(S) /\ <<c, d>> \in Seq(S) /\ <<b, c, d>> \in Seq(S) /\ w \in Seq(S)
  OBVIOUS
<1>2. Len(<<a>>) = 1 /\ Len(<<a, b>>) = 2 /\ Len(<<c, d>>) = 2 /\ Len(<<b, c, d>>) = 3 /\ Len(w) = 4
  OBVIOUS
<1>3. ASSUME NEW x \in Seq(S), NEW y \in Seq(S), Len(x) + Len(y) = 4,
             \A i \in 1..4 : w[i] = IF i <= Len(x) THEN x[i] ELSE y[i - Len(x)]
      PROVE  x \o y = w
  <2> HIDE DEF w, S
  <2>1. x \o y \in Seq(S) /\ Len(x \o y) = 4 /\ \A i \in 1..4 : (x \o y)[i] = w[i]
    BY <1>3
  <2> QED BY <1>1, <1>2, <2>1, SeqEqual
<1>4. \A i \in 1..4 : w[i] = IF i <= 1 THEN <<a>>[i] ELSE <<b, c, d>>[i - 1]
  <2> SUFFICES ASSUME NEW i \in 1..4 PROVE w[i] = IF i <= 1 THEN <<a>>[i] ELSE <<b, c, d>>[i - 1]
    OBVIOUS
  <2>1. i = 1 \/ i = 2 \/ i = 3 \/ i = 4
    OBVIOUS
  <2> QED BY <2>1
<1>5. \A i \in 1..4 : w[i] = IF i <= 2 THEN <<a, b>>[i] ELSE <<c, d>>[i - 2]
  <2> SUFFICES ASSUME NEW i \in 1..4 PROVE w[i] = IF i <= 2 THEN <<a, b>>[i] ELSE <<c, d>>[i - 2]
    OBVIOUS
  <2>1. i = 1 \/ i = 2 \/ i = 3 \/ i = 4
    OBVIOUS
  <2> QED BY <2>1
<1> HIDE DEF S, w
<1>6. <<a>> \o <<b, c, d>> = w
  BY <1>1, <1>2, <1>3, <1>4
<1>7. <<a, b>> \o <<c, d>> = w
  BY <1>1, <1>2, <1>3, <1>5
<1> QED BY <1>6, <1>7 DEF w


CommandOf(p) == Cli!ParseCliArgs(p.line)

\* The line asks the network for something, with a configuration that was read.
AsksNetwork(p) ==
  /\ ~Cli!IsHelpRequest(p.line) /\ ~Cli!IsRefused(CommandOf(p))
  /\ CommandOf(p).command = "github" \/ "confirmNetwork" \in DOMAIN CommandOf(p).given
  /\ "providerConfig" \in DOMAIN CommandOf(p).given => CommandOf(p).given.providerConfig \in DOMAIN p.world.files

\* What ProcessesEndHonestly says of an outcome.
Outcome(p) ==
  /\ p.out # "stdout" => p.exit \in {1, 2}
  /\ p.ok => p.out = "stdout"
  /\ Cli!IsHelpRequest(p.line) \/ Cli!IsRefused(CommandOf(p)) => p.did = <<>>
  /\ "network" \in Range(p.did) =>
       AsksNetwork(p) /\ p.did[1] = "config" /\ Last(p.did) = "network" /\ Len(p.sent) = 1
  /\ p.aborted => ~p.ok

Fields == {"of", "at", "line", "world", "aborted", "did", "sent", "exit", "out", "ok"}

ProcessShape(p) ==
  /\ DOMAIN p = Fields /\ p.of = "process" /\ p.world \in CommandWorlds /\ p.aborted \in BOOLEAN /\ p.ok \in BOOLEAN
  /\ p.aborted => Cli!ComesToGitHub(p.line)

ProcessInv(p) ==
  /\ ProcessShape(p)
  /\ \/ p.at = "start" /\ p.did = <<>> /\ p.sent = <<>> /\ ~p.ok
     \/ /\ p.at = "in flight" /\ AsksNetwork(p) /\ Len(p.sent) = 1 /\ ~p.ok
        /\ p.did = <<"config", "token", "clock", "network">>
     \/ p.at = "done" /\ Outcome(p)

\* What a step leaves of a process: all fields but the ones it sets.
Same(p, q, fields) == DOMAIN q = Fields /\ \A f \in Fields \ fields : q[f] = p[f]

LEMMA Reaches ==
  ASSUME NEW p, DOMAIN p = Fields, NEW effects
  PROVE  Same(p, Cli!Reached(p, effects), {"did"}) /\ Cli!Reached(p, effects).did = p.did \o effects
BY Zenon DEF Cli!Reached, Fields, Same

LEMMA Replies ==
  ASSUME NEW p, DOMAIN p = Fields, NEW exit
  PROVE  LET q == Cli!Reply(p, exit)
         IN Same(p, q, {"at", "exit", "out", "ok"}) /\ q.at = "done" /\ q.exit = exit /\ q.out = "stdout" /\ q.ok = (exit \in {0, 3})
BY Zenon DEF Cli!Reply, Fields, Same

LEMMA Complains ==
  ASSUME NEW p, DOMAIN p = Fields, NEW exit
  PROVE  LET q == Cli!Complain(p, exit)
         IN Same(p, q, {"at", "exit", "out"}) /\ q.at = "done" /\ q.exit = exit /\ q.out = "stderr"
BY Zenon DEF Cli!Complain, Fields, Same

LEMMA Escapes ==
  ASSUME NEW p, DOMAIN p = Fields
  PROVE  LET q == Cli!Escape(p)
         IN Same(p, q, {"at", "exit", "out"}) /\ q.at = "done" /\ q.exit = 1 /\ q.out = "uncaught"
BY Zenon DEF Cli!Escape, Fields, Same

\* Nothing at all, or these in this order, and the network is not among them.
Reachable == {<<>>, <<"config">>, <<"documents">>, <<"files">>, <<"store">>, <<"config", "token">>}

LEMMA Offline == ASSUME NEW did \in Reachable PROVE "network" \notin Range(did)
BY DEF Reachable, Range

\* How an invocation may end that did not reach the network.
LEMMA EndsOffline ==
  ASSUME NEW p, ProcessShape(p), ~p.ok, p.did \in Reachable,
         Cli!IsHelpRequest(p.line) \/ Cli!IsRefused(CommandOf(p)) => p.did = <<>>,
         NEW exit \in {0, 1, 2, 3}
  PROVE  /\ exit # 0 /\ exit # 3 => ProcessInv(Cli!Complain(p, exit))
         /\ ~p.aborted => ProcessInv(Cli!Reply(p, exit))
         /\ ProcessInv(Cli!Escape(p))
<1>1. "network" \notin Range(p.did) /\ DOMAIN p = Fields
  BY Offline DEF ProcessShape
<1>2. ASSUME exit # 0, exit # 3 PROVE ProcessInv(Cli!Complain(p, exit))
  <2> DEFINE q == Cli!Complain(p, exit)
  <2>1. Same(p, q, {"at", "exit", "out"}) /\ q.at = "done" /\ q.exit = exit /\ q.out = "stderr"
    BY <1>1, Complains
  <2> HIDE DEF q
  <2>2. ProcessInv(q)
    BY <1>1, <1>2, <2>1 DEF Same, Fields, ProcessInv, ProcessShape, Outcome, CommandOf
  <2> QED BY <2>2 DEF q
<1>3. ASSUME ~p.aborted PROVE ProcessInv(Cli!Reply(p, exit))
  <2> DEFINE q == Cli!Reply(p, exit)
  <2>1. Same(p, q, {"at", "exit", "out", "ok"}) /\ q.at = "done" /\ q.exit = exit /\ q.out = "stdout" /\ q.ok = (exit \in {0, 3})
    BY <1>1, Replies
  <2> HIDE DEF q
  <2>2. ProcessInv(q)
    BY <1>1, <1>3, <2>1 DEF Same, Fields, ProcessInv, ProcessShape, Outcome, CommandOf
  <2> QED BY <2>2 DEF q
<1>4. ProcessInv(Cli!Escape(p))
  <2> DEFINE q == Cli!Escape(p)
  <2>1. Same(p, q, {"at", "exit", "out"}) /\ q.at = "done" /\ q.exit = 1 /\ q.out = "uncaught"
    BY <1>1, Escapes
  <2> HIDE DEF q
  <2>2. ProcessInv(q)
    BY <1>1, <2>1 DEF Same, Fields, ProcessInv, ProcessShape, Outcome, CommandOf
  <2> QED BY <2>2 DEF q
<1> QED BY <1>2, <1>3, <1>4

\* A process that has reached for nothing yet, after it reached for something.
LEMMA ReachesFirst ==
  ASSUME NEW p, ProcessShape(p), p.did = <<>>, NEW effects \in Reachable
  PROVE  LET q == Cli!Reached(p, effects)
         IN ProcessShape(q) /\ Same(p, q, {"did"}) /\ q.did = effects
<1> DEFINE q == Cli!Reached(p, effects)
<1>1. Same(p, q, {"did"}) /\ q.did = p.did \o effects
  BY Reaches DEF ProcessShape
<1>2. p.did \o effects = effects
  BY DEF Reachable
<1> HIDE DEF q
<1>3. ProcessShape(q) /\ Same(p, q, {"did"}) /\ q.did = effects
  BY <1>1, <1>2 DEF ProcessShape, Same, Fields
<1> QED BY <1>3 DEF q

\* A configuration that was named and read is there.
LEMMA NamedConfigIsThere ==
  ASSUME NEW given, NEW world, "providerConfig" \in DOMAIN given,
         ~Cli!IsRefused(Cli!LoadProviderConfig(given, world))
  PROVE  given.providerConfig \in DOMAIN world.files
<1>1. Cli!ResolveProviderConfigLocation(given, world) = Cli!Location("explicit", given.providerConfig, TRUE)
  BY DEF Cli!ResolveProviderConfigLocation
<1>2. Cli!IsRefused(Cli!Refused)
  BY DEF Cli!IsRefused, Cli!Refused
<1> DEFINE location == Cli!Location("explicit", given.providerConfig, TRUE)
<1>3. location.source = "explicit" /\ location.path = given.providerConfig /\ location.required = TRUE
  BY DEF Cli!Location
<1> HIDE DEF location
<1>4. given.providerConfig \notin DOMAIN world.files => Cli!ConfigAt(location, world) = Cli!Refused
  BY <1>3 DEF Cli!ConfigAt
<1>5. Cli!ConfigAt(location, world) # Cli!Refused
  BY <1>1, <1>2 DEF Cli!LoadProviderConfig, location
<1> QED BY <1>4, <1>5

\* A line that begins with "github" is refused or a command of that name.
LEMMA GitHubLines ==
  ASSUME NEW p, Cli!ComesToGitHub(p.line), ~Cli!IsRefused(CommandOf(p))
  PROVE  CommandOf(p).command = "github"
<1>1. CommandOf(p) = Cli!ParseGitHubCommand(Tail(p.line))
  BY Zenon DEF CommandOf, Cli!ParseCliArgs, Cli!ComesToGitHub
<1>2. Cli!IsRefused(Cli!Refused)
  BY DEF Cli!IsRefused, Cli!Refused
<1> QED BY <1>1, <1>2 DEF Cli!ParseGitHubCommand, Cli!GitHubCommand

LEMMA Sends ==
  ASSUME NEW p, DOMAIN p = Fields, NEW what
  PROVE  LET q == [p EXCEPT !.at = "in flight", !.sent = <<what>>]
         IN Same(p, q, {"at", "sent"}) /\ q.at = "in flight" /\ q.sent = <<what>>
BY Zenon DEF Fields, Same

\* A process that stands before its command.
Standing(p) ==
  /\ ProcessShape(p) /\ p.at = "start" /\ p.did = <<>> /\ p.sent = <<>> /\ ~p.ok
  /\ ~Cli!IsHelpRequest(p.line) /\ ~Cli!IsRefused(CommandOf(p))

\* A request on its way, and what was reached for before it.
LEMMA InFlight ==
  ASSUME NEW p, Standing(p), AsksNetwork(p), NEW r, Same(p, r, {"did"}),
         r.did = <<"config", "token", "clock", "network">>, NEW what
  PROVE  ProcessInv([r EXCEPT !.at = "in flight", !.sent = <<what>>])
<1> DEFINE q == [r EXCEPT !.at = "in flight", !.sent = <<what>>]
<1>1. DOMAIN r = Fields
  BY DEF Same
<1>2. Same(r, q, {"at", "sent"}) /\ q.at = "in flight" /\ q.sent = <<what>>
  BY ONLY <1>1, Sends
<1>3. Len(<<what>>) = 1
  OBVIOUS
<1> HIDE DEF q
<1>4. Same(p, q, {"at", "did", "sent"}) /\ q.did = r.did
  BY <1>2 DEF Same, Fields
<1>5. ProcessShape(q) /\ AsksNetwork(q) /\ ~q.ok
  BY <1>4 DEF Standing, Same, Fields, ProcessShape, AsksNetwork, CommandOf
<1>6. ProcessInv(q)
  BY <1>2, <1>3, <1>4, <1>5 DEF ProcessInv
<1> QED BY <1>6 DEF q

\* A process that stands before its command may end having reached for no more than this.
LEMMA StandingEnds ==
  ASSUME NEW p, Standing(p), NEW effects \in Reachable, NEW exit \in {0, 1, 2, 3}
  PROVE  LET q == Cli!Reached(p, effects)
         IN /\ ProcessShape(q) /\ Same(p, q, {"did"}) /\ q.did = effects
            /\ exit # 0 /\ exit # 3 => ProcessInv(Cli!Complain(q, exit))
            /\ ~p.aborted => ProcessInv(Cli!Reply(q, exit))
            /\ ProcessInv(Cli!Escape(q))
<1> DEFINE q == Cli!Reached(p, effects)
<1>1. ProcessShape(q) /\ Same(p, q, {"did"}) /\ q.did = effects
  BY ReachesFirst DEF Standing
<1> HIDE DEF q
<1>2. q.ok = p.ok /\ q.line = p.line /\ q.aborted = p.aborted
  BY <1>1 DEF Same, Fields
<1>3. ~q.ok /\ ~Cli!IsHelpRequest(q.line) /\ ~Cli!IsRefused(CommandOf(q))
  BY <1>2 DEF Standing, CommandOf
<1>4. /\ exit # 0 /\ exit # 3 => ProcessInv(Cli!Complain(q, exit))
      /\ ~q.aborted => ProcessInv(Cli!Reply(q, exit))
      /\ ProcessInv(Cli!Escape(q))
  BY <1>1, <1>3, EndsOffline
<1> QED BY <1>1, <1>2, <1>4 DEF q

LEMMA GitHubWorkflow ==
  ASSUME NEW p, Standing(p), CommandOf(p).command = "github"
  PROVE  ProcessInv(Cli!RunGitHubProjectWorkflow(p, CommandOf(p)))
<1> DEFINE command == CommandOf(p)
           config == Cli!LoadProviderConfig(command.given, p.world)
           offline == Cli!Reached(p, <<"config">>)
           sending == Cli!Reached(offline, <<"token", "clock", "network">>)
<1>1. ProcessShape(offline) /\ Same(p, offline, {"did"}) /\ offline.did = <<"config">> /\ ProcessInv(Cli!Complain(offline, 2))
  BY StandingEnds DEF Reachable
<1>2. <<"config">> \o <<"token", "clock", "network">> = <<"config", "token", "clock", "network">>
  BY Joins
<1>3. Same(offline, sending, {"did"}) /\ sending.did = <<"config", "token", "clock", "network">>
  <2> HIDE DEF offline
  <2> QED BY <1>1, <1>2, Reaches DEF ProcessShape
<1>4. Same(p, sending, {"did"})
  <2> HIDE DEF offline, sending
  <2> QED BY <1>1, <1>3 DEF Same, Fields
<1>5. ASSUME ~Cli!IsRefused(config), NEW what
      PROVE  ProcessInv([sending EXCEPT !.at = "in flight", !.sent = <<what>>])
  <2>1. AsksNetwork(p)
    BY <1>5, NamedConfigIsThere DEF Standing, AsksNetwork
  <2> HIDE DEF sending
  <2> QED BY <1>3, <1>4, <2>1, InFlight
<1> HIDE DEF config, offline, sending
<1> QED BY <1>1, <1>5 DEF Cli!RunGitHubProjectWorkflow, Cli!SendGitHubRequest, config, offline, sending
LEMMA LastOfFour == ASSUME NEW a, NEW b, NEW c, NEW d PROVE <<a, b, c, d>>[1] = a /\ Last(<<a, b, c, d>>) = d
<1> DEFINE w == <<a, b, c, d>>
<1>1. Len(w) = 4 /\ w[1] = a /\ w[4] = d
  OBVIOUS
<1> HIDE DEF w
<1>2. w[1] = a /\ Last(w) = d
  BY <1>1 DEF Last
<1> QED BY <1>2 DEF w

\* A workflow whose request is answered.
LEMMA GitHubAnswer ==
  ASSUME NEW p, ProcessInv(p), p.at = "in flight", p.world.runtime \in {"ok", "throws", "not ok", "no output"}
  PROVE  ProcessInv(Cli!FinishGitHub(p))
<1>1. /\ ProcessShape(p) /\ DOMAIN p = Fields /\ AsksNetwork(p) /\ Len(p.sent) = 1 /\ ~p.ok
      /\ p.did = <<"config", "token", "clock", "network">>
  BY DEF ProcessInv, ProcessShape, Outcome
<1>2. p.did[1] = "config" /\ Last(p.did) = "network"
  <2>1. p.did = <<"config", "token", "clock", "network">>
    BY <1>1
  <2>2. Len(p.did) = 4 /\ p.did[1] = "config" /\ p.did[4] = "network"
    BY ONLY <2>1
  <2> QED BY ONLY <2>2 DEF Last
<1>3. ASSUME NEW exit \in {1, 2} PROVE ProcessInv(Cli!Complain(p, exit))
  <2> DEFINE q == Cli!Complain(p, exit)
  <2>1. Same(p, q, {"at", "exit", "out"}) /\ q.at = "done" /\ q.exit = exit /\ q.out = "stderr"
    <3>1. DOMAIN p = Fields
      BY <1>1
    <3> QED BY ONLY <3>1, Complains
  <2> HIDE DEF q
  <2>2. /\ DOMAIN q = Fields /\ q.of = p.of /\ q.line = p.line /\ q.world = p.world
        /\ q.aborted = p.aborted /\ q.did = p.did /\ q.sent = p.sent /\ q.ok = p.ok
    BY ONLY <2>1 DEF Same, Fields
  <2>3. ProcessShape(q)
    BY ONLY <1>1, <2>1, <2>2 DEF ProcessShape
  <2>4. AsksNetwork(q)
    BY ONLY <1>1, <2>2 DEF AsksNetwork, CommandOf
  <2>5. Outcome(q)
    BY ONLY <1>1, <1>2, <1>3, <2>1, <2>2, <2>4 DEF Outcome, AsksNetwork
  <2>6. ProcessInv(q)
    BY ONLY <2>1, <2>3, <2>5 DEF ProcessInv
  <2> QED BY <2>6 DEF q
<1>4. ASSUME ~p.aborted PROVE ProcessInv(Cli!Reply(p, 0))
  <2> DEFINE q == Cli!Reply(p, 0)
  <2>1. Same(p, q, {"at", "exit", "out", "ok"}) /\ q.at = "done" /\ q.exit = 0 /\ q.out = "stdout" /\ q.ok = (0 \in {0, 3})
    <3>1. DOMAIN p = Fields
      BY <1>1
    <3> QED BY ONLY <3>1, Replies
  <2> HIDE DEF q
  <2>2. /\ DOMAIN q = Fields /\ q.of = p.of /\ q.line = p.line /\ q.world = p.world
        /\ q.aborted = p.aborted /\ q.did = p.did /\ q.sent = p.sent
    BY ONLY <2>1 DEF Same, Fields
  <2>3. ProcessShape(q)
    BY ONLY <1>1, <1>4, <2>1, <2>2 DEF ProcessShape
  <2>4. AsksNetwork(q)
    BY ONLY <1>1, <2>2 DEF AsksNetwork, CommandOf
  <2>5. Outcome(q)
    BY ONLY <1>1, <1>2, <1>4, <2>1, <2>2, <2>4 DEF Outcome, AsksNetwork
  <2>6. ProcessInv(q)
    BY ONLY <2>1, <2>3, <2>5 DEF ProcessInv
  <2> QED BY <2>6 DEF q
<1>5. \/ Cli!FinishGitHub(p) = Cli!Complain(p, 1)
      \/ Cli!FinishGitHub(p) = Cli!Complain(p, 2)
      \/ ~p.aborted /\ Cli!FinishGitHub(p) = Cli!Reply(p, 0)
  BY Zenon DEF Cli!FinishGitHub
<1> QED BY <1>3, <1>4, <1>5

\* A diagnostic of the network replies and has sent its request.
LEMMA NetworkReplies ==
  ASSUME NEW p, ProcessShape(p), ~p.aborted, AsksNetwork(p), p.did = <<"config", "token">>, NEW exit, NEW what
  PROVE  ProcessInv([Cli!Reply(Cli!Reached(p, <<"token", "network">>), exit) EXCEPT !.sent = <<what>>])
<1> DEFINE reached == Cli!Reached(p, <<"token", "network">>)
           replied == Cli!Reply(reached, exit)
           q == [replied EXCEPT !.sent = <<what>>]
<1>1. Same(p, reached, {"did"}) /\ reached.did = <<"config", "token", "token", "network">>
  <2>1. DOMAIN p = Fields
    BY DEF ProcessShape
  <2>2. <<"config", "token">> \o <<"token", "network">> = <<"config", "token", "token", "network">>
    BY Joins
  <2>3. Same(p, reached, {"did"}) /\ reached.did = p.did \o <<"token", "network">>
    BY ONLY <2>1, Reaches
  <2> QED BY <2>2, <2>3
<1>2. /\ Same(reached, replied, {"at", "exit", "out", "ok"}) /\ replied.at = "done" /\ replied.exit = exit
      /\ replied.out = "stdout" /\ replied.ok = (exit \in {0, 3})
  BY <1>1, Replies DEF Same
<1>3. Same(replied, q, {"sent"}) /\ q.sent = <<what>>
  <2> HIDE DEF replied
  <2>1. DOMAIN replied = Fields
    BY <1>2 DEF Same
  <2> QED BY ONLY <2>1, Zenon DEF Fields, Same, q
<1>4. Len(<<what>>) = 1
  OBVIOUS
<1> HIDE DEF q, replied, reached
<1>5. q.did[1] = "config" /\ Last(q.did) = "network" /\ q.did = reached.did
  <2>1. q.did = reached.did
    BY <1>2, <1>3 DEF Same, Fields
  <2> QED BY <1>1, <2>1, LastOfFour
<1>6. Same(p, q, {"at", "did", "sent", "exit", "out", "ok"})
  BY <1>1, <1>2, <1>3 DEF Same, Fields
<1>7. q.at = "done" /\ q.out = "stdout" /\ q.ok \in BOOLEAN /\ Len(q.sent) = 1
  <2>1. q.at = replied.at /\ q.out = replied.out /\ q.ok = replied.ok
    BY <1>3 DEF Same, Fields
  <2>2. replied.ok \in BOOLEAN
    BY <1>2
  <2> QED BY <1>2, <1>3, <1>4, <2>1, <2>2
<1>8. AsksNetwork(q) /\ ~q.aborted /\ ~Cli!IsHelpRequest(q.line) /\ ~Cli!IsRefused(CommandOf(q))
  BY <1>6 DEF Same, Fields, AsksNetwork, CommandOf
<1>9. ProcessShape(q)
  BY <1>6, <1>7, <1>8 DEF Same, Fields, ProcessShape
<1>10. ProcessInv(q)
  BY <1>5, <1>7, <1>8, <1>9 DEF ProcessInv, Outcome
<1> QED BY <1>10 DEF q, replied, reached

\* How a process may end that stands before its command and stays offline.
LEMMA StaysOffline ==
  ASSUME NEW p, ProcessShape(p), ~p.ok, p.did = <<>>
  PROVE  /\ ProcessInv(Cli!Complain(p, 1)) /\ ProcessInv(Cli!Complain(p, 2)) /\ ProcessInv(Cli!Escape(p))
         /\ ~p.aborted => \A exit \in {0, 1, 2, 3} : ProcessInv(Cli!Reply(p, exit))
<1>1. p.did \in Reachable
  BY DEF Reachable
<1>2. ASSUME NEW exit \in {0, 1, 2, 3}
      PROVE  /\ exit # 0 /\ exit # 3 => ProcessInv(Cli!Complain(p, exit))
             /\ ~p.aborted => ProcessInv(Cli!Reply(p, exit))
             /\ ProcessInv(Cli!Escape(p))
  BY <1>1, EndsOffline
<1> QED BY <1>2

LEMMA EndsHavingReached ==
  ASSUME NEW p, Standing(p), NEW effects \in Reachable
  PROVE  LET q == Cli!Reached(p, effects)
         IN /\ ProcessInv(Cli!Complain(q, 1)) /\ ProcessInv(Cli!Complain(q, 2)) /\ ProcessInv(Cli!Escape(q))
            /\ ~p.aborted => \A exit \in {0, 1, 2, 3} : ProcessInv(Cli!Reply(q, exit))
<1> DEFINE q == Cli!Reached(p, effects)
<1>1. ASSUME NEW exit \in {0, 1, 2, 3}
      PROVE  /\ exit # 0 /\ exit # 3 => ProcessInv(Cli!Complain(q, exit))
             /\ ~p.aborted => ProcessInv(Cli!Reply(q, exit))
             /\ ProcessInv(Cli!Escape(q))
  BY StandingEnds
<1> HIDE DEF q
<1>2. /\ ProcessInv(Cli!Complain(q, 1)) /\ ProcessInv(Cli!Complain(q, 2)) /\ ProcessInv(Cli!Escape(q))
      /\ ~p.aborted => \A exit \in {0, 1, 2, 3} : ProcessInv(Cli!Reply(q, exit))
  BY <1>1
<1> QED BY <1>2 DEF q

\* The commands that never come near the network.
LEMMA OfflineCommands ==
  ASSUME NEW p, Standing(p), ~p.aborted, NEW command
  PROVE  /\ ProcessInv(Cli!RunLocalProjectWorkflow(p, command)) /\ ProcessInv(Cli!RunMemoryCommand(p, command))
         /\ ProcessInv(Cli!RunCli(p, command)) /\ ProcessInv(Cli!GetProviderStatus(p, command))
<1> DEFINE Ended(q) == /\ ProcessInv(Cli!Complain(q, 1)) /\ ProcessInv(Cli!Complain(q, 2)) /\ ProcessInv(Cli!Escape(q))
                       /\ ProcessInv(Cli!Reply(q, 0)) /\ ProcessInv(Cli!Reply(q, 1))
                       /\ ProcessInv(Cli!Reply(q, 2)) /\ ProcessInv(Cli!Reply(q, 3))
<1>1. Ended(p)
  BY StaysOffline DEF Standing
<1>2. ASSUME NEW effects \in Reachable PROVE Ended(Cli!Reached(p, effects))
  BY <1>2, EndsHavingReached
<1>3. /\ Ended(Cli!Reached(p, <<"documents">>)) /\ Ended(Cli!Reached(p, <<"store">>))
      /\ Ended(Cli!Reached(p, <<"files">>)) /\ Ended(Cli!Reached(p, <<"config", "token">>))
  <2> HIDE DEF Ended
  <2> QED BY <1>2 DEF Reachable
<1>4. /\ p.world.runtime \in {"throws", "not ok", "no output", "ok"}
      /\ p.world.memory \in {"ok", "nothing to compare", "fails", "throws"}
  BY CommandWorldsAssumption DEF Standing, ProcessShape
<1>5. ProcessInv(Cli!RunLocalProjectWorkflow(p, command))
  BY <1>1, <1>3, <1>4, Zenon DEF Cli!RunLocalProjectWorkflow
<1>6. ProcessInv(Cli!RunMemoryCommand(p, command))
  BY <1>3, <1>4, Zenon DEF Cli!RunMemoryCommand
<1>7. ProcessInv(Cli!RunCli(p, command))
  BY <1>1, <1>3, <1>4, Zenon DEF Cli!RunCli
<1>8. ProcessInv(Cli!GetProviderStatus(p, command))
  BY <1>3, Zenon DEF Cli!GetProviderStatus
<1> QED BY <1>5, <1>6, <1>7, <1>8

LEMMA Doctor ==
  ASSUME NEW p, Standing(p), ~p.aborted
  PROVE  ProcessInv(Cli!RunProviderDoctor(p, CommandOf(p)))
<1> DEFINE command == CommandOf(p)
           config == Cli!LoadProviderConfig(command.given, p.world)
           offline == Cli!Reached(p, <<"config", "token">>)
<1>1. \A exit \in {0, 1, 2, 3} : ProcessInv(Cli!Reply(offline, exit))
  BY EndsHavingReached DEF Reachable
<1>2. ASSUME NEW settings, ~Cli!IsRefused(config), "confirmNetwork" \in DOMAIN command.given
      PROVE  ProcessInv(Cli!NetworkDiagnostic(offline, settings))
  <2>1. AsksNetwork(p)
    BY <1>2, NamedConfigIsThere DEF Standing, AsksNetwork
  <2>2. ProcessShape(offline) /\ Same(p, offline, {"did"}) /\ offline.did = <<"config", "token">>
    BY ReachesFirst DEF Standing, Reachable
  <2> HIDE DEF offline
  <2>3. ~offline.aborted /\ AsksNetwork(offline)
    BY <2>1, <2>2 DEF Same, Fields, AsksNetwork, CommandOf
  <2>4. ASSUME NEW exit, NEW what
        PROVE  ProcessInv([Cli!Reply(Cli!Reached(offline, <<"token", "network">>), exit) EXCEPT !.sent = <<what>>])
    BY <2>2, <2>3, NetworkReplies
  <2> QED BY <2>4, Zenon DEF Cli!NetworkDiagnostic
<1>3. ASSUME NEW settings PROVE ProcessInv(Cli!Diagnose(p, command, config, settings))
  <2> HIDE DEF command, config
  <2> QED BY <1>1, <1>2, Zenon DEF Cli!Diagnose
<1> HIDE DEF command, config
<1>4. ProcessInv(Cli!RunProviderDoctor(p, command))
  BY <1>3, Zenon DEF Cli!RunProviderDoctor, config
<1> QED BY <1>4 DEF command

\* A process that starts ends, or waits for the answer of the network.
LEMMA ProcessRuns ==
  ASSUME NEW p, ProcessInv(p), p.at = "start"
  PROVE  ProcessInv(Cli!RunLocalCliProcess(p))
<1> DEFINE command == CommandOf(p)
<1>1. ProcessShape(p) /\ p.did = <<>> /\ p.sent = <<>> /\ ~p.ok
  BY DEF ProcessInv
<1>2. /\ ProcessInv(Cli!Complain(p, 2))
      /\ ~p.aborted => ProcessInv(Cli!Reply(p, 0))
  BY <1>1, StaysOffline
<1>3. ASSUME p.aborted
      PROVE  /\ ~Cli!IsHelpRequest(p.line) /\ p.line # <<>> /\ p.line[1].text = "github"
             /\ ~Cli!IsRefused(command) => command.command = "github"
  BY <1>1, <1>3, GitHubLines DEF ProcessShape, Cli!ComesToGitHub
<1>4. CASE Cli!IsHelpRequest(p.line)
  BY <1>2, <1>3, <1>4, Zenon DEF Cli!RunLocalCliProcess, Cli!RunParsed
<1>5. CASE ~Cli!IsHelpRequest(p.line) /\ p.line # <<>> /\ p.line[1].text = "mcp-config"
  <2>1. ~p.aborted
    BY <1>3, <1>5
  <2>2. ProcessInv(Cli!RunMcpConfigCommand(p))
    BY <1>2, <2>1, Zenon DEF Cli!RunMcpConfigCommand
  <2> QED BY <1>5, <2>2, Zenon DEF Cli!RunLocalCliProcess, Cli!RunParsed
<1>6. CASE /\ ~Cli!IsHelpRequest(p.line) /\ ~(p.line # <<>> /\ p.line[1].text = "mcp-config")
           /\ Cli!IsRefused(command)
  BY <1>2, <1>6, Zenon DEF Cli!RunLocalCliProcess, Cli!RunParsed, CommandOf
<1>7. CASE /\ ~Cli!IsHelpRequest(p.line) /\ ~(p.line # <<>> /\ p.line[1].text = "mcp-config")
           /\ ~Cli!IsRefused(command)
  <2>1. Standing(p)
    BY <1>1, <1>7, p.at = "start" DEF Standing
  <2>2. command.command = "github" => ProcessInv(Cli!RunGitHubProjectWorkflow(p, command))
    BY <2>1, GitHubWorkflow
  <2>3. ASSUME command.command # "github"
        PROVE  /\ ProcessInv(Cli!RunLocalProjectWorkflow(p, command)) /\ ProcessInv(Cli!RunMemoryCommand(p, command))
               /\ ProcessInv(Cli!RunCli(p, command)) /\ ProcessInv(Cli!GetProviderStatus(p, command))
               /\ ProcessInv(Cli!RunProviderDoctor(p, command))
    BY <1>3, <1>7, <2>1, <2>3, OfflineCommands, Doctor
  <2>4. Cli!RunLocalCliProcess(p) = Cli!RunParsed(p, command)
    BY Zenon DEF Cli!RunLocalCliProcess, CommandOf
  <2> HIDE DEF command
  <2>5. command.command = "github" => Cli!RunParsed(p, command) = Cli!RunGitHubProjectWorkflow(p, command)
    <3>1. "github" \notin Cli!Operations
      BY DEF Cli!Operations
    <3> QED BY <1>7, <3>1, Zenon DEF Cli!RunParsed, command
  <2>6. command.command # "github" =>
          \/ Cli!RunParsed(p, command) = Cli!RunLocalProjectWorkflow(p, command)
          \/ Cli!RunParsed(p, command) = Cli!RunMemoryCommand(p, command)
          \/ Cli!RunParsed(p, command) = Cli!RunCli(p, command)
          \/ Cli!RunParsed(p, command) = Cli!GetProviderStatus(p, command)
          \/ Cli!RunParsed(p, command) = Cli!RunProviderDoctor(p, command)
    BY <1>7, SMT DEF Cli!RunParsed, command
  <2> QED BY <2>2, <2>3, <2>4, <2>5, <2>6
<1> QED BY <1>4, <1>5, <1>6, <1>7

LEMMA ProcessGoesOn ==
  ASSUME NEW p, ProcessInv(p), NEW q \in Cli!ProcessSteps(p)
  PROVE  ProcessInv(q) /\ q.of = "process"
<1>1. /\ p.at \in {"start", "in flight", "done"} /\ ProcessShape(p)
      /\ p.world.runtime \in {"ok", "throws", "not ok", "no output"}
  BY CommandWorldsAssumption DEF ProcessInv, ProcessShape
<1>2. \/ p.at = "start" /\ q = Cli!RunLocalCliProcess(p)
      \/ p.at = "in flight" /\ q = Cli!FinishGitHub(p)
      \/ p.at # "done" /\ q \in Cli!Abort(p)
  BY <1>1, Zenon DEF Cli!ProcessSteps
<1>3. ASSUME q \in Cli!Abort(p), p.at # "done" PROVE ProcessInv(q)
  <2>1. q = [p EXCEPT !.aborted = TRUE] /\ Cli!ComesToGitHub(p.line)
    BY <1>3 DEF Cli!Abort
  <2>2. DOMAIN p = Fields
    BY <1>1 DEF ProcessShape
  <2>3. Same(p, q, {"aborted"}) /\ q.aborted = TRUE
    BY ONLY <2>1, <2>2, Zenon DEF Same, Fields
  <2>4. ProcessShape(q)
    BY <1>1, <2>1, <2>3 DEF ProcessShape, Same, Fields
  <2>5. q.at = p.at /\ q.did = p.did /\ q.sent = p.sent /\ q.ok = p.ok /\ q.line = p.line /\ q.world = p.world
    BY <2>3 DEF Same, Fields
  <2>6. AsksNetwork(p) => AsksNetwork(q)
    BY <2>5 DEF AsksNetwork, CommandOf
  <2> QED BY <1>3, <2>4, <2>5, <2>6 DEF ProcessInv
<1>4. ProcessInv(q)
  BY <1>1, <1>2, <1>3, ProcessRuns, GitHubAnswer
<1> QED BY <1>4 DEF ProcessInv, ProcessShape
-----------------------------------------------------------------------------
(* What an installer remembers. *)

Parts == {"installed", "updates", "rollbacks"}
PlanIds == {u.plan.id : u \in PackageUpdates}

StateInv(s) ==
  /\ DOMAIN s = Parts /\ s.updates \in Seq(PlanIds) /\ s.rollbacks \in Seq(PackageRollbacks)
  /\ \A i, j \in DOMAIN s.rollbacks : s.rollbacks[i].id = s.rollbacks[j].id => i = j
  /\ \A m, n \in s.installed : m = n
  /\ \A m \in s.installed : "version" \in DOMAIN m

\* What a call may make of the state s.
Remembers(call, asked, ok, s, t) ==
  /\ StateInv(s) /\ StateInv(t) /\ IsPrefix(s.rollbacks, t.rollbacks)
  /\ \/ t = s /\ ~(call = "update" /\ ok)
     \/ ok /\ call \in {"install", "execute"} /\ t.updates = s.updates
     \/ ok /\ call \in {"rollback", "back up"} /\ t.updates = s.updates /\ t.installed = s.installed
     \/ /\ ok /\ call = "update" /\ t.updates # s.updates /\ IsPrefix(s.updates, t.updates)
        /\ {m.version : m \in t.installed} = {asked.plan.to} /\ asked.plan.to # 0 /\ asked.plan.paths > 0
        /\ \A m \in s.installed, n \in t.installed : n = [m EXCEPT !.version = asked.plan.to]

LEMMA AppendExtends ==
  ASSUME NEW S, NEW s \in Seq(S), NEW x \in S, NEW t, t = Append(s, x)
  PROVE  /\ IsPrefix(s, s) /\ IsPrefix(s, t) /\ t # s /\ t \in Seq(S) /\ Len(t) = Len(s) + 1
         /\ \A i \in DOMAIN s : i \in DOMAIN t /\ t[i] = s[i]
         /\ t[Len(s) + 1] = x
         /\ \A i \in DOMAIN t : i \in DOMAIN s \/ i = Len(s) + 1
<1>1. /\ t \in Seq(S) /\ Len(t) = Len(s) + 1 /\ Len(s) \in Nat
      /\ \A i \in 1..Len(s) : t[i] = s[i]
      /\ t[Len(s) + 1] = x
  OBVIOUS
<1>2. SubSeq(s, 1, Len(s)) = s
  BY SubSeqFull
<1>3. SubSeq(t, 1, Len(s)) = s
  <2>1. /\ SubSeq(t, 1, Len(s)) \in Seq(S) /\ Len(SubSeq(t, 1, Len(s))) = Len(s)
        /\ \A i \in 1..Len(s) : SubSeq(t, 1, Len(s))[i] = t[i]
    BY ONLY <1>1, SubSeqProperties
  <2> QED BY ONLY <1>1, <2>1, s \in Seq(S), SeqEqual
<1>4. IsPrefix(s, s) /\ IsPrefix(s, t) /\ t # s
  BY ONLY <1>1, <1>2, <1>3 DEF IsPrefix
<1>5. \A i \in DOMAIN s : i \in DOMAIN t /\ t[i] = s[i]
  BY <1>1
<1>6. \A i \in DOMAIN t : i \in DOMAIN s \/ i = Len(s) + 1
  BY <1>1
<1> QED BY ONLY <1>1, <1>4, <1>5, <1>6

LEMMA PartsOfStates ==
  ASSUME NEW s, DOMAIN s = Parts, NEW m, NEW x
  PROVE  /\ LET t == [s EXCEPT !.installed = {m}]
            IN DOMAIN t = Parts /\ t.installed = {m} /\ t.updates = s.updates /\ t.rollbacks = s.rollbacks
         /\ LET t == [s EXCEPT !.installed = {m}, !.updates = Append(@, x)]
            IN DOMAIN t = Parts /\ t.installed = {m} /\ t.updates = Append(s.updates, x) /\ t.rollbacks = s.rollbacks
         /\ LET t == [s EXCEPT !.rollbacks = Append(@, x)]
            IN DOMAIN t = Parts /\ t.installed = s.installed /\ t.updates = s.updates /\ t.rollbacks = Append(s.rollbacks, x)
BY Zenon DEF Parts

LEMMA Unchanged ==
  ASSUME NEW s, StateInv(s), NEW call, NEW asked, NEW ok, ~(call = "update" /\ ok)
  PROVE  Remembers(call, asked, ok, s, s)
<1>1. IsPrefix(s.rollbacks, s.rollbacks)
  BY SubSeqFull DEF StateInv, IsPrefix
<1> QED BY <1>1 DEF Remembers

\* An installation keeps the updates and the rollbacks.
LEMMA InstallAnswers ==
  ASSUME NEW s, StateInv(s), NEW input, NEW call \in {"install", "execute"}, NEW asked
  PROVE  LET a == Pkg!Install(s, input) IN Remembers(call, asked, a.ok, s, a.state) /\ (~a.ok => a.state = s)
<1> DEFINE manifest == [version |-> input.manifest.version, installedAt |-> input.installedAt, root |-> input.root]
           t == [s EXCEPT !.installed = {manifest}]
           a == Pkg!Install(s, input)
<1>1. "version" \in DOMAIN manifest
  OBVIOUS
<1>2. a = [ok |-> TRUE, state |-> t] \/ \E code, reasons : a = Pkg!Failed(s, code, reasons)
  BY Zenon DEF Pkg!Install
<1> HIDE DEF a, manifest
<1>3. DOMAIN t = Parts /\ t.installed = {manifest} /\ t.updates = s.updates /\ t.rollbacks = s.rollbacks
  <2>1. DOMAIN s = Parts
    BY DEF StateInv
  <2> QED BY ONLY <2>1, PartsOfStates
<1> HIDE DEF t
<1>4. StateInv(t) /\ IsPrefix(s.rollbacks, s.rollbacks)
  BY <1>1, <1>3, SubSeqFull DEF StateInv, IsPrefix
<1>5. Remembers(call, asked, TRUE, s, t)
  BY <1>3, <1>4 DEF Remembers
<1>6. Remembers(call, asked, FALSE, s, s)
  BY Unchanged
<1>7. Remembers(call, asked, a.ok, s, a.state) /\ (~a.ok => a.state = s)
  <2>1. CASE a = [ok |-> TRUE, state |-> t]
    BY <1>5, <2>1, Zenon
  <2>2. ASSUME NEW code, NEW reasons, a = Pkg!Failed(s, code, reasons)
        PROVE  Remembers(call, asked, a.ok, s, a.state) /\ (~a.ok => a.state = s)
    BY <1>6, <2>2, Zenon DEF Pkg!Failed
  <2> QED BY <1>2, <2>1, <2>2
<1> QED BY <1>7 DEF a

\* An update that is let through names a version and paths to go back to.
LEMMA UpdateIsNamed ==
  ASSUME NEW u \in PackageUpdates, Pkg!Kernel!CheckUpdatePlan(Pkg!KernelPlan(u.plan)).status # "blocked"
  PROVE  u.plan.to # 0 /\ u.plan.paths > 0 /\ u.plan.paths \in Nat
<1> DEFINE plan == Pkg!KernelPlan(u.plan)
<1>1. DOMAIN u.plan = {"id", "from", "to", "steps", "rollback", "paths"} /\ u.plan.paths \in Nat
  BY PackageUpdatesAssumption
<1>2. plan.paths = u.plan.paths /\ (u.plan.to = 0 => plan.to = "")
  BY <1>1, Zenon DEF Pkg!KernelPlan
<1> HIDE DEF plan
<1>3. Pkg!Kernel!UpdateReasons(plan) = {}
  <2>1. Pkg!Kernel!CheckUpdatePlan(plan).status # "blocked"
    BY DEF plan
  <2> QED BY <2>1, Zenon DEF Pkg!Kernel!CheckUpdatePlan
<1>4. plan.to # "" /\ plan.paths # 0
  <2>1. plan.to # ""
    BY <1>3, Zenon DEF Pkg!Kernel!UpdateReasons
  <2>2. plan.paths # 0
    BY <1>3, Zenon DEF Pkg!Kernel!UpdateReasons
  <2> QED BY <2>1, <2>2
<1>5. u.plan.to # 0
  BY ONLY <1>2, <1>4, Zenon
<1>6. u.plan.paths > 0
  <2>1. u.plan.paths # 0
    BY ONLY <1>2, <1>4, Zenon
  <2> QED BY ONLY <1>1, <2>1
<1> QED BY <1>1, <1>5, <1>6, Zenon

LEMMA UpdateAnswers ==
  ASSUME NEW s, StateInv(s), NEW u \in PackageUpdates
  PROVE  LET a == Pkg!ApplyUpdate(s, u.plan, u.current)
         IN Remembers("update", [plan |-> u.plan], a.ok, s, a.state) /\ (~a.ok => a.state = s)
<1> DEFINE base == IF s.installed = {} THEN u.current ELSE CHOOSE m \in s.installed : TRUE
           next == [base EXCEPT !.version = u.plan.to]
           t == [s EXCEPT !.installed = {next}, !.updates = Append(@, u.plan.id)]
           a == Pkg!ApplyUpdate(s, u.plan, u.current)
           asked == [plan |-> u.plan]
<1>1. \/ /\ a = [ok |-> TRUE, state |-> t]
         /\ Pkg!Kernel!CheckUpdatePlan(Pkg!KernelPlan(u.plan)).status # "blocked"
      \/ \E code, reasons : a = Pkg!Failed(s, code, reasons)
  BY Zenon DEF Pkg!ApplyUpdate
<1>2. "version" \in DOMAIN base /\ \A m \in s.installed : m = base
  BY PackageUpdatesAssumption DEF StateInv
<1>3. asked.plan = u.plan
  OBVIOUS
<1> HIDE DEF a, base, asked
<1>4. "version" \in DOMAIN next /\ next.version = u.plan.to
  BY ONLY <1>2, Zenon DEF next
<1>5. \A m \in s.installed : next = [m EXCEPT !.version = u.plan.to]
  BY ONLY <1>2, Zenon DEF next
<1> HIDE DEF next
<1>6. DOMAIN t = Parts /\ t.installed = {next} /\ t.updates = Append(s.updates, u.plan.id) /\ t.rollbacks = s.rollbacks
  <2>1. DOMAIN s = Parts
    BY DEF StateInv
  <2> QED BY ONLY <2>1, PartsOfStates
<1> HIDE DEF t
<1>7. IsPrefix(s.updates, t.updates) /\ t.updates # s.updates /\ t.updates \in Seq(PlanIds)
  <2>1. u.plan.id \in PlanIds /\ s.updates \in Seq(PlanIds)
    BY DEF PlanIds, StateInv
  <2>2. ASSUME NEW x \in PlanIds, NEW v \in Seq(PlanIds), NEW w, w = Append(v, x)
        PROVE  IsPrefix(v, w) /\ w # v /\ w \in Seq(PlanIds)
    BY <2>2, AppendExtends
  <2> QED BY ONLY <1>6, <2>1, <2>2, Zenon
<1>8. StateInv(t) /\ IsPrefix(s.rollbacks, t.rollbacks)
  BY <1>4, <1>6, <1>7, SubSeqFull DEF StateInv, IsPrefix
<1>9. {m.version : m \in t.installed} = {u.plan.to} /\ \A m \in s.installed, n \in t.installed : n = [m EXCEPT !.version = u.plan.to]
  <2>1. {m.version : m \in {next}} = {next.version}
    BY ONLY Zenon
  <2> QED BY ONLY <1>4, <1>5, <1>6, <2>1, Zenon
<1>10. ASSUME a = [ok |-> TRUE, state |-> t], Pkg!Kernel!CheckUpdatePlan(Pkg!KernelPlan(u.plan)).status # "blocked"
       PROVE  Remembers("update", asked, a.ok, s, a.state) /\ (~a.ok => a.state = s)
  <2>1. asked.plan.to # 0 /\ asked.plan.paths > 0
    BY <1>3, <1>10, UpdateIsNamed
  <2>2. Remembers("update", asked, TRUE, s, t)
    BY ONLY <1>3, <1>7, <1>8, <1>9, <2>1, StateInv(s), Zenon DEF Remembers
  <2> QED BY ONLY <1>10, <2>2, Zenon
<1>11. ASSUME NEW code, NEW reasons, a = Pkg!Failed(s, code, reasons)
       PROVE  Remembers("update", asked, a.ok, s, a.state) /\ (~a.ok => a.state = s)
  <2>1. Remembers("update", asked, FALSE, s, s)
    BY Unchanged
  <2> QED BY ONLY <1>11, <2>1, Zenon DEF Pkg!Failed
<1>12. Remembers("update", asked, a.ok, s, a.state) /\ (~a.ok => a.state = s)
  BY <1>1, <1>10, <1>11, Zenon
<1> QED BY <1>12 DEF a, asked

LEMMA MoreRollbacks ==
  ASSUME NEW v \in Seq(PackageRollbacks), NEW x \in PackageRollbacks, NEW w, w = Append(v, x)
  PROVE  /\ IsPrefix(v, w) /\ w \in Seq(PackageRollbacks)
         /\ \A i \in DOMAIN v : i \in DOMAIN w /\ w[i] = v[i]
         /\ w[Len(v) + 1] = x
         /\ \A i \in DOMAIN w : i \in DOMAIN v \/ i = Len(v) + 1
<1>1. IsPrefix(v, w)
  BY AppendExtends
<1>2. w \in Seq(PackageRollbacks) /\ w[Len(v) + 1] = x
  BY AppendExtends
<1>3. \A i \in DOMAIN v : i \in DOMAIN w /\ w[i] = v[i]
  BY AppendExtends
<1>4. \A i \in DOMAIN w : i \in DOMAIN v \/ i = Len(v) + 1
  BY AppendExtends
<1> QED BY ONLY <1>1, <1>2, <1>3, <1>4, Zenon

LEMMA RollbackAnswers ==
  ASSUME NEW s, StateInv(s), NEW r \in PackageRollbacks, NEW call \in {"rollback", "back up"}, NEW asked
  PROVE  LET a == Pkg!Rollback(s, r) IN Remembers(call, asked, a.ok, s, a.state) /\ (~a.ok => a.state = s)
<1> DEFINE known == \E i \in DOMAIN s.rollbacks : s.rollbacks[i].id = r.id
           t == [s EXCEPT !.rollbacks = Append(@, r)]
           a == Pkg!Rollback(s, r)
<1>1. \/ a = [ok |-> TRUE, state |-> IF known THEN s ELSE t]
      \/ \E code, reasons : a = Pkg!Failed(s, code, reasons)
  BY Zenon DEF Pkg!Rollback
<1>2. \A ok : Remembers(call, asked, ok, s, s)
  BY Unchanged
<1> HIDE DEF a
<1>3. DOMAIN t = Parts /\ t.installed = s.installed /\ t.updates = s.updates /\ t.rollbacks = Append(s.rollbacks, r)
  <2>1. DOMAIN s = Parts
    BY DEF StateInv
  <2> QED BY ONLY <2>1, PartsOfStates
<1> HIDE DEF t
<1>4. /\ IsPrefix(s.rollbacks, t.rollbacks) /\ t.rollbacks \in Seq(PackageRollbacks)
      /\ \A i \in DOMAIN s.rollbacks : i \in DOMAIN t.rollbacks /\ t.rollbacks[i] = s.rollbacks[i]
      /\ t.rollbacks[Len(s.rollbacks) + 1] = r
      /\ \A i \in DOMAIN t.rollbacks : i \in DOMAIN s.rollbacks \/ i = Len(s.rollbacks) + 1
  <2>1. s.rollbacks \in Seq(PackageRollbacks)
    BY DEF StateInv
  <2>2. \A v \in Seq(PackageRollbacks) : \A w : w = Append(v, r) =>
               /\ IsPrefix(v, w) /\ w \in Seq(PackageRollbacks)
               /\ \A i \in DOMAIN v : i \in DOMAIN w /\ w[i] = v[i]
               /\ w[Len(v) + 1] = r
               /\ \A i \in DOMAIN w : i \in DOMAIN v \/ i = Len(v) + 1
    BY ONLY MoreRollbacks, r \in PackageRollbacks, Zenon
  <2> QED BY ONLY <1>3, <2>1, <2>2, Zenon
<1>5. ASSUME ~known PROVE Remembers(call, asked, TRUE, s, t)
  <2>1. ASSUME NEW i \in DOMAIN t.rollbacks, NEW j \in DOMAIN t.rollbacks, t.rollbacks[i].id = t.rollbacks[j].id
        PROVE  i = j
    <3>1. \A k, l \in DOMAIN s.rollbacks : s.rollbacks[k].id = s.rollbacks[l].id => k = l
      BY Zenon DEF StateInv
    <3>2. \A k \in DOMAIN s.rollbacks : s.rollbacks[k].id # r.id
      BY ONLY <1>5, Zenon
    <3> QED BY ONLY <1>4, <2>1, <3>1, <3>2, Zenon
  <2>2. StateInv(t)
    BY <1>3, <1>4, <2>1 DEF StateInv
  <2> QED BY <1>3, <1>4, <2>2 DEF Remembers
<1>6. ASSUME NEW code, NEW reasons, a = Pkg!Failed(s, code, reasons)
      PROVE  Remembers(call, asked, a.ok, s, a.state) /\ (~a.ok => a.state = s)
  BY ONLY <1>2, <1>6, Zenon DEF Pkg!Failed
<1>7. ASSUME a = [ok |-> TRUE, state |-> IF known THEN s ELSE t]
      PROVE  Remembers(call, asked, a.ok, s, a.state) /\ (~a.ok => a.state = s)
  <2> HIDE DEF known
  <2> QED BY ONLY <1>2, <1>5, <1>7, Zenon
<1>8. Remembers(call, asked, a.ok, s, a.state) /\ (~a.ok => a.state = s)
  BY <1>1, <1>6, <1>7, Zenon
<1> QED BY <1>8 DEF a

\* What was carried out is recorded as the call that would have done it.
LEMMA RecordedAnswers ==
  ASSUME NEW s, StateInv(s), NEW a, NEW run, NEW call \in {"execute", "back up"}, NEW asked,
         Remembers(call, asked, a.ok, s, a.state), ~a.ok => a.state = s
  PROVE  LET b == Pkg!Recorded(run, s, a) IN Remembers(call, asked, b.ok, s, b.state) /\ (~b.ok => b.state = s)
<1> DEFINE b == Pkg!Recorded(run, s, a)
<1>1. b.ok = (run.ok /\ a.ok) /\ b.state = (IF run.ok THEN a.state ELSE s)
  BY Zenon DEF Pkg!Recorded
<1>2. \A ok : Remembers(call, asked, ok, s, s)
  BY Unchanged
<1> HIDE DEF b
<1>3. Remembers(call, asked, b.ok, s, b.state) /\ (~b.ok => b.state = s)
  <2>1. CASE run.ok /\ a.ok
    <3>1. Remembers(call, asked, b.ok, s, b.state)
      BY <1>1, <2>1, Zenon DEF Remembers
    <3> QED BY <1>1, <2>1, <3>1, Zenon
  <2>2. CASE ~(run.ok /\ a.ok)
    BY <1>1, <1>2, <2>2, Zenon
  <2> QED BY <2>1, <2>2
<1> QED BY <1>3 DEF b

LEMMA FailedAnswers ==
  ASSUME NEW s, StateInv(s), NEW call \in {"execute", "back up"}, NEW asked, NEW code, NEW reasons
  PROVE  LET a == Pkg!Failed(s, code, reasons) IN Remembers(call, asked, a.ok, s, a.state) /\ (~a.ok => a.state = s)
<1>1. Remembers(call, asked, FALSE, s, s)
  BY Unchanged
<1> QED BY ONLY <1>1, Zenon DEF Pkg!Failed

LEMMA ExecuteAnswers ==
  ASSUME NEW s, StateInv(s), NEW asked, NEW disk, NEW base, NEW fault
  PROVE  /\ \A input, plan, files :
              LET a == Pkg!ExecuteInstall(s, disk, base, input, plan, files, fault) IN Remembers("execute", asked, a.ok, s, a.state)
         /\ \A r \in PackageRollbacks :
              LET a == Pkg!ExecuteRollback(s, disk, base, r, fault) IN Remembers("back up", asked, a.ok, s, a.state)
<1>1. ASSUME NEW run, NEW call \in {"execute", "back up"}, NEW code, NEW reasons
      PROVE  LET b == Pkg!Recorded(run, s, Pkg!Failed(s, code, reasons)) IN Remembers(call, asked, b.ok, s, b.state)
  <2> DEFINE a == Pkg!Failed(s, code, reasons)
  <2>1. Remembers(call, asked, a.ok, s, a.state) /\ (~a.ok => a.state = s)
    BY FailedAnswers
  <2> HIDE DEF a
  <2>2. LET b == Pkg!Recorded(run, s, a) IN Remembers(call, asked, b.ok, s, b.state)
    BY <2>1, RecordedAnswers
  <2> QED BY <2>2 DEF a
<1>2. ASSUME NEW run, NEW input
      PROVE  LET b == Pkg!Recorded(run, s, Pkg!Install(s, input)) IN Remembers("execute", asked, b.ok, s, b.state)
  BY InstallAnswers, RecordedAnswers
<1>3. ASSUME NEW run, NEW r \in PackageRollbacks
      PROVE  LET b == Pkg!Recorded(run, s, Pkg!Rollback(s, r)) IN Remembers("back up", asked, b.ok, s, b.state)
  BY RollbackAnswers, RecordedAnswers
<1>4. ASSUME NEW input, NEW plan, NEW files
      PROVE  LET a == Pkg!ExecuteInstall(s, disk, base, input, plan, files, fault) IN Remembers("execute", asked, a.ok, s, a.state)
  BY ONLY <1>1, <1>2, Zenon DEF Pkg!ExecuteInstall
<1>5. ASSUME NEW r \in PackageRollbacks
      PROVE  LET a == Pkg!ExecuteRollback(s, disk, base, r, fault) IN Remembers("back up", asked, a.ok, s, a.state)
  BY ONLY <1>1, <1>3, Zenon DEF Pkg!ExecuteRollback
<1> QED BY <1>4, <1>5

InstallerFields == {"of", "calls", "base", "disk", "state", "plans", "last", "was"}

InstallerInv(it) ==
  /\ DOMAIN it = InstallerFields /\ StateInv(it.state)
  /\ Remembers(it.last.call, it.last.asked, it.last.ok, it.was.state, it.state)

LEMMA MemoryIsKept ==
  ASSUME NEW it, InstallerInv(it) PROVE MemoryFollowsCalls(it)
<1> DEFINE now == it.state
           was == it.was.state
           last == it.last
<1>1. Remembers(last.call, last.asked, last.ok, was, now)
  BY DEF InstallerInv
<1> HIDE DEF now, was, last
<1>2. IsPrefix(was.updates, was.updates)
  <2>1. was.updates \in Seq(PlanIds)
    BY ONLY <1>1, Zenon DEF Remembers, StateInv
  <2> QED BY ONLY <2>1, SubSeqFull DEF IsPrefix
<1>3. IsInjective([i \in DOMAIN now.rollbacks |-> now.rollbacks[i].id])
  BY <1>1, Zenon DEF Remembers, StateInv, IsInjective
<1>4. IsPrefix(was.rollbacks, now.rollbacks) /\ IsPrefix(was.updates, now.updates)
  BY <1>1, <1>2, Zenon DEF Remembers
<1>5. last.call \in {"none", "plan"} \/ ~last.ok => now = was
  BY ONLY <1>1, Zenon DEF Remembers
<1>6. now.updates # was.updates <=> last.call = "update" /\ last.ok
  BY ONLY <1>1, Zenon DEF Remembers
<1>7. now.installed # was.installed => last.call \in {"install", "update", "execute"}
  BY ONLY <1>1, Zenon DEF Remembers
<1>8. last.call = "update" /\ last.ok =>
        /\ {m.version : m \in now.installed} = {last.asked.plan.to} /\ last.asked.plan.to # 0 /\ last.asked.plan.paths > 0
        /\ \A m \in was.installed, n \in now.installed : n = [m EXCEPT !.version = last.asked.plan.to]
  BY ONLY <1>1, Zenon DEF Remembers
<1> QED BY <1>3, <1>4, <1>5, <1>6, <1>7, <1>8, Zenon DEF MemoryFollowsCalls, now, was, last

LEMMA Calls ==
  ASSUME DOMAIN case = InstallerFields, NEW call, NEW asked, NEW answer,
         Answered(call, asked, answer) \/ CarriedOut(call, asked, answer)
  PROVE  /\ DOMAIN case' = InstallerFields /\ case'.of = case.of /\ case'.state = answer.state /\ case'.was.state = case.state
         /\ case'.last.call = call /\ case'.last.asked = asked /\ case'.last.ok = answer.ok
<1> DEFINE l(messages) == [call |-> call, asked |-> asked, ok |-> answer.ok, messages |-> messages]
<1>1. \A messages : l(messages).call = call /\ l(messages).asked = asked /\ l(messages).ok = answer.ok
  OBVIOUS
<1>2. \E messages : /\ DOMAIN case' = InstallerFields /\ case'.of = case.of /\ case'.state = answer.state
                     /\ case'.was = Before /\ case'.last = l(messages)
  <2>1. CASE Answered(call, asked, answer)
    <3>1. case' = [case EXCEPT !.calls = case.calls + 1, !.was = Before, !.state = answer.state, !.last = l(<<>>)]
      BY <2>1 DEF Answered
    <3> HIDE DEF l
    <3> QED BY ONLY <3>1, DOMAIN case = InstallerFields, Zenon DEF InstallerFields
  <2>2. CASE CarriedOut(call, asked, answer)
    <3>1. case' = [case EXCEPT !.calls = case.calls + 1, !.was = Before, !.state = answer.state,
                               !.last = l(answer.messages), !.disk = answer.disk]
      BY <2>2 DEF CarriedOut
    <3> HIDE DEF l
    <3> QED BY ONLY <3>1, DOMAIN case = InstallerFields, Zenon DEF InstallerFields
  <2> QED BY <2>1, <2>2
<1> HIDE DEF l
<1>3. Before.state = case.state
  BY DEF Before
<1> QED BY ONLY <1>1, <1>2, <1>3, Zenon

LEMMA InstallerCalls ==
  ASSUME case.of = "installer", InstallerInv(case),
         InstallPackage \/ UpdatePackage \/ RememberRollback \/ CarryOutPlan \/ CarryOutRollback
  PROVE  case'.of = "installer" /\ InstallerInv(case')
<1> DEFINE s == case.state
<1>1. DOMAIN case = InstallerFields /\ StateInv(s)
  BY DEF InstallerInv
<1>2. \E call, asked, a : /\ Answered(call, asked, a) \/ CarriedOut(call, asked, a)
                          /\ Remembers(call, asked, a.ok, s, a.state)
  <2>1. CASE InstallPackage
    BY <1>1, <2>1, InstallAnswers, Zenon DEF InstallPackage
  <2>2. CASE UpdatePackage
    BY <1>1, <2>2, UpdateAnswers, Zenon DEF UpdatePackage
  <2>3. CASE RememberRollback
    BY <1>1, <2>3, RollbackAnswers, Zenon DEF RememberRollback
  <2>4. CASE CarryOutPlan
    <3>1. PICK plan \in case.plans, i \in Installations, fault \in Faults :
            CarriedOut("execute", [plan |-> plan, files |-> i.files, input |-> i.input],
                       Pkg!ExecuteInstall(s, case.disk, case.base, i.input, plan, i.files, fault))
      BY <2>4, Zenon DEF CarryOutPlan
    <3> DEFINE asked == [plan |-> plan, files |-> i.files, input |-> i.input]
               a == Pkg!ExecuteInstall(s, case.disk, case.base, i.input, plan, i.files, fault)
    <3>2. Remembers("execute", asked, a.ok, s, a.state)
      BY <1>1, ExecuteAnswers, Zenon
    <3> HIDE DEF asked, a
    <3>3. CarriedOut("execute", asked, a)
      BY <3>1, Zenon DEF asked, a
    <3> QED BY ONLY <3>2, <3>3, Zenon
  <2>5. CASE CarryOutRollback
    BY <1>1, <2>5, ExecuteAnswers, Zenon DEF CarryOutRollback
  <2> QED BY <2>1, <2>2, <2>3, <2>4, <2>5
<1>3. PICK call, asked, a : /\ Answered(call, asked, a) \/ CarriedOut(call, asked, a)
                            /\ Remembers(call, asked, a.ok, s, a.state)
  BY <1>2
<1>4. /\ DOMAIN case' = InstallerFields /\ case'.of = case.of /\ case'.state = a.state /\ case'.was.state = s
      /\ case'.last.call = call /\ case'.last.asked = asked /\ case'.last.ok = a.ok
  BY ONLY <1>1, <1>3, Calls, Zenon
<1>5. InstallerInv(case')
  BY ONLY <1>3, <1>4, Zenon DEF InstallerInv, Remembers
<1> QED BY <1>4, <1>5, Zenon

\* A plan that is made, and a disk that others change, leave what is remembered.
LEMMA InstallerWaits ==
  ASSUME case.of = "installer", InstallerInv(case), PlanPackage \/ EditDisk
  PROVE  case'.of = "installer" /\ InstallerInv(case')
<1>1. DOMAIN case = InstallerFields /\ StateInv(case.state)
  BY DEF InstallerInv
<1>2. /\ DOMAIN case' = InstallerFields /\ case'.of = case.of /\ case'.state = case.state /\ case'.was.state = case.state
      /\ case'.last.call \in {"plan", "none"}
  <2>1. CASE PlanPackage
    <3>1. PICK i, plan :
            case' = [case EXCEPT !.calls = case.calls + 1, !.was = Before,
                       !.last = [call |-> "plan", asked |-> [input |-> i.input], ok |-> plan.ok, messages |-> <<>>],
                       !.plans = IF plan.ok THEN {plan} ELSE case.plans]
      BY <2>1 DEF PlanPackage
    <3> DEFINE last == [call |-> "plan", asked |-> [input |-> i.input], ok |-> plan.ok, messages |-> <<>>]
               plans == IF plan.ok THEN {plan} ELSE case.plans
    <3>2. last.call = "plan"
      OBVIOUS
    <3>3. case' = [case EXCEPT !.calls = case.calls + 1, !.was = Before, !.last = last, !.plans = plans]
      BY ONLY <3>1
    <3> HIDE DEF last, plans
    <3>4. /\ DOMAIN case' = InstallerFields /\ case'.of = case.of /\ case'.state = case.state
          /\ case'.was = Before /\ case'.last = last
      BY ONLY <1>1, <3>3, Zenon DEF InstallerFields
    <3>5. Before.state = case.state
      BY DEF Before
    <3> QED BY ONLY <3>2, <3>4, <3>5, Zenon
  <2>2. CASE EditDisk
    <3>1. PICK e, disk :
            case' = [case EXCEPT !.calls = case.calls + 1, !.was = Before, !.last = Idle, !.disk = disk]
      BY <2>2 DEF EditDisk
    <3>2. Idle.call = "none"
      BY DEF Idle
    <3>3. /\ DOMAIN case' = InstallerFields /\ case'.of = case.of /\ case'.state = case.state
          /\ case'.was = Before /\ case'.last = Idle
      BY ONLY <1>1, <3>1, Zenon DEF InstallerFields
    <3>4. Before.state = case.state
      BY DEF Before
    <3> QED BY ONLY <3>2, <3>3, <3>4, Zenon
  <2> QED BY <2>1, <2>2
<1>3. Remembers(case'.last.call, case'.last.asked, case'.last.ok, case.state, case.state)
  BY <1>1, <1>2, Unchanged
<1> QED BY ONLY <1>1, <1>2, <1>3, case.of = "installer", Zenon DEF InstallerInv

LEMMA InstallerOpens ==
  ASSUME OpenInstaller PROVE case'.of = "installer" /\ InstallerInv(case')
<1>1. /\ DOMAIN case' = InstallerFields /\ case'.of = "installer" /\ case'.state = Fresh /\ case'.was.state = Fresh
      /\ case'.last.call = "none"
  <2>1. PICK d : case' = [of |-> "installer", calls |-> 0, base |-> d.base, disk |-> d.disk, state |-> Fresh,
                          plans |-> {}, last |-> Idle, was |-> [disk |-> d.disk, state |-> Fresh]]
    BY Zenon DEF OpenInstaller
  <2>2. Idle.call = "none"
    BY DEF Idle
  <2> QED BY ONLY <2>1, <2>2 DEF InstallerFields
<1>2. StateInv(Fresh)
  BY DEF StateInv, Fresh, Parts
<1>3. Remembers(case'.last.call, case'.last.asked, case'.last.ok, Fresh, Fresh)
  BY <1>1, <1>2, Unchanged
<1> QED BY ONLY <1>1, <1>2, <1>3, Zenon DEF InstallerInv

-----------------------------------------------------------------------------
(* The guards before a write. *)

\* A report without reasons knows none of its conditions to hold.
LEMMA NoReason ==
  ASSUME NEW r, Pkg!Reasons(r) = {}, NEW k \in DOMAIN r PROVE ~r[k]
BY Zenon DEF Pkg!Reasons

LEMMA Verdicts == ASSUME NEW r PROVE Pkg!Verdict(r).ok <=> r = {}
BY Zenon DEF Pkg!Verdict

\* A token that is in order is the one for its intent, its root and its decision.
LEMMA SoundToken ==
  ASSUME NEW t, t = [intent |-> t.intent, root |-> t.root, decision |-> t.decision, text |-> t.text], Pkg!TokenReasons(t) = {}
  PROVE  t = Pkg!Token(t.intent, t.root, t.decision)
<1> DEFINE r == [write_approval_token_intent_invalid |-> t.intent \notin Pkg!Intents,
                 write_approval_token_root_missing |-> Pkg!IsEmptyText(t.root),
                 write_approval_token_value_missing |-> t.text = <<>>,
                 write_approval_token_value_mismatch |-> t.text \notin {<<>>, <<t.intent, t.root, t.decision>>}]
<1>1. Pkg!Reasons(r) = {}
  BY Zenon DEF Pkg!TokenReasons
<1>2. ~r.write_approval_token_value_missing /\ ~r.write_approval_token_value_mismatch
  BY ONLY <1>1, NoReason, Zenon
<1>3. t.text = <<t.intent, t.root, t.decision>>
  BY ONLY <1>2, Zenon
<1> QED BY <1>3, Zenon DEF Pkg!Token

LEMMA CapableOf ==
  ASSUME NEW request, NEW decision, Pkg!WriteCapability(request, decision).ok
  PROVE  /\ request.policy.mode = "explicit" /\ request.intent \in request.policy.intents
         /\ request.policy.requireApproval => request.approved \/ Pkg!TokenMatches(request.tokens, request.intent, decision)
<1> DEFINE policy == request.policy
           r == [write_capability_policy_invalid |-> \/ policy.mode \notin {"disabled", "preview-only", "explicit"}
                                                     \/ policy.intents = {} \/ ~(policy.intents \subseteq Pkg!Intents),
                 write_capability_disabled |-> policy.mode = "disabled", write_capability_preview_only |-> policy.mode = "preview-only",
                 write_capability_intent_invalid |-> request.intent \notin Pkg!Intents,
                 write_capability_intent_not_allowed |-> request.intent \notin policy.intents,
                 write_capability_decision_not_ready |-> policy.requireReady /\ decision.decision # "ready",
                 write_capability_approval_required |-> policy.requireApproval /\ ~request.approved
                                                        /\ ~Pkg!TokenMatches(request.tokens, request.intent, decision)]
<1>1. Pkg!Reasons(r) = {}
  BY Zenon DEF Pkg!WriteCapability
<1>2. /\ ~r.write_capability_policy_invalid /\ ~r.write_capability_disabled /\ ~r.write_capability_preview_only
      /\ ~r.write_capability_intent_not_allowed /\ ~r.write_capability_approval_required
  BY ONLY <1>1, NoReason, Zenon
<1> QED BY ONLY <1>2, Zenon

LEMMA Confirms ==
  ASSUME NEW decision, NEW capability, NEW plan, Pkg!WriteConfirmation(decision, capability, plan).ok
  PROVE  decision.decision = "ready" /\ capability.ok /\ plan.steps # {}
<1> DEFINE r == [write_confirmation_intent_mismatch |-> capability.intent # plan.intent,
                 write_confirmation_decision_not_ready |-> decision.decision # "ready",
                 write_confirmation_capability_not_allowed |-> ~capability.ok,
                 write_confirmation_execution_plan_not_ready |-> ~plan.ok, write_confirmation_steps_empty |-> plan.steps = {}]
<1>1. Pkg!Reasons(r) = {}
  BY Zenon DEF Pkg!WriteConfirmation
<1>2. /\ ~r.write_confirmation_decision_not_ready /\ ~r.write_confirmation_capability_not_allowed
      /\ ~r.write_confirmation_steps_empty
  BY ONLY <1>1, NoReason, Zenon
<1> QED BY ONLY <1>2, Zenon

LEMMA Adapts ==
  ASSUME NEW contract, NEW confirmation, NEW plan, Pkg!AdapterContract(contract, confirmation, plan).ok
  PROVE  \A s \in plan.steps : s.needs \in contract.capabilities
<1> DEFINE required == {s.needs : s \in plan.steps}
           r == [write_adapter_contract_invalid |-> \/ contract.name = "" \/ contract.capabilities = {}
                                                    \/ ~(contract.capabilities \subseteq Pkg!Capabilities) \/ ~contract.approval,
                 write_adapter_confirmation_not_ready |-> ~confirmation.ok, write_adapter_execution_plan_not_ready |-> ~plan.ok,
                 write_adapter_required_capabilities_empty |-> required = {},
                 write_adapter_capability_missing |-> ~(required \subseteq contract.capabilities),
                 write_adapter_rollback_capture_not_supported |-> "backup-file" \in required /\ ~contract.capture]
<1>1. Pkg!Reasons(r) = {}
  BY Zenon DEF Pkg!AdapterContract, Pkg!Verdict
<1>2. ~r.write_adapter_capability_missing
  BY ONLY <1>1, NoReason, Zenon
<1>3. required \subseteq contract.capabilities
  BY ONLY <1>2, Zenon
<1> QED BY ONLY <1>3, Zenon

LEMMA Enveloped ==
  ASSUME NEW request, NEW capability, NEW approval, NEW plan, NEW confirmation, NEW adapter,
         Pkg!Envelope(request, capability, approval, plan, confirmation, adapter).ok
  PROVE  /\ capability.intent = request.intent /\ plan.intent = request.intent
         /\ capability.ok /\ plan.ok /\ confirmation.ok /\ adapter.ok
<1> DEFINE r == [controlled_write_intent_mismatch |-> {capability.intent, plan.intent, confirmation.intent} # {request.intent},
                 controlled_write_capability_not_allowed |-> ~capability.ok, controlled_write_approval_invalid |-> approval # {},
                 controlled_write_execution_plan_not_ready |-> ~plan.ok, controlled_write_confirmation_not_ready |-> ~confirmation.ok,
                 controlled_write_adapter_contract_not_ready |-> ~adapter.ok]
<1>1. Pkg!Reasons(r) = {}
  BY Zenon DEF Pkg!Envelope, Pkg!Verdict
<1>2. /\ ~r.controlled_write_intent_mismatch /\ ~r.controlled_write_capability_not_allowed
      /\ ~r.controlled_write_execution_plan_not_ready /\ ~r.controlled_write_confirmation_not_ready
      /\ ~r.controlled_write_adapter_contract_not_ready
  BY ONLY <1>1, NoReason, Zenon
<1>3. /\ {capability.intent, plan.intent, confirmation.intent} = {request.intent}
      /\ capability.ok /\ plan.ok /\ confirmation.ok /\ adapter.ok
  BY ONLY <1>2, Zenon
<1>4. capability.intent = request.intent /\ plan.intent = request.intent
  BY ONLY <1>3
<1> QED BY <1>3, <1>4

LEMMA Readies ==
  ASSUME NEW decision, NEW exported, NEW envelope, Pkg!Readiness(decision, exported, envelope).status # "blocked"
  PROVE  envelope.ok
BY Zenon DEF Pkg!Readiness

LEMMA Plans ==
  ASSUME NEW version, NEW notes, NEW checklist, NEW readiness, NEW preview,
         Pkg!ArtifactPlan(version, notes, checklist, readiness, preview).ok
  PROVE  /\ Pkg!ArtifactPlan(version, notes, checklist, readiness, preview).planned = Pkg!Range(Pkg!ArtifactItems)
         /\ version # "" /\ checklist.ok
<1> DEFINE planned(item) == IF item = "notes" THEN notes.ok ELSE preview.sections[item].ok
           blocked == {item \in Pkg!Range(Pkg!ArtifactItems) : ~planned(item)}
           r == [guarded_release_artifact_version_missing |-> version = "",
                 guarded_release_artifact_v0_checklist_blocked |-> ~checklist.ok,
                 guarded_release_artifact_release_readiness_blocked |-> ~readiness.ok]
           plan == Pkg!ArtifactPlan(version, notes, checklist, readiness, preview)
<1>1. plan.planned = Pkg!Range(Pkg!ArtifactItems) \ blocked /\ blocked \union Pkg!Reasons(r) = {}
  BY Zenon DEF Pkg!ArtifactPlan
<1> HIDE DEF blocked, r, plan
<1>2. blocked = {} /\ Pkg!Reasons(r) = {}
  BY ONLY <1>1
<1>3. plan.planned = Pkg!Range(Pkg!ArtifactItems)
  BY ONLY <1>1, <1>2
<1>4. ~r.guarded_release_artifact_version_missing /\ ~r.guarded_release_artifact_v0_checklist_blocked
  <2>1. {"guarded_release_artifact_version_missing", "guarded_release_artifact_v0_checklist_blocked"} \subseteq DOMAIN r
    BY Zenon DEF r
  <2> QED BY ONLY <1>2, <2>1, NoReason, Zenon
<1>5. version # "" /\ checklist.ok
  BY ONLY <1>4, Zenon DEF r
<1> QED BY <1>3, <1>5 DEF plan

LEMMA Permits ==
  ASSUME NEW version, NEW policy, NEW approved, NEW assembly, Pkg!ArtifactPermission(version, policy, approved, assembly).ok
  PROVE  policy.mode = "explicit" /\ approved /\ assembly.ok
<1> DEFINE r == [artifact_creation_permission_policy_invalid |-> \/ policy.mode \notin {"disabled", "dry-run-only", "explicit"}
                                                                 \/ ~policy.requireReady \/ ~policy.requireApproval,
                 artifact_creation_permission_version_missing |-> version = "",
                 artifact_creation_permission_disabled |-> policy.mode = "disabled",
                 artifact_creation_permission_dry_run_only |-> policy.mode = "dry-run-only",
                 artifact_creation_permission_assembly_not_ready |-> policy.requireReady /\ ~assembly.ok,
                 artifact_creation_permission_approval_required |-> policy.requireApproval /\ ~approved]
<1>1. Pkg!Reasons(r) = {}
  BY Zenon DEF Pkg!ArtifactPermission, Pkg!AllowsNothing
<1>2. /\ ~r.artifact_creation_permission_policy_invalid /\ ~r.artifact_creation_permission_disabled
      /\ ~r.artifact_creation_permission_dry_run_only /\ ~r.artifact_creation_permission_assembly_not_ready
      /\ ~r.artifact_creation_permission_approval_required
  BY ONLY <1>1, NoReason, Zenon
<1> QED BY ONLY <1>2, Zenon

LEMMA Assembles ==
  ASSUME NEW version, NEW plan, NEW preview, Pkg!AssemblyEnvelope(version, plan, preview).ok
  PROVE  version # "" /\ plan.ok
<1> DEFINE r == [guarded_local_artifact_assembly_version_missing |-> version = "", guarded_local_artifact_assembly_plan_not_ready |-> ~plan.ok]
           failed == {item \in Pkg!Range(Pkg!ArtifactItems) \ {"notes"} : ~preview.sections[item].ok}
<1>1. Pkg!Reasons(r) \union failed = {}
  BY Zenon DEF Pkg!AssemblyEnvelope, Pkg!Verdict
<1> HIDE DEF failed
<1>2. Pkg!Reasons(r) = {}
  BY ONLY <1>1, Zenon
<1>3. ~r.guarded_local_artifact_assembly_version_missing /\ ~r.guarded_local_artifact_assembly_plan_not_ready
  BY ONLY <1>2, NoReason, Zenon
<1> QED BY ONLY <1>3, Zenon

LEMMA Checks ==
  ASSUME NEW readiness, NEW failing, Pkg!CandidateChecklist(readiness, failing).ok
  PROVE  failing = {} /\ readiness.status # "blocked"
<1> DEFINE r == [v0_rc_release_readiness_blocked |-> readiness.status = "blocked"]
<1>1. failing \union Pkg!Reasons(r) = {}
  BY Zenon DEF Pkg!CandidateChecklist, Pkg!Verdict
<1>2. failing = {} /\ Pkg!Reasons(r) = {}
  BY ONLY <1>1, Zenon
<1>3. ~r.v0_rc_release_readiness_blocked
  BY ONLY <1>2, NoReason, Zenon
<1> QED BY ONLY <1>2, <1>3, Zenon

LEMMA ConfirmsArtifacts ==
  ASSUME NEW version, NEW permission, NEW plan, NEW contract, Pkg!ArtifactConfirmation(version, permission, plan, contract).ok
  PROVE  permission.ok
<1> DEFINE r == [local_artifact_confirmation_version_missing |-> version = "",
                 local_artifact_confirmation_permission_not_allowed |-> ~permission.ok,
                 local_artifact_confirmation_execution_plan_not_ready |-> ~plan.ok,
                 local_artifact_confirmation_adapter_contract_not_ready |-> ~contract.ok,
                 local_artifact_confirmation_required_capabilities_empty |-> contract.required = {},
                 local_artifact_confirmation_creation_must_remain_disabled |->
                   permission.creationAllowed \/ plan.creationAllowed \/ contract.creationAllowed]
<1>1. Pkg!Reasons(r) = {}
  BY Zenon DEF Pkg!ArtifactConfirmation, Pkg!AllowsNothing
<1>2. ~r.local_artifact_confirmation_permission_not_allowed
  BY ONLY <1>1, NoReason, Zenon
<1> QED BY ONLY <1>2, Zenon

\* What passes the last guard passed all before it.
LEMMA GuardsHold ==
  ASSUME NEW in \in PackageInputs, NEW it, it.in = in PROVE GuardsAreKept(it)
<1> DEFINE preview == Pkg!InstallPreview(in)
           guards == Pkg!Guards(in, preview)
           decision == Pkg!Decide(preview)
           request == [intent |-> in.intents[1], policy |-> in.policy, approved |-> in.approved, tokens |-> in.tokens]
           capability == Pkg!WriteCapability(request, decision)
           plan == Pkg!WritePlan(in.intents[2], capability, preview)
           confirmation == Pkg!WriteConfirmation(decision, capability, plan)
           adapter == Pkg!AdapterContract(in.contract, confirmation, plan)
           approval == Pkg!TokenReasons(Pkg!Token(in.intents[3], in.root, decision.decision))
           written == [intent |-> in.intents[3]]
           envelope == Pkg!Envelope(written, capability, approval, plan, confirmation, adapter)
           token == Pkg!Token(in.intents[1], in.root, "ready")
           readiness == Pkg!Readiness(decision, Pkg!AuditEvents(decision) # {}, envelope)
           checklist == Pkg!CandidateChecklist(readiness, in.failing)
           notes == Pkg!ReleaseNotes(in.release, checklist, readiness)
           artifacts == Pkg!ArtifactPlan(in.release, notes, checklist, readiness, preview)
           assembly == Pkg!AssemblyEnvelope(in.release, artifacts, preview)
           permission == Pkg!ArtifactPermission(in.release, in.artifactPolicy, in.artifactApproved, assembly)
           creation == Pkg!ArtifactCreationPlan(in.release, permission, artifacts, assembly)
           contract == Pkg!ArtifactContract(in.artifactContract, permission, creation)
           last == Pkg!ArtifactConfirmation(in.release, permission, creation, contract)
<1>1. /\ guards.decision = decision /\ guards.plan = plan /\ guards.envelope = envelope
      /\ guards.artifacts = artifacts /\ guards.confirmation = last
  BY Zenon DEF Pkg!Guards
<1>2. decision.root = in.root
  <2>1. preview.root = in.root
    <3>1. PICK files, archive, metadata : preview = Pkg!PreviewOf(in, files, archive, metadata)
      BY Zenon DEF Pkg!InstallPreview
    <3> HIDE DEF preview
    <3>2. Pkg!PreviewOf(in, files, archive, metadata).root = in.root
      BY Zenon DEF Pkg!PreviewOf
    <3> QED BY ONLY <3>1, <3>2
  <2> HIDE DEF preview
  <2> QED BY ONLY <2>1, Zenon DEF Pkg!Decide
<1>3. request.intent = in.intents[1] /\ request.policy = in.policy /\ request.approved = in.approved /\ request.tokens = in.tokens
  OBVIOUS
<1>4. capability.intent = in.intents[1] /\ plan.intent = in.intents[2]
  BY Zenon DEF Pkg!WriteCapability, Pkg!WritePlan
<1>5. ASSUME envelope.ok
      PROVE  /\ decision.decision = "ready" /\ in.policy.mode = "explicit" /\ in.intents[1] \in in.policy.intents
             /\ in.intents[1] = in.intents[2] /\ in.intents[2] = in.intents[3]
             /\ in.policy.requireApproval => in.approved \/ token \in in.tokens
             /\ plan.steps # {} /\ \A s \in plan.steps : s.needs \in in.contract.capabilities
  <2> HIDE DEF preview, decision, request, capability, plan, confirmation, adapter, approval, written
  <2>1. /\ capability.intent = in.intents[3] /\ plan.intent = in.intents[3]
        /\ capability.ok /\ confirmation.ok /\ adapter.ok
    <3>1. written.intent = in.intents[3]
      BY Zenon DEF written
    <3> QED BY <1>5, <3>1, Enveloped, Zenon
  <2>2. decision.decision = "ready" /\ plan.steps # {}
    BY <2>1, Confirms, Zenon DEF confirmation
  <2>3. \A s \in plan.steps : s.needs \in in.contract.capabilities
    BY <2>1, Adapts, Zenon DEF adapter
  <2>4. /\ in.policy.mode = "explicit" /\ in.intents[1] \in in.policy.intents
        /\ in.policy.requireApproval => in.approved \/ Pkg!TokenMatches(in.tokens, in.intents[1], decision)
    BY <1>3, <2>1, CapableOf, Zenon DEF capability
  <2>5. Pkg!TokenMatches(in.tokens, in.intents[1], decision) => token \in in.tokens
    <3> SUFFICES ASSUME Pkg!TokenMatches(in.tokens, in.intents[1], decision) PROVE token \in in.tokens
      OBVIOUS
    <3>1. PICK t \in in.tokens : /\ Pkg!TokenReasons(t) = {} /\ t.intent = in.intents[1]
                                 /\ t.root = in.root /\ t.decision = "ready"
      BY <1>2, <2>2, Zenon DEF Pkg!TokenMatches
    <3>2. t = [intent |-> t.intent, root |-> t.root, decision |-> t.decision, text |-> t.text]
      BY PackageInputsAssumption
    <3>3. t = Pkg!Token(t.intent, t.root, t.decision)
      BY ONLY <3>1, <3>2, SoundToken, Zenon
    <3> QED BY ONLY <3>1, <3>3, Zenon
  <2> QED BY <1>4, <2>1, <2>2, <2>3, <2>4, <2>5, Zenon
<1>6. ASSUME last.ok
      PROVE  /\ envelope.ok /\ in.failing = {} /\ in.artifactPolicy.mode = "explicit" /\ in.artifactApproved
             /\ artifacts.planned = Range(Pkg!ArtifactItems) /\ in.release # ""
  <2> HIDE DEF preview, decision, envelope, readiness, checklist, notes, artifacts, assembly, permission, creation, contract
  <2>1. permission.ok
    BY <1>6, ConfirmsArtifacts, Zenon
  <2>2. in.artifactPolicy.mode = "explicit" /\ in.artifactApproved /\ assembly.ok
    BY <2>1, Permits, Zenon DEF permission
  <2>3. in.release # "" /\ artifacts.ok
    BY <2>2, Assembles, Zenon DEF assembly
  <2>4. artifacts.planned = Pkg!Range(Pkg!ArtifactItems) /\ checklist.ok
    BY <2>3, Plans, Zenon DEF artifacts
  <2>5. in.failing = {} /\ readiness.status # "blocked"
    BY <2>4, Checks, Zenon DEF checklist
  <2>6. envelope.ok
    BY <2>5, Readies, Zenon DEF readiness
  <2>7. Pkg!Range(Pkg!ArtifactItems) = Range(Pkg!ArtifactItems)
    BY DEF Range, Pkg!Range
  <2> QED BY <2>2, <2>3, <2>4, <2>5, <2>6, <2>7
<1> HIDE DEF guards, decision, plan, envelope, artifacts, last
<1>7. Layers(in).guards = guards
  BY Zenon DEF Layers, guards
<1> HIDE DEF token
<1> QED BY <1>1, <1>5, <1>6, <1>7, Zenon DEF GuardsAreKept, token

-----------------------------------------------------------------------------
(* Every behaviour of the computations. *)

\* A case is of a kind, and a release, a process and an installer are as they should be.
CaseInv ==
  /\ "of" \in DOMAIN case
  /\ case.of = "release" => DOMAIN case = {"of", "trail"} /\ TrailInv(case.trail)
  /\ case.of = "process" => ProcessInv(case)
  /\ case.of = "installer" => InstallerInv(case)
  /\ case.of = "package" => case.in \in PackageInputs

\* A step to a case of another kind.
ToOther == "of" \in DOMAIN case' /\ case'.of \notin {"release", "process", "installer", "package"}

LEMMA OtherAlgorithms ==
  ASSUME CaseInv, Next, ~AdvanceRelease PROVE ToOther
BY DEF Next, CapturePrevious, CaptureCurrent, ReadTimeline, ObserveState, ObserveAgain, KeepEvidence, CheckGraph, CheckPlan,
       CheckRegistry, HandleRequest, ToOther

LEMMA OtherSources ==
  ASSUME CaseInv, Configure \/ SelectSource \/ ChooseRequest \/ ObserveSources PROVE ToOther
<1>1. CASE Configure
  BY <1>1 DEF Configure, ToOther
<1>2. CASE SelectSource
  BY <1>2 DEF SelectSource, ToOther
<1>3. CASE ChooseRequest
  <2>1. PICK requests : case' = [of |-> "chosen", requests |-> requests]
    BY <1>3, Zenon DEF ChooseRequest
  <2> QED BY <2>1 DEF ToOther
<1>4. CASE ObserveSources
  BY <1>4 DEF ObserveSources, ToOther
<1> QED BY <1>1, <1>2, <1>3, <1>4

LEMMA OtherCommands ==
  ASSUME TypeLine \/ AskMemory \/ CallTool \/ ReadItems PROVE ToOther
<1>1. CASE TypeLine
  BY <1>1 DEF TypeLine, ToOther
<1>2. CASE AskMemory
  BY <1>2 DEF AskMemory, ToOther
<1>3. CASE CallTool
  BY <1>3, ToolCallsAssumption DEF CallTool, ToOther
<1>4. CASE ReadItems
  BY <1>4 DEF ReadItems, ToOther
<1> QED BY <1>1, <1>2, <1>3, <1>4

LEMMA PackageStarts ==
  ASSUME PreviewPackage PROVE CaseInv'
<1>1. PICK in \in PackageInputs : case' = [of |-> "package", in |-> in]
  BY DEF PreviewPackage
<1>2. "of" \in DOMAIN case' /\ case'.of = "package" /\ case'.in \in PackageInputs
  BY <1>1
<1> QED BY <1>2 DEF CaseInv

LEMMA InstallerStep ==
  ASSUME CaseInv, \/ OpenInstaller \/ InstallPackage \/ UpdatePackage \/ RememberRollback
                  \/ PlanPackage \/ CarryOutPlan \/ CarryOutRollback \/ EditDisk
  PROVE  CaseInv'
<1>1. CASE OpenInstaller
  BY <1>1, InstallerOpens DEF CaseInv, InstallerInv, InstallerFields
<1>2. CASE ~OpenInstaller
  <2>1. case.of = "installer" /\ InstallerInv(case)
    BY <1>2 DEF CaseInv, InstallPackage, UpdatePackage, RememberRollback, PlanPackage, CarryOutPlan, CarryOutRollback,
                EditDisk, MayCall
  <2>2. case'.of = "installer" /\ InstallerInv(case')
    BY <1>2, <2>1, InstallerCalls, InstallerWaits
  <2> QED BY <2>2 DEF CaseInv, InstallerInv, InstallerFields
<1> QED BY <1>1, <1>2

LEMMA ReleaseStep ==
  ASSUME CaseInv, AdvanceRelease PROVE CaseInv'
<1>1. CASE case = Start /\ case' = [of |-> "release", trail |-> <<"idea">>]
  <2>1. TrailInv(<<"idea">>)
    BY DEF TrailInv, Stages, Plan!AllowedNextStates, Settled
  <2>2. DOMAIN case' = {"of", "trail"} /\ case'.of = "release" /\ case'.trail = <<"idea">>
    BY <1>1
  <2> QED BY <2>1, <2>2 DEF CaseInv
<1>2. ASSUME case.of = "release", NEW json \in BOOLEAN, NEW to \in DOMAIN Plan!AllowedNextStates,
             Plan!DecideTransitionWasm(json, Last(case.trail), to),
             case' = [case EXCEPT !.trail = Append(@, to)]
      PROVE  CaseInv'
  <2>1. DOMAIN case = {"of", "trail"} /\ TrailInv(case.trail)
    BY <1>2 DEF CaseInv
  <2>2. DOMAIN case' = {"of", "trail"} /\ case'.of = "release" /\ case'.trail = Append(case.trail, to)
    BY <1>2, <2>1, Zenon
  <2>3. TrailInv(Append(case.trail, to))
    BY <1>2, <2>1, TrailGrows DEF Stages, Plan!DecideTransitionWasm
  <2> QED BY <2>2, <2>3 DEF CaseInv
<1> QED BY <1>1, <1>2 DEF AdvanceRelease

LEMMA ProcessStarts ==
  ASSUME NEW line, NEW world \in CommandWorlds PROVE ProcessInv(Cli!Process(line, world)) /\ Cli!Process(line, world).of = "process"
BY DEF ProcessInv, ProcessShape, Fields, Cli!Process

LEMMA CaseStep == CaseInv /\ [PackagesNext]_case => CaseInv'
<1> SUFFICES ASSUME CaseInv, [PackagesNext]_case PROVE CaseInv'
  OBVIOUS
<1>1. CASE ToOther
  BY <1>1 DEF CaseInv, ToOther
<1>2. CASE AdvanceRelease
  BY <1>2, ReleaseStep
<1>3. CASE RunLine
  <2>1. ProcessInv(case') /\ case'.of = "process"
    BY <1>3, ProcessStarts DEF RunLine
  <2> QED BY <2>1 DEF CaseInv, ProcessInv, ProcessShape, Fields
<1>4. CASE StepProcess
  <2>1. ProcessInv(case') /\ case'.of = "process"
    BY <1>4, ProcessGoesOn DEF StepProcess, CaseInv
  <2> QED BY <2>1 DEF CaseInv, ProcessInv, ProcessShape, Fields
<1>5. CASE UNCHANGED case
  BY <1>5 DEF CaseInv
<1>6. CASE PreviewPackage
  BY <1>6, PackageStarts
<1>7. CASE \/ OpenInstaller \/ InstallPackage \/ UpdatePackage \/ RememberRollback
           \/ PlanPackage \/ CarryOutPlan \/ CarryOutRollback \/ EditDisk
  BY <1>7, InstallerStep
<1> QED BY <1>1, <1>2, <1>3, <1>4, <1>5, <1>6, <1>7, OtherAlgorithms, OtherSources, OtherCommands
        DEF PackagesNext, ExtractionNext, SurfacesNext, CommandsNext, ProgramNext

LEMMA CasesAreInvariant == PackagesSpec => []CaseInv
<1>1. Init => CaseInv
  BY DEF Init, Start, CaseInv
<1> QED BY <1>1, CaseStep, PTL DEF PackagesSpec

\* In every behaviour a release is published once at most, and validated after
\* the last change of its source (DecideTransition, decide_transition in state.rs).
THEOREM ReleasesStaySound == PackagesSpec => []ReleasesAreSound(case)
<1>1. CaseInv => ReleasesAreSound(case)
  BY PublishedOnce DEF CaseInv
<1> QED BY <1>1, CasesAreInvariant, PTL

\* Every invocation of the command line ends as its exit code and its output say,
\* whatever line was typed and whatever the world answers (RunLocalCliProcess).
THEOREM ProcessesStayHonest == PackagesSpec => []ProcessesEndHonestly(case)
<1>1. CaseInv => ProcessesEndHonestly(case)
  BY DEF CaseInv, ProcessInv, Outcome, AsksNetwork, CommandOf, ProcessesEndHonestly
<1> QED BY <1>1, CasesAreInvariant, PTL

\* An installer's memory follows its calls, whatever comes of its work on the disk:
\* what fails is not remembered, and no rollback is lost or remembered twice
\* (Install, ApplyUpdate, Rollback, Recorded; installer.ts, executor.ts).
THEOREM MemoryAlwaysFollows == PackagesSpec => []MemoryFollowsCalls(case)
<1>1. CaseInv => MemoryFollowsCalls(case)
  <2>1. CASE case.of = "installer"
    BY <2>1, MemoryIsKept DEF CaseInv
  <2>2. CASE case.of # "installer"
    BY <2>2, Zenon DEF MemoryFollowsCalls
  <2> QED BY <2>1, <2>2
<1> QED BY <1>1, CasesAreInvariant, PTL

\* Nothing passes the last guard of a write or of a release that did not pass all
\* before it, for exactly what was asked (Guards; the layers of runInstallerPreview).
THEOREM GuardsAlwaysHold == PackagesSpec => []GuardsAreKept(case)
<1>1. CaseInv => GuardsAreKept(case)
  <2>1. CASE case.of = "package"
    BY <2>1, GuardsHold, Zenon DEF CaseInv
  <2>2. CASE case.of # "package"
    BY <2>2, Zenon DEF GuardsAreKept
  <2> QED BY <2>1, <2>2
<1> QED BY <1>1, CasesAreInvariant, PTL
=============================================================================
