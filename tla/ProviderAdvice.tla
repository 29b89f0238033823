--------------------------- MODULE ProviderAdvice ---------------------------
(***************************************************************************)
(* Calls of an advisor through one client of a provider, several at a time:*)
(* a request is projected and sent, a transient error is retried after a   *)
(* while (by GigaChat's client; the other leaves that to its SDK), the     *)
(* answer is judged, its labels become values again, and the proposal is   *)
(* validated against what was asked.                                       *)
(***************************************************************************)
EXTENDS AdvisorContract, TLC

CONSTANTS
    Calls,
    Clients,            \* "openai" and "gigachat"
    Tasks,              \* [kind, via, profile, spec]
    Assignments,        \* what the calls may be for: sets of call -> task
    Candidates,         \* of relationships: [id, fields]
    Edits(_),           \* what a provider may make of a specification
    Rankings,           \* and of candidates: sequences of [id, fields]
    MaxRetries,         \* the client's setting
    RetryLimit,         \* the most that a setting may be
    LongestDelay        \* in units of the first one

AssignmentsAssumption == Assignments \subseteq [Calls -> Tasks]
\* A call is for a data set's advice, or for a ranking.
TasksAssumption == \A t \in Tasks :
    /\ t.kind \in {"advise", "rank"} /\ t.via \in {"exchange", "direct"}
    /\ t.kind = "advise" => IsDataset(t.profile) /\ IsDataset(t.spec)
RetriesAssumption == RetryLimit \in Nat /\ MaxRetries \in 0..RetryLimit /\ LongestDelay \in Nat

VARIABLES
    client,
    task,               \* call -> task
    at,                 \* call -> where it is
    exchange,           \* call -> [asked, outer, given, inner]
    tries, waited,      \* call -> requests sent; time between them
    answer,             \* call -> [form, spec, ranks, binds]
    proposal,           \* call -> what was made of the answer
    meta,               \* call -> [call, status, usage]
    last,               \* the client's latest metadata
    outcome             \* call -> [accepted, meta]

vars == <<client, task, at, exchange, tries, waited, answer, proposal, meta, last, outcome>>

Errors == {"authentication", "permission", "rate", "timeout", "server", "other"}
Transient == {"rate", "timeout", "server"}

Delay(k) == IF 2 ^ k < LongestDelay THEN 2 ^ k ELSE LongestDelay
TotalDelay(n) == FoldFunction(LAMBDA x, y : x + y, 0, [k \in 0..(n - 1) |-> Delay(k)])

-----------------------------------------------------------------------------
(* What a call asks.                                                       *)

\* What is asked, the wrapper's projection of it (if the client is called
\* through the wrapper), what the client is given, and its own projection.
Telling(t) ==
    LET asked == Build(t.profile, t.spec, NothingKept(t.profile))
        outer == IF asked # None /\ t.via = "exchange" THEN Project("a", asked) ELSE None
        given == IF outer # None THEN outer.told ELSE asked
    IN  [asked |-> asked, outer |-> outer, given |-> given,
         inner |-> IF given # None THEN Project("p", given) ELSE None]

\* What a provider answers is parsed as a specification.
EditsAssumption == \A t \in {u \in Tasks : u.kind = "advise" /\ Telling(u).inner # None} :
    \A edited \in Edits(Telling(t).inner.told.spec) : IsDataset(edited)

\* None is no exchange and no specification.
NoneAssumption == \A t \in {u \in Tasks : u.kind = "advise" /\ Telling(u).asked # None} :
    LET e == Telling(t) IN
    /\ e.given # None /\ (t.via = "exchange" => e.outer # None) /\ e.inner # None
    /\ None \notin Edits(e.inner.told.spec) \cup {e.inner.told.spec, e.given.spec}

Asked(c) == exchange[c].asked
Outer(c) == exchange[c].outer
OfClient(c) == exchange[c].given
Inner(c) == exchange[c].inner

Init ==
    /\ client \in Clients
    /\ task \in {t \in Assignments : \A c \in Calls : t[c].kind = "rank" => client = "openai"}
    /\ at = [c \in Calls |-> "new"]
    /\ exchange = [c \in Calls |-> IF task[c].kind = "advise" THEN Telling(task[c]) ELSE None]
    /\ tries = [c \in Calls |-> 0]
    /\ waited = [c \in Calls |-> 0]
    /\ answer = [c \in Calls |-> None]
    /\ proposal = [c \in Calls |-> None]
    /\ meta = [c \in Calls |-> None]
    /\ last = None
    /\ outcome = [c \in Calls |-> None]

Goes(c, to) == at' = [at EXCEPT ![c] = to]

\* A request that cannot be told in labels is none; one that is too large is
\* not sent.
Send(c) ==
    /\ at[c] = "new"
    /\ UNCHANGED <<client, task, exchange, tries, waited, answer, proposal>>
    /\ IF task[c].kind = "advise" /\ Asked(c) = None
       THEN /\ Goes(c, "done")
            /\ outcome' = [outcome EXCEPT ![c] = [accepted |-> FALSE, meta |-> None]]
            /\ UNCHANGED <<meta, last>>
       ELSE \/ Goes(c, "sent") /\ UNCHANGED <<meta, last, outcome>>
            \/ /\ Goes(c, "judged")
               /\ meta' = [meta EXCEPT ![c] = [call |-> c, status |-> "preflight_rejected", usage |-> None]]
               /\ last' = meta'[c]
               /\ UNCHANGED outcome

Bare(form) == [form |-> form, spec |-> None, ranks |-> <<>>, binds |-> FALSE]

\* What the provider may answer, bound to the request or not: "unfit" is a proposal that is wrong in its
\* entities or constraints only.
Responses(c) ==
    {Bare(form) : form \in {"garbled", "cut", "filtered", "oversize"}} \cup
    (IF task[c].kind = "rank" THEN {[Bare("proposal") EXCEPT !.ranks = r] : r \in Rankings}
     ELSE {[Bare("unfit") EXCEPT !.binds = TRUE]} \cup
          {[Bare("proposal") EXCEPT !.spec = Inner(c).told.spec]} \cup
          {[Bare("proposal") EXCEPT !.spec = s, !.binds = TRUE] : s \in Edits(Inner(c).told.spec)})

Retried(e) == e \in Transient

Attempt(c) ==
    /\ at[c] = "sent"
    /\ tries' = [tries EXCEPT ![c] = @ + 1]
    /\ UNCHANGED <<client, task, exchange, waited, proposal, meta, last, outcome>>
    /\ \/ \E a \in Responses(c) : answer' = [answer EXCEPT ![c] = a] /\ Goes(c, "answered")
       \/ \E e \in Errors :
            /\ answer' = [answer EXCEPT ![c] = Bare(e)]
            /\ Goes(c, IF client = "gigachat" /\ tries[c] < MaxRetries /\ Retried(e) THEN "waiting" ELSE "failed")

Wait(c) ==
    /\ at[c] = "waiting"
    /\ waited' = [waited EXCEPT ![c] = @ + Delay(tries[c] - 1)]
    /\ answer' = [answer EXCEPT ![c] = None]
    /\ Goes(c, "sent")
    /\ UNCHANGED <<client, task, exchange, tries, proposal, meta, last, outcome>>

-----------------------------------------------------------------------------
(* Judging an answer.                                                      *)

\* GigaChat's client takes the request's own specification for one that is only
\* wrong in its entities or constraints.
Parsed(c) ==
    IF answer[c].form = "proposal" THEN answer[c].spec
    ELSE IF answer[c].form = "unfit" /\ client = "gigachat" THEN OfClient(c).spec ELSE None

Status(c) ==
    CASE answer[c].form = "cut" -> "incomplete"
      [] answer[c].form = "filtered" -> IF client = "gigachat" THEN "filtered" ELSE "incomplete"
      [] answer[c].form \in {"garbled", "oversize"} -> "invalid_response"
      [] task[c].kind = "rank" -> "completed"
      [] OTHER -> IF Parsed(c) = None THEN "invalid_response"
                  ELSE IF Restore(Parsed(c), Inner(c)) = None THEN "invalid_response" ELSE "completed"

StatusOf(e) ==
    IF client = "openai" THEN "provider_error"
    ELSE CASE e = "authentication" -> "authentication_error" [] e = "permission" -> "permission_denied"
           [] e = "rate" -> "rate_limited" [] e = "timeout" -> "timeout"
           [] e = "server" -> "unavailable" [] OTHER -> "provider_error"

\* Tokens are those of the response that the call ended with, by its number.
Usage(c) == {tries[c]}

Judge(c) ==
    LET status == IF at[c] = "failed" THEN StatusOf(answer[c].form) ELSE Status(c) IN
    /\ at[c] \in {"answered", "failed"}
    /\ meta' = [meta EXCEPT ![c] = [call |-> c, status |-> status,
                                    usage |-> IF at[c] = "failed" THEN None ELSE Usage(c)]]
    /\ last' = meta'[c]
    /\ proposal' = [proposal EXCEPT ![c] =
                        IF status # "completed" THEN None
                        ELSE IF task[c].kind = "rank" THEN answer[c].ranks ELSE Restore(Parsed(c), Inner(c))]
    /\ Goes(c, "judged")
    /\ UNCHANGED <<client, task, exchange, tries, waited, answer, outcome>>

\* Mutant: the metadata is the client's latest.
LastOfClient(c) == last

\* The metadata goes with the call.
Carried(c) == meta[c]

\* Labels of the wrapper become values; the proposal must be valid in both.
Accepts(c) ==
    /\ meta[c].status = "completed"
    /\ IF task[c].kind = "rank" THEN RankingIsBound(Candidates, proposal[c])
       ELSE /\ answer[c].binds
            /\ Valid(OfClient(c), proposal[c])
            /\ task[c].via = "exchange" =>
                Restore(proposal[c], Outer(c)) # None /\ Valid(Asked(c), Restore(proposal[c], Outer(c)))

Conclude(c) ==
    /\ at[c] = "judged"
    /\ outcome' = [outcome EXCEPT ![c] = [accepted |-> Accepts(c), meta |-> Carried(c)]]
    /\ proposal' = [proposal EXCEPT ![c] =
                        IF ~Accepts(c) THEN None
                        ELSE IF task[c].kind = "advise" /\ task[c].via = "exchange" THEN Restore(@, Outer(c)) ELSE @]
    /\ Goes(c, "done")
    /\ UNCHANGED <<client, task, exchange, tries, waited, answer, meta, last>>

Step(c) == Send(c) \/ Attempt(c) \/ Wait(c) \/ Judge(c) \/ Conclude(c)

Next == \E c \in Calls : Step(c)

Spec == Init /\ [][Next]_vars

-----------------------------------------------------------------------------

Advising(c) == task[c].kind = "advise" /\ Asked(c) # None

\* What is sent has a label in place of every value, and none is a value of
\* what the client was given, whichever of two projections went before; it has
\* neither semantic types that are not known nor other data of local use.
NothingLocalIsTold ==
    \A c \in Calls : at[c] = "sent" /\ Advising(c) =>
        LET told == Inner(c).told given == OfClient(c) IN
        \A d \in {told.profile, told.spec} :
            /\ \A v \in AllValues(d) : IsLabel(v, {"p"})
            /\ AllValues(d) \cap (AllValues(given.profile) \cup AllValues(given.spec)) = {}
            /\ d.settings.locale = None /\ \A k \in ToSet(d.constraints) : k.local = None
            /\ \A f \in DOMAIN d.fields : d.fields[f].local = None
                    /\ d.fields[f].semantic \in SensitiveTypes \cup {None}

\* An accepted proposal is the request's specification if the provider returned
\* what it was told; in any case it has the local data and all the settings that
\* the provider never saw, no value of a field that the profile marks, and no
\* label that was told unless it is a value of the request itself.
AdviceIsRestored ==
    \A c \in Calls : at[c] = "done" /\ Advising(c) /\ outcome[c].accepted =>
        LET spec == proposal[c] was == Asked(c).spec marked == Asked(c).profile IN
        /\ answer[c].spec = Inner(c).told.spec => spec = was
        /\ spec.settings = was.settings /\ DOMAIN spec.fields = DOMAIN was.fields
        /\ \A f \in DOMAIN was.fields :
            /\ was.fields[f].local # None => spec.fields[f].local = was.fields[f].local
            /\ was.fields[f].semantic \notin SensitiveTypes \cup {None} =>
                spec.fields[f].semantic = was.fields[f].semantic
            /\ marked.fields[f].sensitive => spec.fields[f].sensitive /\ spec.fields[f].categories = <<>>
            /\ CategoriesIn(spec, f) \cap CategoriesIn(Inner(c).told.spec, f)
                  \subseteq CategoriesIn(marked, f) \cup CategoriesIn(was, f)

\* No value looks like a label of a request, no category of the profile is listed
\* twice, and the profile asks for values that it has.
Plain(t) ==
    /\ \A v \in AllValues(t.profile) \cup AllValues(t.spec) : ~IsLabel(v, {"a"})
    /\ \A f \in DOMAIN t.profile.fields : IsInjective(t.profile.fields[f].categories)
    /\ \A k \in Conditions(t.profile) : k.equals \in CategoriesIn(t.profile, k.on)

\* A request can be made again of the same profile and of its own specification,
\* and tells the same of both.
VerificationFits ==
    \A c \in Calls : at[c] = "sent" /\ Advising(c) /\ Plain(task[c]) =>
        Rebuild(task[c].profile, Asked(c)) = Asked(c)

\* What a call is told of its run is of its own run: of the response it ended
\* with, however calls overlap on a client; a call sends no request more than
\* its retries allow, and waits no longer than the longest run has waits for.
RunsAreTold ==
    \A c \in Calls :
        /\ tries[c] <= MaxRetries + 1 /\ waited[c] <= TotalDelay(RetryLimit)
        /\ outcome[c] # None /\ outcome[c].meta # None =>
            LET m == outcome[c].meta IN
            /\ m.call = c
            /\ m.usage = IF tries[c] = 0 \/ answer[c].form \in Errors THEN None ELSE {tries[c]}
=============================================================================
