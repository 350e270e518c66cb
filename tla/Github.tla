------------------------------- MODULE Github -------------------------------
(***************************************************************************)
(* The tasks that ask the GitHub API and the retries of f8a_worker/utils.py*)
(* under them: GithubTask, NewGithubTask and GitIssuesPRsTask.             *)
(*                                                                         *)
(* get_response and get_gh_contributors are tried three times by tenacity, *)
(* a search query four times, and the four queries of a period together    *)
(* twice.  When the attempts are used up tenacity raises its RetryError,   *)
(* which is no TaskError.  A reply is "ok", "empty" (a body without data), *)
(* "none" (404 or 204) or "error" (another status, or no reply).           *)
(***************************************************************************)
EXTENDS Integers

CONSTANTS Attempts,       (* of a single request: 3                         *)
          QueryAttempts,  (* of a search query: 4                           *)
          Rounds,         (* of the queries of a period: 2                  *)
          IssueTries      (* of get_response_issues: 10                     *)

ASSUME GithubAssumption == {Attempts, QueryAttempts, Rounds, IssueTries} \subseteq Nat \ {0}

Queries == 1..4           (* opened and closed, pull requests and issues    *)

VARIABLES ghTask,     (* which task runs                                    *)
          ghStage,    (* what it asks for                                   *)
          ghTry,      (* failed attempts at the present request             *)
          ghQuery,    (* the search query of the period at work             *)
          ghRound,    (* failed rounds of the period at work                *)
          ghFound,    (* what each stage left                               *)
          ghCounted,  (* the round that answered each query so far          *)
          ghRequests, (* requests sent                                      *)
          ghOutcome

ghVars == <<ghTask, ghStage, ghTry, ghQuery, ghRound, ghFound, ghCounted, ghRequests, ghOutcome>>

Stages  == {"repo", "contributors", "commits", "month", "year", "issue", "comments"}
Periods == {"month", "year"}

After(stage) == CASE stage = "repo"         -> "contributors"
                  [] stage = "contributors" -> "commits"
                  [] stage = "commits"      -> "month"
                  [] stage = "month"        -> "year"
                  [] stage = "issue"        -> "comments"
                  [] OTHER                  -> "end"

GithubInit == /\ ghTask \in {"GithubTask", "NewGithubTask", "GitIssuesPRsTask"}
              /\ ghStage = IF ghTask = "GitIssuesPRsTask" THEN "issue" ELSE "repo"
              /\ ghTry = 0 /\ ghQuery = 1 /\ ghRound = 0 /\ ghRequests = 0
              /\ ghFound = [s \in Stages |-> "unset"]
              /\ ghCounted = [q \in Queries |-> 0]
              /\ ghOutcome = "running"

Asking(stages) == ghOutcome = "running" /\ ghStage \in stages

StageFound(what) ==
    /\ ghFound' = [ghFound EXCEPT ![ghStage] = what]
    /\ ghStage' = After(ghStage)
    /\ ghOutcome' = IF After(ghStage) = "end" THEN "success" ELSE "running"
    /\ ghTry' = 0 /\ ghQuery' = 1 /\ ghRound' = 0

TaskFails == /\ ghOutcome' = "failed"
             /\ UNCHANGED <<ghStage, ghTry, ghQuery, ghRound, ghFound>>

(* A request is sent and, for a query, its round noted.                    *)
Sends == /\ ghRequests' = ghRequests + 1
         /\ ghCounted' = IF ghStage \in Periods THEN [ghCounted EXCEPT ![ghQuery] = ghRound]
                         ELSE ghCounted
         /\ UNCHANGED ghTask

(* The tasks catch NotABugTaskError around these calls, not the RetryError *)
(* that ends the attempts.                                                 *)
RequestError ==
    /\ Asking({"repo", "contributors", "commits"}) /\ Sends
    /\ IF ghTry + 1 < Attempts
       THEN ghTry' = ghTry + 1 /\ UNCHANGED <<ghStage, ghQuery, ghRound, ghFound, ghOutcome>>
       ELSE TaskFails

RequestReply(reply) ==
    /\ Asking({"repo", "contributors", "commits"}) /\ Sends
    /\ CASE reply = "ok" -> StageFound("value")
         [] reply \in {"none", "empty"} /\ ghStage = "repo" -> TaskFails
         [] OTHER -> StageFound("missing")

(* A repository without a contributors_url is not asked for them.          *)
NoContributors == /\ Asking({"contributors"})
                  /\ StageFound("missing")
                  /\ UNCHANGED <<ghTask, ghCounted, ghRequests>>

(* No GitHub project, or no package given: an "unknown" result.            *)
NotHosted == /\ Asking({"repo", "issue"}) /\ ghRequests = 0
             /\ ghOutcome' = "unknown"
             /\ UNCHANGED <<ghTask, ghStage, ghTry, ghQuery, ghRound, ghFound, ghCounted, ghRequests>>

QueryReply == /\ Asking(Periods) /\ Sends
              /\ IF ghQuery = 4 THEN StageFound("value")
                 ELSE /\ ghQuery' = ghQuery + 1 /\ ghTry' = 0
                      /\ UNCHANGED <<ghStage, ghRound, ghFound, ghOutcome>>

(* Variant: the next round goes on at the query that failed.               *)
QueryErrorResumes ==
    /\ Asking(Periods) /\ Sends
    /\ IF ghTry + 1 < QueryAttempts
       THEN ghTry' = ghTry + 1 /\ UNCHANGED <<ghStage, ghQuery, ghRound, ghFound, ghOutcome>>
       ELSE IF ghRound < Rounds
       THEN /\ ghRound' = ghRound + 1 /\ ghTry' = 0
            /\ UNCHANGED <<ghStage, ghQuery, ghFound, ghOutcome>>
       ELSE StageFound("gave up")

(* 404 and 204 are errors here.  A round that fails starts again at the    *)
(* first query; after the last round all four counts are -1.               *)
QueryError ==
    /\ Asking(Periods) /\ Sends
    /\ IF ghTry + 1 < QueryAttempts
       THEN ghTry' = ghTry + 1 /\ UNCHANGED <<ghStage, ghQuery, ghRound, ghFound, ghOutcome>>
       ELSE IF ghRound + 1 < Rounds
       THEN /\ ghRound' = ghRound + 1 /\ ghTry' = 0 /\ ghQuery' = 1
            /\ UNCHANGED <<ghStage, ghFound, ghOutcome>>
       ELSE StageFound("gave up")

(* get_response_issues: only an empty body is asked for again, an error is *)
(* raised at once; execute has no handler around the comments.             *)
IssueReply(reply) ==
    /\ Asking({"issue", "comments"}) /\ Sends
    /\ CASE reply = "ok" -> StageFound("value")
         [] reply = "empty" /\ ghTry + 1 < IssueTries ->
                ghTry' = ghTry + 1 /\ UNCHANGED <<ghStage, ghQuery, ghRound, ghFound, ghOutcome>>
         [] OTHER -> TaskFails

GithubNext == \/ RequestError \/ NoContributors \/ NotHosted \/ QueryReply \/ QueryError
              \/ \E reply \in {"ok", "empty", "none"} : RequestReply(reply)
              \/ \E reply \in {"ok", "empty", "none", "error"} : IssueReply(reply)

GithubSpec == GithubInit /\ [][GithubNext]_ghVars
-----------------------------------------------------------------------------
(* A result is stored only of a repository that was read: an API that      *)
(* keeps failing never passes for a repository without contributors or     *)
(* commits, only for unknown counts of a period.                           *)
FailureIsNotMissing ==
    ghOutcome = "success" =>
        /\ \A s \in {"repo", "issue"} : ghFound[s] \in {"unset", "value"}
        /\ \A s \in Stages \ Periods : ghFound[s] # "gave up"

(* The four counts of a period come from one round of queries.             *)
CountsOfOneRound ==
    ghOutcome = "running" /\ ghStage \in Periods =>
        \A q \in Queries : q < ghQuery => ghCounted[q] = ghRound

(* However the API fails, a task asks a bounded number of times.           *)
RequestsBounded ==
    ghRequests <= IF ghTask = "GitIssuesPRsTask" THEN 2 * IssueTries
                  ELSE 3 * Attempts + 2 * Rounds * 4 * QueryAttempts

(* An issue is stored only with a comment: the empty list of an issue that *)
(* has none is asked for until the task gives up.                          *)
StoredIssueHasComments ==
    ghTask = "GitIssuesPRsTask" /\ ghOutcome = "success" => ghFound["comments"] = "value"

(* What a GitHub task stores was read, whatever fails and is asked again.  *)
GithubResultIsRead ==
    /\ FailureIsNotMissing
    /\ CountsOfOneRound
    /\ RequestsBounded
    /\ StoredIssueHasComments
=============================================================================
