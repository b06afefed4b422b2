----------------------------- MODULE GitHubApi ------------------------------
(***************************************************************************)
(* The client of the GitHub API and the queries the commands make with it  *)
(* (crates/pop-common/src/api.rs, git.rs).  GitHub allows so many requests *)
(* in a window of time and says in the headers of every answer how many    *)
(* are left; the client, which sends one request at a time, remembers the  *)
(* last answer's headers.                                                  *)
(***************************************************************************)
EXTENDS Session

CONSTANT ApiLimit   \* requests in a window: 60 without a token

ASSUME ApiLimitAssumption == ApiLimit \in Nat \ {0}

VARIABLES window,      \* GitHub: what is left of the window, and how many requests it has answered
          rateLimits   \* the client: remaining, and whether reset lies ahead

apiVars == <<window, rateLimits>>

\* Others have used the window before, and ask from the same address.
ApiInit ==
    /\ window \in [left : 0 .. ApiLimit, answered : {0}, used : {0}]
    /\ rateLimits = [remaining |-> NULL, ahead |-> FALSE]

\* The window ends: the reset time that the client has heard of is past.
WindowResets ==
    /\ window.left = 0
    /\ window' = [window EXCEPT !.left = ApiLimit]
    /\ rateLimits' = [rateLimits EXCEPT !.ahead = FALSE]
    /\ UNCHANGED session

\* Prior evidence of being rate limited
Limited == rateLimits.remaining = 0 /\ rateLimits.ahead

\* The headers of an answer, when the window has `left` requests left after it
Headers(left) == [remaining |-> left, ahead |-> TRUE]

(***************************************************************************)
(* ApiClient::get.  Nothing is sent before the reset that an earlier       *)
(* answer has named.  An answer whose headers say that nothing remains is  *)
(* an error, and so is a status like 404; otherwise its body is the        *)
(* result.                                                                 *)
(***************************************************************************)
Get(found, Body, failed) ==
    \/ Limited /\ failed /\ UNCHANGED apiVars
    \/ ~Limited /\ failed /\ UNCHANGED apiVars         \* no connection
    \/ /\ ~Limited
       /\ window.left = 0                              \* 403
       /\ rateLimits' = Headers(0)
       /\ failed /\ UNCHANGED window
    \/ /\ ~Limited
       /\ window.left > 0
       /\ rateLimits' = Headers(window.left - 1)
       /\ LET used == found /\ window.left > 1
          IN /\ window' = [left |-> window.left - 1, answered |-> window.answered + (IF found THEN 1 ELSE 0),
                           used |-> window.used + (IF used THEN 1 ELSE 0)]
             /\ IF used THEN Body ELSE failed

-----------------------------------------------------------------------------
(* Releases of a repository, newest first: "pre" is a pre-release, "old"   *)
(* one that the template does not support.  A tag is a position.           *)

Published(releases) == SelectSeq([i \in DOMAIN releases |-> i], LAMBDA i : releases[i] # "pre")

\* GitHub::latest_release, which GitHub answers with 404 where there is none
LatestRelease(releases) == IF Published(releases) = <<>> THEN NULL ELSE Published(releases)[1]

\* releases(false), and truncate(3) of its caller
Latest3(releases) == SubSeq(Published(releases), 1, IF Len(Published(releases)) < 3 THEN Len(Published(releases)) ELSE 3)

-----------------------------------------------------------------------------
(* Not kept by the code. *)

(***************************************************************************)
(* The client does not throw away an answer that GitHub has counted: each  *)
(* request answered with what was asked for is used.                       *)
(***************************************************************************)
AnswersUsed == window # NULL => window.used = window.answered

=============================================================================
