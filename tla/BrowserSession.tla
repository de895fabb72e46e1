--------------------------- MODULE BrowserSession ---------------------------
(***************************************************************************)
(* The session a browser shows (src/frontend/src/context/AuthContext.tsx), *)
(* in front of the rate limiter that all of /api/v1/auth is behind.        *)
(*                                                                         *)
(* A step is one task of the event loop: an effect, the continuation of a  *)
(* call, a click.  Several calls can be under way, of several effects; the *)
(* server's threads and the other clients of the address run in between.   *)
(* A page load, like a restart, loses every variable of the page.          *)
(***************************************************************************)
EXTENDS RateLimiter, FiniteSets

CONSTANTS
  Calls,      \* the requests this browser makes; the others are other clients'
  Protected,  \* paths under ProtectedRoute
  None

ASSUME CallsAssumption ==
  /\ Calls \subseteq Requests /\ None \notin Calls \cup {"clean"}
  /\ \A c, d \in Calls : KeyOf[c] = KeyOf[d]

Login == "/login"  \* stands for every public route
Paths == Protected \cup {Login}

VARIABLES
  path,        \* pathname of the last render
  settled,     \* the effect of that render has run
  redirected,  \* router.replace("/login") is not rendered yet
  user,        \* a user is set
  loading,
  checking,    \* checking.current
  current,     \* the call of the effect that is alive, or None
  kind,        \* of a call: "unused", "check", "logout" or "over"
  bears,       \* the call was sent with a valid access cookie
  session,     \* the browser holds a valid access cookie
  skipped,     \* history: the last effect found a check under way
  failed,      \* history: the last check of a live effect failed, but not with 401
  left         \* history: how the last sign-out ended, or None

page    == <<path, settled, redirected, user, loading, checking, current>>
history == <<skipped, failed, left>>
vars    == <<limiter, page, kind, bears, session, history>>

Init ==
  /\ LimiterInit
  /\ path \in Paths /\ settled = FALSE /\ redirected = FALSE
  /\ user = FALSE /\ loading = TRUE /\ checking = FALSE /\ current = None
  /\ kind = [c \in Calls |-> "unused"]
  /\ bears = [c \in Calls |-> FALSE]
  /\ session \in BOOLEAN
  /\ skipped = FALSE /\ failed = FALSE /\ left = None

-----------------------------------------------------------------------------
(* Calls. *)

Unused == {c \in Calls : kind[c] = "unused"}

\* fetch, with the cookies of this moment; the calls are used up in turn.
Send(what) ==
  LET c == CHOOSE c \in Unused : TRUE IN
  /\ Unused # {}
  /\ ReadClock(c)
  /\ kind' = [kind EXCEPT ![c] = what]
  /\ bears' = [bears EXCEPT ![c] = session]
  /\ current' = IF what = "check" THEN c ELSE current
  /\ UNCHANGED session

\* What c may be answered.  The limiter comes before authentication; a call may
\* fail on its way, and its request still be served.
Answers(c) ==
     {"error"}
  \cup {a \in {"ok"} : stage[c] = "admitted" /\ bears[c]}
  \cup {a \in {"401"} : stage[c] = "admitted" /\ ~bears[c]}

-----------------------------------------------------------------------------
(* The page. *)

\* Fault: an effect checks although a check is under way.
EffectChecksAgain ==
  /\ ~settled /\ settled' = TRUE
  /\ IF path = Login
       THEN /\ loading' = FALSE /\ current' = None
            /\ UNCHANGED <<checking, skipped, kind, bears, session, limiter>>
       ELSE /\ checking' = TRUE /\ loading' = TRUE /\ skipped' = FALSE
            /\ Send("check")
  /\ UNCHANGED <<path, redirected, user, failed, left>>

\* The effect of AuthProvider, after the cleanup of the one before.
Effect ==
  /\ ~settled /\ settled' = TRUE
  /\ \/ /\ path = Login
        /\ loading' = FALSE /\ current' = None
        /\ UNCHANGED <<checking, skipped, kind, bears, session, limiter>>
     \/ /\ path # Login /\ checking
        /\ current' = None /\ skipped' = TRUE
        /\ UNCHANGED <<checking, loading, kind, bears, session, limiter>>
     \/ /\ path # Login /\ ~checking
        /\ checking' = TRUE /\ loading' = TRUE /\ skipped' = FALSE
        /\ Send("check")
  /\ UNCHANGED <<path, redirected, user, failed, left>>

\* A render; React runs the effect of one before the next.
Render(p) ==
  /\ settled
  /\ path' = p /\ settled' = (p = path) /\ redirected' = FALSE
  /\ UNCHANGED <<user, loading, checking, current, kind, bears, session, history, limiter>>

\* The user follows a link.  There are as many calls as Calls has.
Navigate(p) == p # path /\ Unused # {} /\ Render(p)

Redirect == redirected /\ Render(Login)

\* Fault: an answer counts whether its effect is alive or not.
CheckedAnyway(c, answer) ==
  /\ kind[c] = "check" /\ answer \in Answers(c)
  /\ kind' = [kind EXCEPT ![c] = "over"]
  /\ checking' = FALSE
  /\ user' = (answer = "ok") /\ loading' = FALSE
  /\ redirected' = (redirected \/ answer = "401")
  /\ failed' = (answer = "error")
  /\ current' = None
  /\ UNCHANGED <<path, settled, bears, session, skipped, left, limiter>>

\* Fault: a check that fails leaves the page loading.
CheckedUnlessError(c, answer) ==
  /\ kind[c] = "check" /\ answer \in Answers(c)
  /\ kind' = [kind EXCEPT ![c] = "over"]
  /\ checking' = FALSE
  /\ user' = IF current = c THEN answer = "ok" ELSE user
  /\ loading' = IF current = c THEN answer = "error" ELSE loading
  /\ redirected' = (redirected \/ (current = c /\ answer = "401"))
  /\ failed' = IF current = c THEN answer = "error" ELSE failed
  /\ current' = IF current = c THEN None ELSE current
  /\ UNCHANGED <<path, settled, bears, session, skipped, left, limiter>>

\* Fault: a 401 is treated like any other failure.
CheckedQuietly(c, answer) ==
  /\ kind[c] = "check" /\ answer \in Answers(c)
  /\ kind' = [kind EXCEPT ![c] = "over"]
  /\ checking' = FALSE
  /\ IF current = c
       THEN /\ user' = (answer = "ok") /\ loading' = FALSE
            /\ failed' = (answer = "error")
            /\ current' = None
       ELSE UNCHANGED <<user, loading, failed, current>>
  /\ UNCHANGED <<path, settled, redirected, bears, session, skipped, left, limiter>>

\* The continuations of authApi.me in the effect.
Checked(c, answer) ==
  /\ kind[c] = "check" /\ answer \in Answers(c)
  /\ kind' = [kind EXCEPT ![c] = "over"]
  /\ checking' = FALSE
  /\ IF current = c
       THEN /\ user' = (answer = "ok") /\ loading' = FALSE
            /\ redirected' = (redirected \/ answer = "401")
            /\ failed' = (answer = "error")
            /\ current' = None
       ELSE UNCHANGED <<user, loading, redirected, failed, current>>
  /\ UNCHANGED <<path, settled, bears, session, skipped, left, limiter>>

\* Topbar offers it inside ProtectedRoute.
SignOut ==
  /\ settled /\ path # Login /\ user /\ ~loading
  /\ Send("logout")
  /\ UNCHANGED <<path, settled, redirected, user, loading, checking, history>>

\* The end of signOut.  Only a logout that succeeds deletes the cookies.
SignedOut(c, answer) ==
  /\ kind[c] = "logout" /\ answer \in Answers(c)
  /\ kind' = [kind EXCEPT ![c] = "over"]
  /\ session' = (session /\ answer # "ok")
  /\ user' = FALSE /\ redirected' = TRUE
  /\ left' = CASE session' -> "signed in"
               [] ~session' /\ current # None -> "while checking"
               [] OTHER -> "clean"
  /\ UNCHANGED <<path, settled, loading, checking, current, bears, skipped, failed, limiter>>

\* The page is loaded anew at p; calls under way are forgotten.
Load(p) ==
  /\ Unused # {}
  /\ path' = p /\ settled' = FALSE /\ redirected' = FALSE
  /\ user' = FALSE /\ loading' = TRUE /\ checking' = FALSE /\ current' = None
  /\ kind' = [c \in Calls |-> IF kind[c] = "unused" THEN "unused" ELSE "over"]
  /\ skipped' = FALSE /\ failed' = FALSE
  /\ UNCHANGED <<bears, limiter>>

Reload == Load(path) /\ UNCHANGED <<session, left>>

\* A login that succeeded; its hit at the limiter is one of the others'.
LogIn ==
  /\ settled /\ path = Login
  /\ \E p \in Protected : Load(p)
  /\ session' = TRUE /\ left' = None

\* The access cookie expires.
Expire ==
  /\ session /\ session' = FALSE
  /\ UNCHANGED <<limiter, page, kind, bears, history>>

-----------------------------------------------------------------------------
Browser == UNCHANGED <<page, kind, bears, session, history>>

Serve(r) == Enter(r) /\ Browser

Answer(c) == \E answer \in {"ok", "401", "error"} : Checked(c, answer) \/ SignedOut(c, answer)

Next ==
  \/ Tick /\ Browser
  \/ \E r \in Requests \ Calls : ReadClock(r) /\ Browser
  \/ \E r \in Requests : Serve(r)
  \/ Effect \/ Redirect \/ \E p \in Paths : Navigate(p)
  \/ \E c \in Calls : Answer(c)
  \/ SignOut \/ Reload \/ LogIn \/ Expire

Spec == Init /\ [][Next]_vars

\* React runs its effects, and a call is answered or fails.  The user, the clock
\* and the other clients owe nothing.
FairSpec ==
  /\ Spec
  /\ WF_vars(Effect)
  /\ \A c \in Calls : WF_vars(Answer(c))

-----------------------------------------------------------------------------
(* Properties. *)

\* Types of the state, and what the ref stands for: checking.current is set exactly
\* while a check of this page is under way, and there is one at most.
TypeOK ==
  /\ LimiterTypeOK
  /\ LET checks == {c \in Calls : kind[c] = "check"} IN
     Cardinality(checks) = (IF checking THEN 1 ELSE 0) /\ current \in checks \cup {None}
  /\ path \in Paths
  /\ {settled, redirected, user, loading, checking, session, skipped, failed} \subseteq BOOLEAN
  /\ kind \in [Calls -> {"unused", "check", "logout", "over"}]
  /\ bears \in [Calls -> BOOLEAN]
  /\ left \in {None, "clean", "while checking", "signed in"}

\* A user who has signed out stays signed out until the next login: no answer that
\* was under way and no new check shows the user again, unless the server refused
\* or lost the logout or a live check was under way when it ended
\* (AuthContext.tsx:46-48, 81-92).
SignOutHolds == left = "clean" => ~user

\* Every spinner ends: a page that loads stops loading, unless its effect found a
\* check of an earlier page under way and returned (AuthContext.tsx:41-61).
LoadingEnds == loading ~> (~loading \/ skipped)

\* Nobody is left on the blank page of ProtectedRoute for nothing: where there is
\* neither a user nor a redirect on its way, the check of this page was skipped, or it
\* failed with something else than 401 (AuthContext.tsx:49-58, ProtectedRoute.tsx:7-9).
BlankPageHasACause ==
  settled /\ path # Login /\ ~loading /\ ~user /\ ~redirected => failed \/ skipped
=============================================================================
