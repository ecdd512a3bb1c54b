------------------------------- MODULE SignIn -------------------------------
(* One browser, signed in or not, in several tabs that share its cookies: the *)
(* signed session cookie (auth/session.py), the double-submit CSRF cookie     *)
(* (auth/csrf.py), the pages that ask for a user (auth/dependencies.py,       *)
(* auth/identity.py), login, logout and the second factor (auth/views.py,     *)
(* views/totp.py), the password form (views/profile.py), and the redirects    *)
(* between them.  The account also changes elsewhere.                         *)
(*                                                                            *)
(* A request is one step: the session is a token the server signs and does    *)
(* not store, so all that two requests share is the account and the browser's *)
(* cookies.  Only a login is two, because what it found out may be overtaken  *)
(* before it answers.  Ages are counted in ticks, up to one past the lifetime. *)
EXTENDS Naturals

CONSTANTS Tabs,
          SessionTtl,   \* session_ttl
          CsrfMaxAge,   \* CSRF_TOKEN_MAX_AGE
          MfaTtl,       \* _mfa_ttl
          MaxPosts,     \* bound: forms posted and changes made elsewhere
          Absent

\* Lifetimes are whole numbers of ticks; Absent is no cookie, token or session.
ASSUME LifetimeAssumption ==
    /\ SessionTtl \in Nat /\ CsrfMaxAge \in Nat /\ MfaTtl \in Nat
    /\ Absent \notin Nat
    /\ Absent \notin [age : Nat, old : BOOLEAN]
    /\ Absent \notin [age : Nat, stale : BOOLEAN, old : BOOLEAN, untold : BOOLEAN]

Guarded == {"home", "password"}     \* pages behind get_current_admin_user
Urls == Guarded \cup {"login", "verify", "denied"}

VARIABLES
    session,    \* the admin_session cookie
    csrf,       \* the age of the token in the admin_csrf_token cookie, or Absent
    slow,       \* history: an answer put that token back in place of a younger one
    tab,        \* what each tab shows or is sent to
    user,       \* the account
    posts

signInVars == <<session, csrf, slow, tab, user, posts>>

\* stale: the password was changed after the session was issued.
\* old: it was signed in with a password since replaced.
\* untold: it was replaced between its check and the session, or by a command
\* that leaves password_changed_at alone.
Sessions == [age : 0 .. SessionTtl + 1, stale : BOOLEAN, old : BOOLEAN,
             untold : BOOLEAN]
\* A password found right: by the login being answered, then in the token
\* for the second factor in the address of the verification page.
Pendings == [age : 0 .. MfaTtl + 1, old : BOOLEAN]

MaxHops == 6
TabStates == [at : {"page", "redirect", "waiting"}, url : Urls,
              form : 0 .. CsrfMaxAge + 1 \cup {Absent}, pending : Pendings \cup {Absent},
              next : Guarded, hops : 0 .. MaxHops]

Blank == [at |-> "page", url |-> "denied", form |-> Absent, pending |-> Absent,
          next |-> "home", hops |-> 0]

SignInInit ==
    /\ session = Absent /\ csrf = Absent /\ slow = FALSE
    /\ tab = [t \in Tabs |-> Blank]
    /\ user \in [active : {TRUE}, totp : BOOLEAN]
    /\ posts = 0

-----------------------------------------------------------------------------
(* What a request is judged by.                                               *)

\* Mutant: the age of the cookie is not looked at.
DecodedForEver(s) == s # Absent

\* SignedCookieSessionBackend.decode.
Decoded(s) == s # Absent /\ s.age <= SessionTtl

\* resolve_user finds the active user the cookie names.
Known(s) == Decoded(s) /\ user.active

\* Mutant: the time of the password is not looked at.
AcceptedIfKnown(s) == Known(s)

\* get_current_admin_user also wants the session younger than the password.
Accepted(s) == Known(s) /\ ~s.stale

ValidCsrf(age) == age # Absent /\ age <= CsrfMaxAge

\* CSRFMiddleware: a token still good is kept, else one is minted.
Minted == IF ValidCsrf(csrf) THEN csrf ELSE 0

\* Mutant: the cookie is set only where there is none.
CookieOnce == IF csrf = Absent THEN 0 ELSE csrf

\* Its cookie is the last the response sets, after any the route deletes.
CookieAfter == Minted

SetCookie == csrf' = CookieAfter /\ slow' = (slow /\ ValidCsrf(csrf))

\* validate_csrf_token: the form's token and the cookie's, each for itself.
CsrfPasses(form) == ValidCsrf(form) /\ ValidCsrf(csrf)

-----------------------------------------------------------------------------
(* What the tab gets.                                                         *)

Page(t, url) ==
    [at |-> "page", url |-> url, form |-> Minted, pending |-> tab[t].pending,
     next |-> tab[t].next, hops |-> 0]

\* hops: the redirects since something other than a redirect happened.
NextHop(t) ==
    IF tab[t].at = "redirect" /\ tab[t].hops < MaxHops THEN tab[t].hops + 1
    ELSE IF tab[t].at = "page" THEN 1 ELSE tab[t].hops

SentTo(t, url, next, pending) ==
    [at |-> "redirect", url |-> url, form |-> Absent, pending |-> pending,
     next |-> next, hops |-> NextHop(t)]

Redirect(t, url, next) == SentTo(t, url, next, tab[t].pending)

\* forbidden_handler: the 403 page, or the login form for a browser without
\* a session.
Forbidden(t) ==
    IF Decoded(session) THEN Page(t, "denied")
    ELSE Redirect(t, "login", "home")

\* Everything else that happens starts the count of redirects anew.
Others(t, answer) ==
    [u \in Tabs |-> IF u = t THEN answer ELSE [tab[u] EXCEPT !.hops = 0]]

-----------------------------------------------------------------------------
(* Pages.                                                                     *)

\* A page that asks for the user: 401 becomes a redirect to the login page
\* with the way back (auth_redirect_handler).
GuardedAnswer(t, url) ==
    IF Accepted(session) THEN Page(t, url) ELSE Redirect(t, "login", url)

Visit(t) ==
    /\ tab[t].at = "page"
    /\ \E url \in Guarded : tab' = Others(t, GuardedAnswer(t, url))
    /\ SetCookie
    /\ UNCHANGED <<session, user, posts>>

\* login_get deletes a cookie that names nobody.
Deletes(t) == tab[t].url = "login" /\ Decoded(session) /\ ~Known(session)

\* login_get: somebody known goes on; after a deletion the page is asked for
\* again; else the form.
LoginAnswer(t) ==
    IF Known(session) THEN Redirect(t, tab[t].next, "home")
    ELSE IF Decoded(session) THEN Redirect(t, "login", tab[t].next)
    ELSE Page(t, "login")

\* The browser follows a redirect.
Follow(t) ==
    /\ tab[t].at = "redirect"
    /\ tab' = [tab EXCEPT ![t] =
         CASE tab[t].url = "login" -> LoginAnswer(t)
           [] tab[t].url = "verify" -> Page(t, "verify")
           [] OTHER -> GuardedAnswer(t, tab[t].url)]
    /\ session' = IF Deletes(t) THEN Absent ELSE session
    /\ SetCookie
    /\ UNCHANGED <<user, posts>>

-----------------------------------------------------------------------------
(* Forms.                                                                     *)

\* The dependencies of a form's route: its page in a tab, and the token.
Post(t, url) ==
    /\ posts < MaxPosts /\ posts' = posts + 1
    /\ tab[t].at = "page" /\ tab[t].url = url

Refused(t, url) ==
    /\ Post(t, url)
    /\ url = "password" => Accepted(session)
    /\ ~CsrfPasses(tab[t].form)
    /\ SetCookie
    /\ tab' = Others(t, Forbidden(t))
    /\ UNCHANGED <<session, user>>

NewSession(old) == [age |-> 0, stale |-> FALSE, old |-> old, untold |-> old]

\* The password was found right; the form's cookie is as the request has it.
Waiting(t) ==
    [at |-> "waiting", url |-> tab[t].url, form |-> Minted,
     pending |-> [age |-> 0, old |-> FALSE], next |-> tab[t].next, hops |-> tab[t].hops]

\* login_post: refused by the limiter (429), a failure, or the right password
\* of a user that authenticate finds active.
Login(t) ==
    /\ Post(t, "login") /\ CsrfPasses(tab[t].form)
    /\ UNCHANGED <<session, user>>
    /\ \/ /\ \E url \in {"denied", "login"} : tab' = Others(t, Page(t, url))
          /\ SetCookie
       \/ /\ user.active
          /\ tab' = Others(t, Waiting(t))
          /\ UNCHANGED <<csrf, slow>>

\* The login goes on to the pending second factor or a session.  The token
\* of the CSRF cookie is the one its request came with.
AnswerLogin(t) ==
    LET p == tab[t].pending IN
    /\ tab[t].at = "waiting"
    /\ csrf' = tab[t].form /\ slow' = (slow \/ csrf # tab[t].form)
    /\ IF user.totp
       THEN /\ tab' = Others(t, SentTo(t, "verify", "home", [age |-> 0, old |-> p.old]))
            /\ UNCHANGED session
       ELSE /\ tab' = Others(t, SentTo(t, "home", "home", Absent))
            /\ session' = NewSession(p.old)
    /\ UNCHANGED <<user, posts>>

\* decode_pending_2fa.
PendingHolds(p) == p # Absent /\ p.age <= MfaTtl

\* totp_verify_post: the login starts over, the page again, or a session.
Verify(t) ==
    LET p == tab[t].pending IN
    /\ Post(t, "verify") /\ CsrfPasses(tab[t].form)
    /\ SetCookie
    /\ \/ /\ ~PendingHolds(p) \/ ~user.active
          /\ tab' = Others(t, Redirect(t, "login", "home"))
          /\ UNCHANGED session
       \/ /\ PendingHolds(p) /\ user.active
          /\ tab' = Others(t, Page(t, "verify"))
          /\ UNCHANGED session
       \/ /\ PendingHolds(p) /\ user.active /\ user.totp
          /\ tab' = Others(t, Redirect(t, "home", "home"))
          /\ session' = NewSession(p.old)
    /\ UNCHANGED user

\* What was issued for the old password.
Aged(s) ==
    IF s = Absent THEN Absent
    ELSE [age |-> s.age, stale |-> TRUE, old |-> TRUE, untold |-> s.untold]
PendingsAged(tabs) ==
    [u \in Tabs |-> IF tabs[u].pending = Absent THEN tabs[u]
                    ELSE [tabs[u] EXCEPT !.pending.old = TRUE]]

\* password_change_post: not signed in, a mistake in the form, or the change.
ChangePassword(t) ==
    /\ Post(t, "password")
    /\ SetCookie
    /\ \/ /\ ~Accepted(session)
          /\ tab' = Others(t, Redirect(t, "login", "password"))
          /\ UNCHANGED session
       \/ /\ Accepted(session) /\ CsrfPasses(tab[t].form)
          /\ tab' = Others(t, Page(t, "password"))
          /\ UNCHANGED session
       \/ /\ Accepted(session) /\ CsrfPasses(tab[t].form)
          /\ tab' = PendingsAged(Others(t, Redirect(t, "login", "home")))
          /\ session' = Absent       \* it deletes the cookie
    /\ UNCHANGED user

\* logout_post, from the menu of any page.
Logout(t) ==
    /\ \E url \in Guarded : Post(t, url)
    /\ CsrfPasses(tab[t].form)
    /\ SetCookie
    /\ tab' = Others(t, Redirect(t, "login", "home"))
    /\ session' = Absent
    /\ UNCHANGED user

Submit(t) ==
    \/ Login(t) \/ Verify(t) \/ ChangePassword(t) \/ Logout(t)
    \/ \E url \in {"login", "verify", "password"} : Refused(t, url)

-----------------------------------------------------------------------------
(* Elsewhere.                                                                 *)

Quiet == [u \in Tabs |-> [tab[u] EXCEPT !.hops = 0]]

\* The password is changed by another browser.
PasswordElsewhere ==
    /\ posts < MaxPosts /\ posts' = posts + 1
    /\ session' = Aged(session)
    /\ tab' = PendingsAged(Quiet)
    /\ UNCHANGED <<csrf, slow, user>>

\* The changepassword command sets the password and nothing else.
PasswordByCommand ==
    /\ posts < MaxPosts /\ posts' = posts + 1
    /\ session' = IF session = Absent THEN Absent
                  ELSE [age |-> session.age, stale |-> session.stale,
                        old |-> TRUE, untold |-> TRUE]
    /\ tab' = PendingsAged(Quiet)
    /\ UNCHANGED <<csrf, slow, user>>

\* An administrator switches the account, or the user the second factor.
AccountElsewhere ==
    /\ posts < MaxPosts /\ posts' = posts + 1
    /\ \/ user' = [user EXCEPT !.active = ~@]
       \/ user' = [user EXCEPT !.totp = ~@]
    /\ tab' = Quiet
    /\ UNCHANGED <<session, csrf, slow>>

Older(age, limit) == IF age > limit THEN age ELSE age + 1
OlderCsrf(age) == IF age = Absent THEN Absent ELSE Older(age, CsrfMaxAge)
OlderPending(p) == IF p = Absent THEN Absent ELSE [p EXCEPT !.age = Older(@, MfaTtl)]

Tick ==
    /\ session' = IF session = Absent THEN Absent
                  ELSE [session EXCEPT !.age = Older(@, SessionTtl)]
    /\ csrf' = OlderCsrf(csrf)
    /\ tab' = [u \in Tabs |->
         [at |-> tab[u].at, url |-> tab[u].url, form |-> OlderCsrf(tab[u].form),
          pending |-> OlderPending(tab[u].pending), next |-> tab[u].next, hops |-> 0]]
    /\ UNCHANGED <<slow, user, posts>>

SignInNext ==
    \/ \E t \in Tabs : Visit(t) \/ Follow(t) \/ Submit(t) \/ AnswerLogin(t)
    \/ PasswordElsewhere \/ PasswordByCommand \/ AccountElsewhere \/ Tick

SignInSpec == SignInInit /\ [][SignInNext]_signInVars

\* A browser follows the redirects it is given, a login is answered, and time
\* passes.
Fairness ==
    /\ \A t \in Tabs : WF_signInVars(Follow(t)) /\ WF_signInVars(AnswerLogin(t))
    /\ WF_signInVars(Tick)

-----------------------------------------------------------------------------
(* Properties.                                                                *)

SignInTypeOK ==
    /\ session \in Sessions \cup {Absent}
    /\ csrf \in 0 .. CsrfMaxAge + 1 \cup {Absent} /\ slow \in BOOLEAN
    /\ tab \in [Tabs -> TabStates]
    /\ user \in [active : BOOLEAN, totp : BOOLEAN]

\* A form is refused for its token only when the hour of that token is over:
\* whatever the other tabs do, sign out, fail, or load pages, the cookie
\* stays at least as young as the token in any form, unless the answer to a
\* slow login puts the token it came with back in place of a younger one.
FormsKeepTheirHour ==
    \A t \in Tabs : ValidCsrf(tab[t].form) => CsrfPasses(tab[t].form) \/ slow

\* A password that was replaced opens no page, but for the session of a login
\* that had checked it before: a login in service, or one that waits for its
\* second factor (verify-2fa asks for the pending token and the user, not for
\* the time of the password); and for any session when the command line, which
\* leaves the time of the password alone, replaced it.
OldPasswordNeedsLateLogin ==
    [][\A t \in Tabs :
         /\ Visit(t) \/ Follow(t) \/ ChangePassword(t)
         /\ tab'[t].at = "page" /\ tab'[t].url \in Guarded
         => session # Absent /\ (session.old => session.untold)]_signInVars

\* The login page and the others send a browser to each other for ever only
\* when the password was changed elsewhere after its session was issued:
\* login_get looks for the user, get_current_admin_user also at the password.
LoopsNeedPasswordChange ==
    \A t \in Tabs : tab[t].hops > 3 => session # Absent /\ session.stale

\* What the tabs of a browser can rely on, taken together.
TabsHold == SignInTypeOK /\ FormsKeepTheirHour /\ LoopsNeedPasswordChange

\* Every chain of redirects ends at a page, that one when the session expires.
RedirectsEnd ==
    \A t \in Tabs : tab[t].at = "redirect" ~> tab[t].at = "page"

=============================================================================
