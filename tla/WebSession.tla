------------------------------ MODULE WebSession ------------------------------
(***************************************************************************)
(* Who a browser is signed in as: the tabs of the web application           *)
(* (lib/auth.tsx, lib/api.ts, app/layout.tsx), which share the cookie jar    *)
(* and the local storage but each keep a token in memory, against the        *)
(* requests of auth.controller.ts and auth.service.ts.  A request that is    *)
(* answered 401 refreshes the session and is sent once more.  What the API   *)
(* does of a rotation statement by statement is Accounts'; here a handler is *)
(* one step, and its answer arrives later or never.                         *)
(***************************************************************************)
EXTENDS Integers, Sequences

CONSTANTS
  Tabs,         \* tabs of one browser
  MaxAsked,     \* requests of the tabs (bound)
  People,       \* accounts that there may be
  LocalOwner,   \* the one of ensureLocalOwner
  MaxIssued,    \* refresh tokens ever made (bound)
  Nobody        \* no account

ASSUME WebSessionAssumption ==
  /\ LocalOwner \in People /\ Nobody \notin People /\ {MaxAsked, MaxIssued} \subseteq Nat

VARIABLES
  onDesktop,    \* isDesktop(), and the API allows local sessions
  cookieDomain, \* COOKIE_DOMAIN is set: the cookie is set with it and cleared without it
  people,  \* accounts
  issued,  \* issued[r]: refresh token r, and whether the access token that came with it is valid
  inactive, \* accounts whose status is not ACTIVE
  ended,   \* tokens of accounts whose session expired or was revoked by a reset since
  jar,     \* the refresh token in the cookie, or 0
  saved,   \* the access token in the local storage, by its refresh token, or 0
  tab,     \* tab[b]: accessToken of api.ts, and the user, loading and retry of the application
  ask,     \* ask[v]: a request and its handler in the tab
  left,    \* the last of them that ended a session or began one ended it
  crossed  \* two requests about the session overlapped or one was lost, or a tab
           \* changed it under another

deployVars == <<onDesktop, cookieDomain>>
outsideVars == <<inactive, ended>>
serverVars == <<deployVars, outsideVars, people, issued>>
browserVars == <<jar, saved, tab>>
sessionVars == <<serverVars, browserVars, ask, left, crossed>>

Closed == [token |-> 0, user |-> Nobody, loading |-> TRUE, retry |-> FALSE]
Visits == 1 .. MaxAsked
NoAsk == [pc |-> "new", tab |-> "none", kind |-> "none", who |-> Nobody,
          token |-> 0, retry |-> TRUE, result |-> "none"]

WebSessionInit ==
  /\ onDesktop \in BOOLEAN /\ cookieDomain \in BOOLEAN
  /\ people = {} /\ inactive = {} /\ issued = << >> /\ ended = {} /\ jar = 0 /\ saved = 0
  /\ tab = [b \in Tabs |-> Closed]
  /\ ask = [v \in Visits |-> NoAsk]
  /\ left = FALSE /\ crossed = FALSE

-----------------------------------------------------------------------------
(* Tokens *)

Known(r) == r \in 1 .. Len(issued) /\ issued[r].user \in people
Live(r) == Known(r) /\ ~issued[r].revoked
Valid(r) == r \in 1 .. Len(issued) /\ issued[r].fresh
FamilyOf(r) == {s \in 1 .. Len(issued) : issued[s].family = issued[r].family}
TokensOf(u) == {r \in 1 .. Len(issued) : issued[r].user = u}
\* getToken: what is in memory, and else what is stored.
Token(b) == IF tab[b].token # 0 THEN tab[b].token ELSE saved

Issue(u, f) ==
  /\ Len(issued) < MaxIssued
  /\ issued' = Append(issued, [user |-> u, family |-> f, revoked |-> FALSE, fresh |-> TRUE])
NewFamily == Len(issued) + 1
Revoked(rs) == [r \in DOMAIN issued |-> [issued[r] EXCEPT !.revoked = @ \/ r \in rs]]
Cleared == IF cookieDomain THEN jar ELSE 0

\* The access token that came with r is too old.
AccessExpires(r) ==
  /\ Valid(r) /\ issued' = [issued EXCEPT ![r].fresh = FALSE]
  /\ UNCHANGED <<deployVars, outsideVars, people, browserVars, ask, left, crossed>>

\* resetPassword, from wherever the mail is read: it revokes every refresh token of the account.
ResetPassword(u) ==
  /\ \E r \in TokensOf(u) : Live(r)
  /\ issued' = Revoked(TokensOf(u)) /\ ended' = ended \cup TokensOf(u)
  /\ UNCHANGED <<deployVars, people, inactive, browserVars, ask, left, crossed>>
\* Nothing of the repository writes the status of an account: an operator does, in the database.
Deactivate(u) ==
  /\ u \in people \ inactive /\ inactive' = inactive \cup {u}
  /\ UNCHANGED <<deployVars, people, issued, ended, browserVars, ask, left, crossed>>

-----------------------------------------------------------------------------
(* Requests *)

Session == {"login", "register", "logout", "delete"}
\* About the session: its cookie is sent, and may be changed by the answer.
OfSession(a) ==
  \/ a.pc \in {"refreshing", "refreshed", "claiming", "claimed"}
  \/ (a.kind \in Session /\ a.pc \in {"sent", "answered"})
Cross(v) == \E w \in Visits \ {v} : OfSession(ask[w])
CrossTab(b) == \E w \in Visits : ask[w].tab # b /\ OfSession(ask[w])
Busy(c) == \E w \in Visits : ask[w].tab = c /\ ask[w].pc \notin {"new", "over"}
UnderTab(b) == \E c \in Tabs \ {b} : tab[c] # Closed \/ Busy(c)
AskTo(v, pc, token, result) ==
  ask' = [ask EXCEPT ![v].pc = pc, ![v].token = token, ![v].result = result]

\* The tab of v sends a request: with its token, or with the cookie.
Begin(v, b, kind, who) ==
  /\ ask[v].pc = "new" /\ \A w \in 1 .. v - 1 : ask[w].pc # "new"
  /\ ask' = [ask EXCEPT ![v] = [pc |-> "sent", tab |-> b, kind |-> kind, who |-> who, retry |-> TRUE,
                                token |-> IF kind = "logout" THEN jar ELSE Token(b), result |-> "none"]]
  /\ crossed' = (crossed \/ CrossTab(b) \/ (kind \in Session /\ (Cross(v) \/ UnderTab(b))))
  /\ tab' = [tab EXCEPT ![b].token = Token(b), ![b].retry = FALSE]
  /\ UNCHANGED <<serverVars, jar, saved, left>>
\* A tab is opened, or reloaded; nothing of it is under way.
Mount(v, b) ==
  /\ tab[b] = Closed /\ \A w \in Visits : ask[w].tab = b => ask[w].pc = "over"
  /\ Begin(v, b, "mount", Nobody)
Reload(b) ==
  /\ ~tab[b].loading /\ \A w \in Visits : ask[w].tab = b => ask[w].pc = "over"
  /\ tab' = [tab EXCEPT ![b] = Closed]
  /\ UNCHANGED <<serverVars, jar, saved, ask, left, crossed>>
\* The layout of a desktop asks again, once each time that the provider was rendered.
WhoIsIt(v, b) == onDesktop /\ tab[b].retry /\ Begin(v, b, "resolve", Nobody)
Work(v, b) == tab[b].user # Nobody /\ Begin(v, b, "work", Nobody)
SignIn(v, b, kind, who) ==
  ~onDesktop /\ ~tab[b].loading /\ kind \in {"login", "register"} /\ Begin(v, b, kind, who)
SignOut(v, b) == tab[b].user # Nobody /\ Begin(v, b, "logout", Nobody)
DeleteAccount(v, b) == tab[b].user # Nobody /\ Begin(v, b, "delete", Nobody)

\* The guard of the requests that are not public.
Authorized(v) == Valid(ask[v].token) \/ ask[v].kind \in {"login", "register", "logout"}
Unauthorized(v) ==
  /\ ask[v].pc = "sent" /\ ~Authorized(v) /\ AskTo(v, "answered", 0, "401")
  /\ UNCHANGED <<serverVars, browserVars, left, crossed>>
ServeMe(v) ==
  /\ ask[v].pc = "sent" /\ ask[v].kind \in {"mount", "resolve", "work"} /\ Authorized(v)
  /\ AskTo(v, "answered", ask[v].token, IF Known(ask[v].token) THEN "ok" ELSE "error")
  /\ UNCHANGED <<serverVars, browserVars, left, crossed>>
\* validateCredentials and issueSession; `right` is whether the password is.
ServeLogin(v, right) ==
  /\ ask[v].pc = "sent" /\ ask[v].kind = "login"
  /\ IF right /\ ask[v].who \in people \ inactive
     THEN Issue(ask[v].who, NewFamily) /\ AskTo(v, "answered", Len(issued) + 1, "ok")
     ELSE /\ AskTo(v, "answered", 0, IF right /\ ask[v].who \in people THEN "error" ELSE "401")
          /\ UNCHANGED issued
  /\ UNCHANGED <<deployVars, outsideVars, people, browserVars, left, crossed>>
ServeRegister(v) ==
  /\ ask[v].pc = "sent" /\ ask[v].kind = "register"
  /\ IF ask[v].who \notin people
     THEN /\ Issue(ask[v].who, NewFamily) /\ people' = people \cup {ask[v].who}
          /\ AskTo(v, "answered", Len(issued) + 1, "ok")
     ELSE AskTo(v, "answered", 0, "error") /\ UNCHANGED <<people, issued>>
  /\ UNCHANGED <<deployVars, outsideVars, browserVars, left, crossed>>
\* Broken variant (mutation check): the row of the token is left as it is.
ServeLogoutForgets(v) ==
  /\ ask[v].pc = "sent" /\ ask[v].kind = "logout"
  /\ AskTo(v, "answered", 0, "ok")
  /\ UNCHANGED <<serverVars, browserVars, left, crossed>>
ServeLogout(v) ==
  /\ ask[v].pc = "sent" /\ ask[v].kind = "logout"
  /\ issued' = IF Known(ask[v].token) THEN Revoked(FamilyOf(ask[v].token)) ELSE issued
  /\ AskTo(v, "answered", 0, "ok")
  /\ UNCHANGED <<deployVars, outsideVars, people, browserVars, left, crossed>>
\* With the account go its refresh tokens: who registers again is somebody else.
Disowned(u) == [r \in DOMAIN issued |-> [issued[r] EXCEPT !.user = IF @ = u THEN Nobody ELSE @]]
ServeDelete(v, right) ==
  /\ ask[v].pc = "sent" /\ ask[v].kind = "delete" /\ Authorized(v)
  /\ \/ /\ ~Known(ask[v].token) /\ AskTo(v, "answered", 0, "error")
        /\ UNCHANGED <<people, issued, inactive>>
     \/ /\ Known(ask[v].token) /\ ~right /\ AskTo(v, "answered", 0, "401")
        /\ UNCHANGED <<people, issued, inactive>>
     \/ /\ Known(ask[v].token) /\ right /\ AskTo(v, "answered", 0, "ok")
        /\ LET u == issued[ask[v].token].user
           IN  people' = people \ {u} /\ inactive' = inactive \ {u} /\ issued' = Disowned(u)
  /\ UNCHANGED <<deployVars, ended, browserVars, left, crossed>>

\* A refresh: a live token is replaced, and then, once the cookie is set, an account that is not
\* active is refused; one that is too old (as the cookie is) is revoked; one that was used ends
\* its family.
Rotated(v) ==
  LET r == ask[v].token
      active == issued[r].user \notin inactive
  IN  /\ Live(r) /\ Len(issued) < MaxIssued
      /\ issued' = Append(Revoked({r}), [issued[r] EXCEPT !.fresh = active])
      /\ AskTo(v, "refreshed", Len(issued) + 1, IF active THEN "ok" ELSE "403")
      /\ UNCHANGED ended
RefusedOld(v) ==
  LET r == ask[v].token IN
  /\ Live(r) /\ issued' = Revoked({r}) /\ ended' = ended \cup TokensOf(issued[r].user)
  /\ AskTo(v, "refreshed", r, "401")
RefusedUsed(v) ==
  LET r == ask[v].token IN
  /\ ~Live(r) /\ issued' = (IF Known(r) THEN Revoked(FamilyOf(r)) ELSE issued)
  /\ AskTo(v, "refreshed", r, "401") /\ UNCHANGED ended
ServeRefresh(v) ==
  /\ ask[v].pc = "refreshing"
  /\ Rotated(v) \/ RefusedOld(v) \/ RefusedUsed(v)
  /\ UNCHANGED <<deployVars, people, inactive, browserVars, left, crossed>>
\* ensureLocalOwner and issueSession, whatever the status of the account.
ServeClaim(v) ==
  /\ ask[v].pc = "claiming" /\ people' = people \cup {LocalOwner}
  /\ Issue(LocalOwner, NewFamily) /\ AskTo(v, "claimed", Len(issued) + 1, "ok")
  /\ UNCHANGED <<deployVars, outsideVars, browserVars, left, crossed>>

-----------------------------------------------------------------------------
(* Answers *)

\* setToken, in the tab of v.
SetToken(v, r) == saved' = r /\ tab' = [tab EXCEPT ![ask[v].tab].token = r]
Over(v) == ask' = [ask EXCEPT ![v] = [NoAsk EXCEPT !.pc = "over"]]

\* The request or its answer is lost, or the API is away: the fetch throws.
Lose(v) ==
  /\ ask[v].pc \notin {"new", "over"} /\ ask[v].result # "lost"
  /\ ask' = [ask EXCEPT ![v].result = "lost", ![v].retry = FALSE,
               ![v].pc = IF @ \in {"claiming", "claimed"} THEN "claimed" ELSE "answered"]
  /\ crossed' = (crossed \/ OfSession(ask[v]))
  /\ UNCHANGED <<serverVars, browserVars, left>>

\* 401, the first time: the session is refreshed.
HearUnauthorized(v) ==
  /\ ask[v].pc = "answered" /\ ask[v].result = "401" /\ ask[v].retry
  /\ ask' = [ask EXCEPT ![v].pc = "refreshing", ![v].token = jar, ![v].retry = FALSE]
  /\ crossed' = (crossed \/ Cross(v))
  /\ UNCHANGED <<serverVars, browserVars, left>>
\* ... and the request is sent once more, or has failed: the cookie was cleared (if there was
\* one), or replaced all the same.
HearRefresh(v) ==
  LET a == ask[v] IN
  /\ a.pc = "refreshed"
  /\ IF a.result = "ok"
     THEN jar' = a.token /\ SetToken(v, a.token) /\ AskTo(v, "sent", a.token, "none")
     ELSE /\ jar' = IF a.result = "403" THEN a.token ELSE IF a.token = 0 THEN jar ELSE Cleared
          /\ AskTo(v, "answered", 0, "401") /\ UNCHANGED <<saved, tab>>
  /\ UNCHANGED <<serverVars, left, crossed>>

Settled(v) == ask[v].pc = "answered" /\ ~(ask[v].result = "401" /\ ask[v].retry)
WhoAmI(v) == Settled(v) /\ ask[v].kind \in {"mount", "resolve"}
HearMe(v) ==
  /\ WhoAmI(v) /\ ask[v].result = "ok" /\ Over(v)
  /\ tab' = [tab EXCEPT ![ask[v].tab].user = issued[ask[v].token].user, ![ask[v].tab].loading = FALSE]
  /\ UNCHANGED <<serverVars, jar, saved, left, crossed>>
\* Only the end of the mount renders the provider anew: null again is no change.
NoUser(v) ==
  /\ Over(v)
  /\ tab' = [tab EXCEPT ![ask[v].tab].user = Nobody, ![ask[v].tab].loading = FALSE,
                        ![ask[v].tab].retry = ask[v].kind = "mount"]
\* The desktop claims the session of the machine's owner, once.
HearNobody(v) ==
  /\ WhoAmI(v) /\ ask[v].result # "ok"
  /\ IF onDesktop /\ ask[v].who = Nobody
     THEN /\ ask' = [ask EXCEPT ![v].pc = "claiming", ![v].who = LocalOwner, ![v].result = "none"]
          /\ crossed' = (crossed \/ Cross(v) \/ UnderTab(ask[v].tab)) /\ UNCHANGED tab
     ELSE NoUser(v) /\ UNCHANGED crossed
  /\ UNCHANGED <<serverVars, jar, saved, left>>
HearClaim(v) ==
  /\ ask[v].pc = "claimed"
  /\ IF ask[v].result = "ok"
     THEN /\ jar' = ask[v].token /\ SetToken(v, ask[v].token) /\ left' = FALSE
          /\ ask' = [ask EXCEPT ![v].pc = "sent", ![v].retry = TRUE, ![v].result = "none"]
     ELSE NoUser(v) /\ UNCHANGED <<jar, saved, left>>
  /\ UNCHANGED <<serverVars, crossed>>

HearWork(v) ==
  /\ Settled(v) /\ Over(v)
  /\ \/ ask[v].kind = "work"
     \/ ask[v].kind \in {"login", "register", "delete"} /\ ask[v].result # "ok"
  /\ UNCHANGED <<serverVars, browserVars, left, crossed>>
HearSession(v) ==
  LET a == ask[v] IN
  /\ Settled(v) /\ a.kind \in {"login", "register"} /\ a.result = "ok" /\ Over(v)
  /\ jar' = a.token /\ saved' = a.token /\ left' = FALSE
  /\ tab' = [tab EXCEPT ![a.tab].token = a.token, ![a.tab].user = issued[a.token].user]
  /\ UNCHANGED <<serverVars, crossed>>
\* Whatever the answer.
HearLogout(v) ==
  /\ Settled(v) /\ ask[v].kind = "logout" /\ Over(v)
  /\ jar' = (IF ask[v].result = "ok" THEN Cleared ELSE jar)
  /\ saved' = 0 /\ left' = TRUE
  /\ tab' = [tab EXCEPT ![ask[v].tab] = [@ EXCEPT !.token = 0, !.user = Nobody, !.retry = TRUE]]
  /\ UNCHANGED <<serverVars, crossed>>
\* The account page signs out once the account is gone.
HearDeleted(v) ==
  /\ Settled(v) /\ ask[v].kind = "delete" /\ ask[v].result = "ok"
  /\ jar' = Cleared
  /\ ask' = [ask EXCEPT ![v].pc = "sent", ![v].kind = "logout", ![v].token = Cleared,
                        ![v].retry = TRUE, ![v].result = "none"]
  /\ UNCHANGED <<serverVars, saved, tab, left, crossed>>

WebSessionNext ==
  \/ \E r \in 1 .. MaxIssued : AccessExpires(r)
  \/ \E u \in People : ResetPassword(u) \/ Deactivate(u)
  \/ \E b \in Tabs : Reload(b)
  \/ \E v \in Visits :
       \/ \E b \in Tabs :
            \/ Mount(v, b) \/ WhoIsIt(v, b) \/ Work(v, b) \/ SignOut(v, b) \/ DeleteAccount(v, b)
            \/ \E kind \in {"login", "register"}, who \in People : SignIn(v, b, kind, who)
       \/ \E right \in BOOLEAN : ServeLogin(v, right) \/ ServeDelete(v, right)
       \/ Unauthorized(v) \/ ServeMe(v) \/ ServeRegister(v) \/ ServeLogout(v)
       \/ ServeRefresh(v) \/ ServeClaim(v) \/ Lose(v)
       \/ HearUnauthorized(v) \/ HearRefresh(v) \/ HearMe(v) \/ HearNobody(v) \/ HearClaim(v)
       \/ HearWork(v) \/ HearSession(v) \/ HearLogout(v) \/ HearDeleted(v)

WebSessionSpec == WebSessionInit /\ [][WebSessionNext]_sessionVars

-----------------------------------------------------------------------------
(* Properties *)

Quiet == \A v \in Visits : ask[v].pc \in {"new", "over"}

\* "Desktop users stay logged in via the refresh cookie", and others: as long as no two requests
\* about the session overlap, none is lost and no tab changes it under another, a tab works under
\* the name of the user that it shows and the cookie is of no other; the cookie's token is live,
\* unless it expired or a reset revoked it (the user goes on being shown, until the next reload);
\* and once a session was ended in a tab, neither the cookie nor what is stored begins another.
\* (A live token renews the session of an active account; of another, it is only replaced.)
SessionFollowsUser ==
  ~crossed /\ Quiet =>
    /\ \A b \in Tabs : tab[b].user # Nobody =>
         /\ Token(b) # 0 /\ issued[Token(b)].user = tab[b].user
         /\ Live(jar) => issued[jar].user = tab[b].user
         /\ Live(jar) \/ Token(b) \in ended
    /\ left => ~Live(jar) /\ saved = 0
=============================================================================
