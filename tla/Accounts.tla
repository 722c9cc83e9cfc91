------------------------------- MODULE Accounts -------------------------------
(***************************************************************************)
(* The tokens of one user: refresh tokens that rotate in families           *)
(* (refresh-token.service.ts) and mailed single-use tokens of one purpose   *)
(* (auth-token.service.ts), with the requests that use them, one action per *)
(* database statement.  A client may present any token it ever got, also    *)
(* twice and at the same time.  A mailed token resets the password, which   *)
(* ends every session (auth.service.ts, resetPassword).                     *)
(***************************************************************************)
EXTENDS Integers, FiniteSets

CONSTANTS
  Families,    \* logins (bound)
  MaxTokens,   \* refresh tokens ever made (bound)
  MaxMailed,   \* mailed tokens ever made (bound)
  Refreshes,   \* requests that rotate or revoke a refresh token
  Mailings,    \* requests that mail a token
  Redeems,     \* requests that use a mailed token
  NoFamily     \* family of a token that does not exist

ASSUME AccountsAssumption ==
  MaxTokens \in Nat /\ MaxMailed \in Nat /\ NoFamily \notin Families

VARIABLES
  family,    \* family[t]: the family of refresh token t, or NoFamily before it exists
  revoked,   \* refresh tokens with revokedAt
  request,   \* request[q]: a refresh or logout: how far it is, and the token it read
  mailed,    \* mailed[m]: a mailed token's row
  mailing,   \* mailing[i]: a request that issues one
  redeem,    \* redeem[d]: a request that consumes one: how far it is, and which
  reused,    \* families whose reuse was detected, or that were logged out or reset
  crossed    \* families in which two requests overlapped, or one was cut short

refreshVars == <<family, revoked, request>>
mailVars == <<mailed, mailing, redeem>>
accountVars == <<family, revoked, request, mailed, mailing, redeem, reused, crossed>>

Tokens == 1 .. MaxTokens
Mailed == 1 .. MaxMailed
Made(t) == family[t] # NoFamily
Live(t) == Made(t) /\ t \notin revoked
OfFamily(f) == {t \in Tokens : family[t] = f}

\* Requests that have read a token of f and are not done with it.
Serving(f) == {q \in Refreshes : /\ request[q].pc \in {"create", "chain", "reuse", "logout"}
                                 /\ family[request[q].token] = f}
\* One more request reads a token of f, or is done, or revokes f.
Crossing(f) == crossed' = IF Serving(f) # {} THEN crossed \cup {f} ELSE crossed

RequestTo(q, s, t) == request' = [request EXCEPT ![q] = [pc |-> s, token |-> t]]

AccountsInit ==
  /\ family = [t \in Tokens |-> NoFamily] /\ revoked = {}
  /\ request = [q \in Refreshes |-> [pc |-> "new", token |-> 0]]
  /\ mailed = [m \in Mailed |-> "none"]
  /\ mailing = [i \in Mailings |-> "new"]
  /\ redeem = [d \in Redeems |-> [pc |-> "new", token |-> 0]]
  /\ reused = {} /\ crossed = {}

-----------------------------------------------------------------------------
(* Refresh tokens *)

NextToken(t) == ~Made(t) /\ \A u \in 1 .. t - 1 : Made(u)

\* issueSession: a token of a family of its own.
Login(f, t) ==
  /\ NextToken(t) /\ OfFamily(f) = {}
  /\ family' = [family EXCEPT ![t] = f]
  /\ UNCHANGED <<revoked, request, mailVars, reused, crossed>>

\* rotate reads the row of the token; one that is too old is marked as revoked.
RotateRead(q, t) ==
  /\ request[q].pc = "new" /\ Made(t)
  /\ Crossing(family[t])
  /\ RequestTo(q, IF t \in revoked THEN "reuse" ELSE "create", t)
  /\ UNCHANGED <<family, revoked, mailVars, reused>>
RotateExpired(q, t) ==
  /\ request[q].pc = "new" /\ Live(t)
  /\ Crossing(family[t])
  /\ RequestTo(q, "done", t) /\ revoked' = revoked \cup {t}
  /\ UNCHANGED <<family, mailVars, reused>>
RotateCreate(q, t) ==
  /\ request[q].pc = "create" /\ NextToken(t)
  /\ family' = [family EXCEPT ![t] = family[request[q].token]]
  /\ RequestTo(q, "chain", request[q].token)
  /\ UNCHANGED <<revoked, mailVars, reused, crossed>>
\* The old token is revoked, whatever has become of it and of its family.
RotateChain(q) ==
  /\ request[q].pc = "chain"
  /\ revoked' = revoked \cup {request[q].token} /\ RequestTo(q, "done", 0)
  /\ UNCHANGED <<family, mailVars, reused, crossed>>

\* Logout reads the row of the token, and revokes its family.
LogoutRead(q, t) ==
  /\ request[q].pc = "new" /\ Made(t)
  /\ Crossing(family[t])
  /\ RequestTo(q, "logout", t)
  /\ UNCHANGED <<family, revoked, mailVars, reused>>

\* Broken variant (mutation check): the tokens that replaced this one are not revoked.
RevokeUpTo(q) ==
  /\ request[q].pc \in {"reuse", "logout"}
  /\ LET f == family[request[q].token] IN
     /\ revoked' = revoked \cup {t \in OfFamily(f) : t <= request[q].token}
     /\ reused' = reused \cup {f}
  /\ RequestTo(q, "done", 0)
  /\ UNCHANGED <<family, mailVars, crossed>>
RevokeFamily(q) ==
  /\ request[q].pc \in {"reuse", "logout"}
  /\ LET f == family[request[q].token] IN
     revoked' = revoked \cup OfFamily(f) /\ reused' = reused \cup {f}
  /\ RequestTo(q, "done", 0)
  /\ UNCHANGED <<family, mailVars, crossed>>

-----------------------------------------------------------------------------
(* Mailed tokens *)

\* issue deletes the unused tokens, and then makes one.
MailDelete(i) ==
  /\ mailing[i] = "new" /\ mailing' = [mailing EXCEPT ![i] = "create"]
  /\ mailed' = [m \in Mailed |-> IF mailed[m] = "live" THEN "gone" ELSE mailed[m]]
  /\ UNCHANGED <<refreshVars, redeem, reused, crossed>>
MailCreate(i, m) ==
  /\ mailing[i] = "create" /\ mailing' = [mailing EXCEPT ![i] = "done"]
  /\ mailed[m] = "none" /\ \A k \in 1 .. m - 1 : mailed[k] # "none"
  /\ mailed' = [mailed EXCEPT ![m] = "live"]
  /\ UNCHANGED <<refreshVars, redeem, reused, crossed>>

RedeemTo(d, s, m) == redeem' = [redeem EXCEPT ![d] = [pc |-> s, token |-> m]]
\* consume reads the row; a token that is used, deleted or too old is refused.
RedeemRead(d, m) ==
  /\ redeem[d].pc = "new" /\ mailed[m] # "none"
  /\ \/ mailed[m] = "live" /\ RedeemTo(d, "use", m)
     \/ RedeemTo(d, "refused", m)
  /\ UNCHANGED <<refreshVars, mailed, mailing, reused, crossed>>
\* The row is updated by its id; when it was deleted meanwhile that throws.
RedeemUse(d) ==
  /\ redeem[d].pc = "use"
  /\ IF mailed[redeem[d].token] = "gone"
     THEN RedeemTo(d, "refused", redeem[d].token) /\ UNCHANGED mailed
     ELSE /\ mailed' = [mailed EXCEPT ![redeem[d].token] = "used"]
          /\ RedeemTo(d, "reset", redeem[d].token)
  /\ UNCHANGED <<refreshVars, mailing, reused, crossed>>
\* The password is changed, and then every session is revoked.
ResetPassword(d) ==
  /\ redeem[d].pc = "reset" /\ RedeemTo(d, "done", redeem[d].token)
  /\ LET open == {family[t] : t \in {u \in Tokens : Made(u)}} IN
     /\ revoked' = revoked \cup {t \in Tokens : Made(t)}
     /\ reused' = reused \cup open
     /\ crossed' = crossed \cup {f \in open : Serving(f) # {}}
  /\ UNCHANGED <<family, request, mailed, mailing>>

\* The process stops: the requests under way are not finished.
AccountsStop ==
  /\ \E q \in Refreshes : request[q].pc \notin {"new", "done"}
  /\ crossed' = crossed \cup {f \in Families : Serving(f) # {}}
  /\ request' = [q \in Refreshes |-> IF request[q].pc = "new" THEN request[q]
                                     ELSE [pc |-> "done", token |-> 0]]
  /\ mailing' = [i \in Mailings |-> IF mailing[i] = "new" THEN "new" ELSE "done"]
  /\ redeem' = [d \in Redeems |-> IF redeem[d].pc \in {"use", "reset"}
                                  THEN [redeem[d] EXCEPT !.pc = "refused"] ELSE redeem[d]]
  /\ UNCHANGED <<family, revoked, mailed, reused>>

AccountsNext ==
  \/ \E t \in Tokens :
       \/ \E f \in Families : Login(f, t)
       \/ \E q \in Refreshes : RotateRead(q, t) \/ RotateExpired(q, t) \/ RotateCreate(q, t)
                               \/ LogoutRead(q, t)
  \/ \E q \in Refreshes : RotateChain(q) \/ RevokeFamily(q)
  \/ \E i \in Mailings : MailDelete(i) \/ \E m \in Mailed : MailCreate(i, m)
  \/ \E d \in Redeems : RedeemUse(d) \/ ResetPassword(d) \/ \E m \in Mailed : RedeemRead(d, m)
  \/ AccountsStop

AccountsSpec == AccountsInit /\ [][AccountsNext]_accountVars

-----------------------------------------------------------------------------
(* Properties *)

AccountsTypeOK ==
  /\ family \in [Tokens -> Families \cup {NoFamily}]
  /\ revoked \subseteq {t \in Tokens : Made(t)}
  /\ \A q \in Refreshes : /\ request[q].pc \in {"new", "create", "chain", "reuse", "logout", "done"}
                          /\ request[q].token \in Tokens \cup {0}
  /\ mailed \in [Mailed -> {"none", "live", "used", "gone"}]
  /\ mailing \in [Mailings -> {"new", "create", "done"}]
  /\ \A d \in Redeems : redeem[d].pc \in {"new", "use", "reset", "done", "refused"}
  /\ reused \subseteq Families /\ crossed \subseteq Families

\* "Every refresh rotates the token"; "the WHOLE family is revoked": while the requests of a
\* family never overlap and none is cut short, it has one live token when none is under way, and
\* none after a reuse, a logout or a reset.
RotationIsExclusive ==
  \A f \in Families \ crossed :
    Serving(f) = {} => /\ Cardinality({t \in OfFamily(f) : Live(t)}) <= 1
                       /\ f \in reused => \A t \in OfFamily(f) : ~Live(t)

\* "Single-use email-verify / password-reset tokens": no two requests consume one token.
SingleUse ==
  \A d, e \in Redeems :
    redeem[d].pc \in {"reset", "done"} /\ redeem[e].pc \in {"reset", "done"} /\ d # e
      => redeem[d].token # redeem[e].token
=============================================================================
