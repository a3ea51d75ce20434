------------------------------ MODULE Sessions ------------------------------
(***************************************************************************)
(* The credentials of one account: password logins and OAuth logins, each  *)
(* of which leaves a refresh token; access tokens, which carry the         *)
(* version of the user's row they were made from; refresh, logout, and     *)
(* password resets by mailed, single-use tokens (services/auth.py,         *)
(* _mint_session_tokens of github_oauth.py, get_current_user of deps.py).  *)
(* A transaction's reads are steps of their own; its writes and its commit *)
(* are one, the row locks being held from the first write on.              *)
(***************************************************************************)
EXTENDS Naturals, FiniteSets

CONSTANTS
  Passwords,
  NoPassword,
  Logins,        \* POST /auth/login or an OAuth callback: one session each
  Links,         \* reset tokens that are mailed
  NoLink,
  Resets         \* POST /auth/reset-password requests

ASSUME SessionsAssumption ==
  /\ Passwords # {}
  /\ NoPassword \notin Passwords
  /\ NoLink \notin Links
  /\ IsFiniteSet(Resets)

VARIABLES
  user,       \* the account's row: password and token_version
  session,    \* per login: its refresh token and what it was obtained with
  renewal,    \* per session, what a refresh request under way has found
  access,     \* the access tokens handed out, for as long as they have not expired
  link,       \* the password_reset_tokens rows
  reset,      \* progress of each reset
  resets,     \* history: resets committed, per link
  collided    \* history: two resets overlapped

sessionVars == <<user, session, renewal, access, link, reset, resets, collided>>

-----------------------------------------------------------------------------
Versions == 0..Cardinality(Resets)
\* version: the row's token_version when the login read it; raced: a password reset was
\* committed between the check of the credential and its use; older: the sessions that were
\* active at the check; victims: those that a GitHub login's UPDATE has found.
Session == [token : {"none", "checked", "rotating", "active", "revoked"}, oauth : BOOLEAN,
            password : Passwords \cup {NoPassword}, version : Versions, raced : BOOLEAN,
            older : SUBSET Logins, victims : SUBSET Logins]
NoSession == [token |-> "none", oauth |-> FALSE, password |-> NoPassword, version |-> 0,
              raced |-> FALSE, older |-> {}, victims |-> {}]
\* password: the one the account had when the session was opened
AccessToken == [login : Logins, version : Versions, password : Passwords, raced : BOOLEAN]
Reset == [pc : {"idle", "locked", "done"}, link : Links \cup {NoLink},
          password : Passwords \cup {NoPassword}, version : Versions]
NoReset == [pc |-> "idle", link |-> NoLink, password |-> NoPassword, version |-> 0]

SessionsTypeOK ==
  /\ user \in [password : Passwords, version : Versions]
  /\ session \in [Logins -> Session]
  /\ renewal \in [Logins -> {"none", "found", "raced"}]
  /\ access \subseteq AccessToken
  /\ link \in [Links -> {"none", "mailed", "used"}]
  /\ reset \in [Resets -> Reset]
  /\ resets \in [Links -> 0..Cardinality(Resets)]
  /\ collided \in BOOLEAN

SessionsInit ==
  /\ user \in [password : Passwords, version : {0}]
  /\ session = [l \in Logins |-> NoSession]
  /\ renewal = [l \in Logins |-> "none"]
  /\ access = {}
  /\ link = [k \in Links |-> "none"]
  /\ reset = [q \in Resets |-> NoReset]
  /\ resets = [k \in Links |-> 0]
  /\ collided = FALSE

Token(l) == session[l].token
AccessOf(l, version, raced) ==
  [login |-> l, version |-> version, password |-> session[l].password, raced |-> raced]

-----------------------------------------------------------------------------
(* login_user and _mint_session_tokens *)

Active == {l \in Logins : Token(l) = "active"}

\* The row is read, the password verified against it (or GitHub vouches for the user).
LoginCheck(l, oauth) ==
  /\ Token(l) = "none"
  /\ session' = [session EXCEPT ![l] =
       [token |-> "checked", oauth |-> oauth, password |-> user.password,
        version |-> user.version, raced |-> FALSE, older |-> Active, victims |-> {}]]
  /\ UNCHANGED <<user, renewal, access, link, reset, resets, collided>>

\* Mutant: the earlier refresh tokens are left alone.
RotateNothing(l) ==
  /\ Token(l) = "checked"
  /\ session[l].oauth
  /\ session' = [session EXCEPT ![l] = [@ EXCEPT !.token = "rotating"]]
  /\ UNCHANGED <<user, renewal, access, link, reset, resets, collided>>

\* revoke_all_active_refresh_tokens, which is seen by others at the commit.
Rotate(l) ==
  /\ Token(l) = "checked"
  /\ session[l].oauth
  /\ session' = [session EXCEPT ![l] = [@ EXCEPT !.token = "rotating", !.victims = Active]]
  /\ UNCHANGED <<user, renewal, access, link, reset, resets, collided>>

\* The refresh token is inserted and everything committed.
LoginCommit(l) ==
  /\ Token(l) = IF session[l].oauth THEN "rotating" ELSE "checked"
  /\ session' = [m \in Logins |->
       IF m = l THEN [session[l] EXCEPT !.token = "active"]
       ELSE IF m \in session[l].victims THEN [session[m] EXCEPT !.token = "revoked"]
       ELSE session[m]]
  /\ access' = access \cup {AccessOf(l, session[l].version, session[l].raced)}
  /\ UNCHANGED <<user, renewal, link, reset, resets, collided>>

-----------------------------------------------------------------------------
(* refresh_access_token and logout_user *)

\* The refresh token's row is read: found, not revoked, not expired.
RefreshCheck(l) ==
  /\ Token(l) = "active"
  /\ renewal[l] = "none"
  /\ renewal' = [renewal EXCEPT ![l] = "found"]
  /\ UNCHANGED <<user, session, access, link, reset, resets, collided>>

\* The user's row is read, and an access token made from it.
RefreshMint(l) ==
  /\ renewal[l] # "none"
  /\ access' = access \cup
       {AccessOf(l, user.version, session[l].raced \/ renewal[l] = "raced")}
  /\ renewal' = [renewal EXCEPT ![l] = "none"]
  /\ UNCHANGED <<user, session, link, reset, resets, collided>>

Logout(l) ==
  /\ Token(l) = "active"
  /\ session' = [session EXCEPT ![l].token = "revoked"]
  /\ UNCHANGED <<user, renewal, access, link, reset, resets, collided>>

-----------------------------------------------------------------------------
(* create_password_reset_token and reset_password *)

Mail(k) ==
  /\ link[k] = "none"
  /\ link' = [link EXCEPT ![k] = "mailed"]
  /\ UNCHANGED <<user, session, renewal, access, reset, resets, collided>>

\* Mutant: the link's row is read without a lock.
ResetLockNothing(q) ==
  \E k \in Links :
    /\ reset[q].pc = "idle"
    /\ link[k] = "mailed"
    /\ reset' = [reset EXCEPT ![q] =
         [pc |-> "locked", link |-> k, password |-> user.password, version |-> user.version]]
    /\ collided' = (collided \/ \E o \in Resets : reset[o].pc = "locked")
    /\ UNCHANGED <<user, session, renewal, access, link, resets>>

\* SELECT ... FOR UPDATE of an unused link, which waits for another reset with that link,
\* and of the user's row as it is then; the new password must differ from the old one.
ResetLock(q) ==
  \E k \in Links :
    /\ reset[q].pc = "idle"
    /\ link[k] = "mailed"
    /\ \A o \in Resets : ~(reset[o].pc = "locked" /\ reset[o].link = k)
    /\ reset' = [reset EXCEPT ![q] =
         [pc |-> "locked", link |-> k, password |-> user.password, version |-> user.version]]
    /\ collided' = (collided \/ \E o \in Resets : reset[o].pc = "locked")
    /\ UNCHANGED <<user, session, renewal, access, link, resets>>

\* The new password is the old one: 400, and nothing is written.
ResetRefused(q) ==
  /\ reset[q].pc = "locked"
  /\ reset' = [reset EXCEPT ![q] = [NoReset EXCEPT !.pc = "done"]]
  /\ UNCHANGED <<user, session, renewal, access, link, resets, collided>>

\* Mutants: the version stays; it is incremented twice.
SameVersion(q) == reset[q].version
NextVersionTwice(q) == reset[q].version + 2

NextVersion(q) == reset[q].version + 1

\* Mutant: the refresh tokens survive the reset.
RevokedNone ==
  [l \in Logins |->
     IF Token(l) \in {"checked", "rotating"} THEN [session[l] EXCEPT !.raced = TRUE]
     ELSE session[l]]

\* Every refresh token that is active at the UPDATE; a login that has only checked the old
\* password yet is not affected.
RevokedAll ==
  [l \in Logins |->
     CASE Token(l) = "active" -> [session[l] EXCEPT !.token = "revoked"]
       [] Token(l) \in {"checked", "rotating"} -> [session[l] EXCEPT !.raced = TRUE]
       [] OTHER -> session[l]]

\* Password, version (computed from the row as it was read), the link's used_at and the
\* refresh tokens, in one commit.
ResetCommit(q) ==
  /\ reset[q].pc = "locked"
  /\ \E p \in Passwords \ {reset[q].password} :
       user' = [password |-> p, version |-> NextVersion(q)]
  /\ link' = [link EXCEPT ![reset[q].link] = "used"]
  /\ resets' = [resets EXCEPT ![reset[q].link] = @ + 1]
  /\ session' = RevokedAll
  /\ renewal' = [l \in Logins |-> IF renewal[l] = "none" THEN "none" ELSE "raced"]
  /\ reset' = [reset EXCEPT ![q] = [NoReset EXCEPT !.pc = "done"]]
  /\ UNCHANGED <<access, collided>>

LoginStep(l) ==
  \/ \E oauth \in BOOLEAN : LoginCheck(l, oauth)
  \/ Rotate(l) \/ LoginCommit(l) \/ RefreshCheck(l) \/ RefreshMint(l) \/ Logout(l)

ResetStep(q) == ResetLock(q) \/ ResetRefused(q) \/ ResetCommit(q)

SessionsNext ==
  \/ \E l \in Logins : LoginStep(l)
  \/ \E k \in Links : Mail(k)
  \/ \E q \in Resets : ResetStep(q)

SessionsSpec == SessionsInit /\ [][SessionsNext]_sessionVars

-----------------------------------------------------------------------------
(* Properties *)

\* The token passes get_current_user.
CurrentUser(a) == a.version = user.version

\* "invalidates all previous tokens", "Revoke all active refresh tokens on password change":
\* of what was obtained under an earlier password no refresh token works and no access token
\* passes get_current_user, unless a login or a refresh was half done when the password
\* changed, or two resets overlapped and counted one version together.  (GET
\* /personas/{id}/stream decodes the token itself and never looks at its version: there an
\* access token works until it expires.)
ResetEndsSessions ==
  /\ \A l \in Logins :
       Token(l) = "active" /\ ~session[l].raced => session[l].password = user.password
  /\ ~collided =>
       \A a \in access : CurrentUser(a) /\ ~a.raced => a.password = user.password

\* A mailed link changes the password once, however often and however closely it is used.
LinkUsedOnce == \A k \in Links : resets[k] <= 1

\* "A compromised pre-existing session cannot survive a fresh OAuth login": whatever was
\* active when a GitHub login began no longer is once it is done, however logins overlap.
RotationEndsOlder ==
  \A l \in Logins : session[l].oauth /\ Token(l) \in {"active", "revoked"} =>
    session[l].older \cap Active = {}
=============================================================================
