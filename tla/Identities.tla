----------------------------- MODULE Identities -----------------------------
(***************************************************************************)
(* Who a sign-in belongs to: the users table with its unique columns,      *)
(* registration (services/auth.py), the GitHub callback in its login and   *)
(* connect flows (services/github_oauth.py), the Google callback           *)
(* (services/google_oauth.py) and the confirmation of a GitHub link        *)
(* (services/oauth_link.py, confirm_link of api/endpoints/auth.py).        *)
(* A transaction's reads are steps of their own; its first write, where a  *)
(* unique index may refuse it, and its commit are one step.                *)
(***************************************************************************)
EXTENDS Naturals, FiniteSets

CONSTANTS
  UserIds,      \* bound: rows of the users table
  NoUser,
  Emails,
  Subjects,     \* accounts at GitHub, and at Google
  NoSubject,
  Requests      \* registrations, callbacks and connections

ASSUME IdentitiesAssumption ==
  /\ NoUser \notin UserIds
  /\ NoSubject \notin Subjects
  /\ Emails # {}

VARIABLES
  users,      \* the users table
  request,    \* progress of each request
  linkToken,  \* the oauth_link_tokens row of a request
  unlinked    \* history: accounts that another one has replaced on a row

identityVars == <<users, request, linkToken, unlinked>>

-----------------------------------------------------------------------------
NoRow == [email |-> "none"]
User == [email : Emails, github : Subjects \cup {NoSubject}, google : Subjects \cup {NoSubject}]

Exists(u) == users[u] # NoRow
ByEmail(e) == {u \in UserIds : Exists(u) /\ users[u].email = e}
\* The rows with this account at the provider, GitHub or Google.
BySubject(kind, s) == {u \in UserIds : Exists(u) /\ users[u][kind] = s}

Kinds == {"register", "github", "google", "connect"}
Over == {"in", "created", "conflict", "failed", "unresolved", "pending"}
\* kind, subject, email: what is asked, and what the provider vouches for; user: the row the
\* request has found, the one it is about for a connection.
Request == [pc : {"idle", "subject", "email", "return", "link", "insert", "subject again",
                  "email again", "link again"} \cup Over,
            kind : Kinds, subject : Subjects \cup {NoSubject}, email : Emails,
            user : UserIds \cup {NoUser}]
Idle == [pc |-> "idle", kind |-> "register", subject |-> NoSubject,
         email |-> CHOOSE e \in Emails : TRUE, user |-> NoUser]

IdentitiesTypeOK ==
  /\ users \in [UserIds -> User \cup {NoRow}]
  /\ request \in [Requests -> Request]
  /\ linkToken \in [Requests -> {"none", "minted", "consumed"}]
  /\ unlinked \subseteq {"github", "google"} \X Subjects

IdentitiesInit ==
  /\ users = [u \in UserIds |-> NoRow]
  /\ request = [q \in Requests |-> Idle]
  /\ linkToken = [q \in Requests |-> "none"]
  /\ unlinked = {}

At(q, pc) == request[q].pc = pc
Go(q, pc) == request' = [request EXCEPT ![q].pc = pc]
GoWith(q, pc, u) == request' = [request EXCEPT ![q] = [@ EXCEPT !.pc = pc, !.user = u]]
OnlyRequest == UNCHANGED <<users, linkToken, unlinked>>

Column(q) == IF request[q].kind = "google" THEN "google" ELSE "github"

-----------------------------------------------------------------------------
Begin(q, kind, s, e) ==
  /\ At(q, "idle")
  /\ kind \in {"github", "google"}
  /\ request' = [request EXCEPT ![q] =
       [pc |-> "subject", kind |-> kind, subject |-> s, email |-> e, user |-> NoUser]]
  /\ OnlyRequest

BeginRegister(q, e) ==
  /\ At(q, "idle")
  /\ request' = [request EXCEPT ![q] = [Idle EXCEPT !.pc = "email", !.email = e]]
  /\ OnlyRequest

\* The connect flow reads its user's row, then the owner of the GitHub account.
BeginConnect(q, u, s) ==
  /\ At(q, "idle")
  /\ Exists(u)
  /\ request' = [request EXCEPT ![q] =
       [pc |-> IF users[u].github \in {NoSubject, s} THEN "subject" ELSE "conflict",
        kind |-> "connect", subject |-> s, email |-> users[u].email, user |-> u]]
  /\ OnlyRequest

\* A row the request may go on with: nothing is left to write if it has the account already.
\* GitHub takes a row over whatever account it had, Google only if it has no other.
GoOnWith(q, u, link) ==
  LET r == request[q] IN
  GoWith(q, IF users[u][Column(q)] = r.subject THEN "return"
            ELSE IF r.kind = "google" /\ users[u].google # NoSubject THEN "conflict"
            ELSE link, u)

FindSubject(q) ==
  /\ At(q, "subject")
  /\ LET r == request[q]
         found == BySubject(Column(q), r.subject)
     IN  IF r.kind = "connect"
         THEN IF found \subseteq {r.user} THEN GoOnWith(q, r.user, "link") ELSE Go(q, "conflict")
         ELSE \/ \E u \in found : GoWith(q, "return", u)
              \/ found = {} /\ Go(q, "email")
  /\ OnlyRequest

FindEmail(q) ==
  /\ At(q, "email")
  /\ LET found == ByEmail(request[q].email) IN
       \/ found = {} /\ Go(q, "insert")
       \/ \E u \in found :
            IF request[q].kind = "register" THEN Go(q, "conflict") ELSE GoOnWith(q, u, "link")
  /\ OnlyRequest

\* A known user: GitHub's token is stored, a session minted, all committed.
Return(q) ==
  /\ At(q, "return")
  /\ Go(q, "in")
  /\ OnlyRequest

\* The unique index on the provider's column refuses the value.
Taken(kind, s, u) == BySubject(kind, s) \ {u} # {}

SetSubject(kind, s, u) ==
  /\ users' = [users EXCEPT ![u][kind] = s]
  /\ unlinked' = unlinked \cup ({kind} \X ({users[u][kind]} \ {NoSubject, s}))

\* The account is set on the row that was found.  Only Google's callback survives a refusal.
Link(q) ==
  LET r == request[q] IN
  /\ At(q, "link")
  /\ IF Taken(Column(q), r.subject, r.user)
       THEN Go(q, IF r.kind = "google" THEN "subject again" ELSE "failed") /\ OnlyRequest
       ELSE /\ SetSubject(Column(q), r.subject, r.user)
            /\ Go(q, "in")
            /\ UNCHANGED linkToken

\* Mutant: a refused insertion is answered by 409, as register does.
AfterRefusalConflict(q) == "conflict"

\* IntegrityError: register answers 409, the callbacks roll back and look again.
AfterRefusal(q) == IF request[q].kind = "register" THEN "conflict" ELSE "subject again"

Insert(q) ==
  LET r == request[q] IN
  /\ At(q, "insert")
  /\ \/ /\ ByEmail(r.email) # {} \/ (r.kind # "register" /\ BySubject(r.kind, r.subject) # {})
        /\ Go(q, AfterRefusal(q))
        /\ OnlyRequest
     \/ /\ ByEmail(r.email) = {}
        /\ r.kind # "register" => BySubject(r.kind, r.subject) = {}
        /\ \E u \in UserIds :
             /\ ~Exists(u)
             /\ users' = [users EXCEPT ![u] =
                  [email |-> r.email,
                   github |-> IF r.kind = "github" THEN r.subject ELSE NoSubject,
                   google |-> IF r.kind = "google" THEN r.subject ELSE NoSubject]]
             /\ GoWith(q, IF r.kind = "register" THEN "created" ELSE "in", u)
        /\ UNCHANGED <<linkToken, unlinked>>

\* Mutant: the second look is for the subject only.
FindSubjectOnly(q) ==
  /\ At(q, "subject again")
  /\ LET found == BySubject(Column(q), request[q].subject) IN
       \/ \E u \in found : GoWith(q, "return", u)
       \/ found = {} /\ Go(q, "unresolved")
  /\ OnlyRequest

\* The rescue: whoever won the race may own the account ...
FindSubjectAgain(q) ==
  /\ At(q, "subject again")
  /\ LET found == BySubject(Column(q), request[q].subject) IN
       \/ \E u \in found : GoWith(q, "return", u)
       \/ found = {} /\ Go(q, "email again")
  /\ OnlyRequest

\* Mutant: whoever holds the email is logged in.
EmailHolderReturns(q) ==
  /\ At(q, "email again")
  /\ LET found == ByEmail(request[q].email) IN
       \/ found = {} /\ Go(q, "unresolved")
       \/ \E u \in found : GoWith(q, "return", u)
  /\ OnlyRequest

\* ... or only the email: then GitHub's callback mails a link token and opens no session.
FindEmailAgain(q) ==
  /\ At(q, "email again")
  /\ LET found == ByEmail(request[q].email) IN
       \/ found = {} /\ Go(q, "unresolved") /\ UNCHANGED linkToken
       \/ \E u \in found :
            /\ GoOnWith(q, u, IF request[q].kind = "google" THEN "link again" ELSE "pending")
            /\ linkToken' = IF request'[q].pc = "pending"
                              THEN [linkToken EXCEPT ![q] = "minted"] ELSE linkToken
  /\ UNCHANGED <<users, unlinked>>

\* Google's callback sets its account; a second refusal is answered by 409.
LinkAgain(q) ==
  LET r == request[q] IN
  /\ At(q, "link again")
  /\ IF Taken("google", r.subject, r.user)
       THEN Go(q, "conflict") /\ OnlyRequest
       ELSE /\ SetSubject("google", r.subject, r.user)
            /\ Go(q, "in")
            /\ UNCHANGED linkToken

\* GET /auth/oauth/confirm-link: the token is locked, consumed, its account set on the user's
\* row and a session minted, in one transaction; a refusal by the index rolls all back.
Confirm(q) ==
  LET r == request[q] IN
  /\ linkToken[q] = "minted"
  /\ ~Taken("github", r.subject, r.user)
  /\ SetSubject("github", r.subject, r.user)
  /\ linkToken' = [linkToken EXCEPT ![q] = "consumed"]
  /\ UNCHANGED request

IdentityStep(q) ==
  \/ \E kind \in Kinds, s \in Subjects, e \in Emails : Begin(q, kind, s, e)
  \/ \E e \in Emails : BeginRegister(q, e)
  \/ \E u \in UserIds, s \in Subjects : BeginConnect(q, u, s)
  \/ FindSubject(q) \/ FindEmail(q) \/ Return(q) \/ Link(q) \/ Insert(q)
  \/ FindSubjectAgain(q) \/ FindEmailAgain(q) \/ LinkAgain(q) \/ Confirm(q)

IdentitiesNext == \E q \in Requests : IdentityStep(q)

IdentitiesSpec == IdentitiesInit /\ [][IdentitiesNext]_identityVars

-----------------------------------------------------------------------------
(* Properties *)

\* Whoever is signed in through a provider is signed in as the one user who has that account,
\* whatever raced with the first login, unless another account has replaced it on the row
\* since: by a GitHub login with the row's email, by a confirmed link, or in a race.
SignedInIsOwner ==
  \A q \in Requests : At(q, "in") =>
    \/ users[request[q].user][Column(q)] = request[q].subject
    \/ <<Column(q), request[q].subject>> \in unlinked

SameSignIn(q, o) ==
  /\ request[o].kind = request[q].kind
  /\ request[o].subject = request[q].subject
  /\ request[o].email = request[q].email

Unrelated(q, o) ==
  request[o].subject # request[q].subject /\ request[o].email # request[q].email

\* "the rescue path rolls back, re-queries by subject, and reuses the surviving row": if all
\* others with the account or the email are sign-ins with just these two, all get in.
FirstLoginRaceIsResolved ==
  \A q \in Requests :
    /\ request[q].kind \in {"github", "google"}
    /\ \A o \in Requests : At(o, "idle") \/ SameSignIn(q, o) \/ Unrelated(q, o)
    => request[q].pc \notin {"conflict", "failed", "unresolved", "pending"}

\* "Failed to resolve user after concurrent OAuth registration" is answered in one case only:
\* the row that had the account when the index refused it lost it to another account before
\* the second look.  A row that has the email is always found.
RefusalIsResolved ==
  \A q \in Requests : At(q, "unresolved") => <<Column(q), request[q].subject>> \in unlinked
=============================================================================
