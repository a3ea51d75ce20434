-------------------------- MODULE IdentitiesProofs --------------------------
(***************************************************************************)
(* SignedInIsOwner, RefusalIsResolved and FirstLoginRaceIsResolved for any *)
(* number of users, accounts and requests.  None is inductive.  For the    *)
(* first two, a request that has found a row and not yet written it must   *)
(* have found one that exists, whose account is still on it or has been    *)
(* replaced; one that was refused must have been refused by a row that can *)
(* be found again; and every table that follows must extend this one.  The *)
(* third has a section of its own at the end.                              *)
(***************************************************************************)
EXTENDS Identities, TLAPS

Providers == {"github", "google"}
AccountColumn(r) == IF r.kind = "google" THEN "google" ELSE "github"

\* The account has been replaced by another on the row that had it.
Replaced(r, replaced) == <<AccountColumn(r), r.subject>> \in replaced

HasEmail(u, r, table) == table[u] \in User /\ table[u].email = r.email
HasAccount(u, r, table) == table[u] \in User /\ table[u][AccountColumn(r)] = r.subject

\* What holds of a request at each stage, given the users and the replaced accounts.
SoundRequest(r, table, replaced) ==
  /\ r.kind # "register" => r.subject \in Subjects
  /\ r.kind = "connect" => r.user \in UserIds /\ HasEmail(r.user, r, table)
  /\ r.pc \in {"subject", "return", "link", "subject again", "email again", "link again", "in",
               "pending"} => r.kind # "register"
  /\ r.pc \in {"email", "insert", "subject again", "email again"} => r.kind # "connect"
  /\ r.pc \in {"return", "link", "link again", "in", "pending"} =>
       r.user \in UserIds /\ table[r.user] \in User
  /\ r.pc \in {"link", "link again", "pending"} => HasEmail(r.user, r, table)
  /\ r.pc = "link again" => r.kind = "google"
  /\ r.pc = "pending" => r.kind = "github"
  /\ r.pc \in {"return", "in"} =>
       HasAccount(r.user, r, table) \/ Replaced(r, replaced)
  /\ r.pc = "subject again" =>
       \/ \E u \in UserIds : HasEmail(u, r, table) \/ HasAccount(u, r, table)
       \/ Replaced(r, replaced)
  /\ r.pc = "email again" =>
       (\E u \in UserIds : HasEmail(u, r, table)) \/ Replaced(r, replaced)
  /\ r.pc = "unresolved" => Replaced(r, replaced)

\* No row goes away, and an account leaves its row only to be counted as replaced.
Extends(table, later, replaced, replacedLater) ==
  /\ replaced \subseteq replacedLater
  /\ \A u \in UserIds : table[u] \in User =>
       /\ later[u] \in User /\ later[u].email = table[u].email
       /\ \A k \in Providers :
            \/ later[u][k] = table[u][k]
            \/ table[u][k] = NoSubject
            \/ <<k, table[u][k]>> \in replacedLater

IdentitiesInv ==
  /\ IdentitiesTypeOK
  /\ \A q \in Requests :
       /\ SoundRequest(request[q], users, unlinked)
       /\ linkToken[q] = "minted" => At(q, "pending")

-----------------------------------------------------------------------------
\* Whatever the others write, a request that was sound stays so.
LEMMA ExtensionKeepsSound ==
  ASSUME NEW r, NEW table, NEW later, NEW replaced, NEW replacedLater,
         Extends(table, later, replaced, replacedLater), SoundRequest(r, table, replaced)
  PROVE  SoundRequest(r, later, replacedLater)
<1>1. AccountColumn(r) \in Providers
  BY DEF AccountColumn, Providers
<1>2. r.user \in UserIds /\ table[r.user] \in User => later[r.user] \in User
  BY DEF Extends
<1>3. ASSUME NEW u \in UserIds, HasEmail(u, r, table) PROVE HasEmail(u, r, later)
  BY <1>3 DEF HasEmail, Extends
<1>4. Replaced(r, replaced) => Replaced(r, replacedLater)
  BY DEF Replaced, Extends
<1>5. ASSUME NEW u \in UserIds, HasAccount(u, r, table), r.subject \in Subjects
      PROVE  HasAccount(u, r, later) \/ Replaced(r, replacedLater)
  <2>1. table[u] \in User /\ table[u][AccountColumn(r)] = r.subject
    BY <1>5 DEF HasAccount
  <2>2. r.subject # NoSubject
    BY <1>5, IdentitiesAssumption
  <2>3. \/ later[u][AccountColumn(r)] = table[u][AccountColumn(r)]
        \/ table[u][AccountColumn(r)] = NoSubject
        \/ <<AccountColumn(r), table[u][AccountColumn(r)]>> \in replacedLater
    BY <1>1, <2>1 DEF Extends
  <2>4. later[u] \in User
    BY <2>1 DEF Extends
  <2> QED
    BY <2>1, <2>2, <2>3, <2>4 DEF HasAccount, Replaced
<1>6. r.pc \in {"return", "in", "subject again"} => r.subject \in Subjects
  BY DEF SoundRequest
<1> HIDE DEF AccountColumn
<1> QED
  BY <1>2, <1>3, <1>4, <1>5, <1>6 DEF SoundRequest

\* An unchanged table extends itself.
LEMMA SameTableExtends ==
  ASSUME UNCHANGED <<users, unlinked>>
  PROVE  Extends(users, users', unlinked, unlinked')
BY DEF Extends

\* A step that replaces one request by a sound one, over a table that extends the last one,
\* keeps IdentitiesInv.
LEMMA OneRequestChanges ==
  ASSUME IdentitiesInv, NEW q \in Requests, NEW new \in Request,
         request' = [request EXCEPT ![q] = new],
         users' \in [UserIds -> User \cup {NoRow}],
         unlinked' \subseteq Providers \X Subjects,
         linkToken' \in [Requests -> {"none", "minted", "consumed"}],
         \A o \in Requests : linkToken'[o] = "minted" =>
           IF o = q THEN new.pc = "pending" ELSE linkToken[o] = "minted",
         Extends(users, users', unlinked, unlinked'),
         SoundRequest(new, users', unlinked')
  PROVE  IdentitiesInv'
<1>1. request \in [Requests -> Request]
  BY DEF IdentitiesInv, IdentitiesTypeOK
<1>2. request' \in [Requests -> Request] /\ request'[q] = new
  BY <1>1
<1>3. IdentitiesTypeOK'
  BY <1>2 DEF IdentitiesTypeOK, Providers, User, NoRow
<1>4. ASSUME NEW o \in Requests
      PROVE  /\ SoundRequest(request'[o], users', unlinked')
             /\ linkToken'[o] = "minted" => request'[o].pc = "pending"
  <2>1. CASE o = q
    BY <1>2, <2>1
  <2>2. CASE o # q
    <3>1. request'[o] = request[o]
      BY <1>1, <2>2
    <3>2. /\ SoundRequest(request[o], users, unlinked)
          /\ linkToken[o] = "minted" => request[o].pc = "pending"
      BY DEF IdentitiesInv, At
    <3>3. SoundRequest(request[o], users', unlinked')
      BY <3>2, ExtensionKeepsSound
    <3> QED
      BY <2>2, <3>1, <3>2, <3>3
  <2> QED
    BY <2>1, <2>2
<1> QED
  BY <1>3, <1>4 DEF IdentitiesInv, At

\* The same for a step that leaves the tables alone.
LEMMA OnlyRequestChanges ==
  ASSUME IdentitiesInv, NEW q \in Requests, NEW new \in Request,
         request' = [request EXCEPT ![q] = new],
         UNCHANGED <<users, unlinked, linkToken>>,
         linkToken[q] = "minted" => new.pc = "pending",
         SoundRequest(new, users, unlinked)
  PROVE  IdentitiesInv'
<1>1. /\ users' \in [UserIds -> User \cup {NoRow}]
      /\ unlinked' \subseteq Providers \X Subjects
      /\ linkToken' \in [Requests -> {"none", "minted", "consumed"}]
  BY DEF IdentitiesInv, IdentitiesTypeOK, Providers
<1>2. Extends(users, users', unlinked, unlinked')
  BY SameTableExtends
<1>3. SoundRequest(new, users', unlinked')
  OBVIOUS
<1> QED
  BY <1>1, <1>2, <1>3, OneRequestChanges

\* Before the first registration: no rows and no requests.
LEMMA IdentitiesInitEstablishes == IdentitiesInit => IdentitiesInv
<1> SUFFICES ASSUME IdentitiesInit PROVE IdentitiesInv
  OBVIOUS
<1>1. Idle \in Request
  <2>1. (CHOOSE e \in Emails : TRUE) \in Emails
    BY IdentitiesAssumption
  <2> QED
    BY <2>1 DEF Idle, Request, Kinds
<1>2. IdentitiesTypeOK
  BY <1>1 DEF IdentitiesInit, IdentitiesTypeOK
<1>3. SoundRequest(Idle, users, unlinked)
  BY DEF SoundRequest, Idle
<1> QED
  BY <1>2, <1>3 DEF IdentitiesInit, IdentitiesInv

-----------------------------------------------------------------------------
(* What the steps are made of *)

\* What a request is before it steps.
LEMMA RequestIsSound ==
  ASSUME IdentitiesInv, NEW q \in Requests
  PROVE  /\ request[q] \in Request /\ SoundRequest(request[q], users, unlinked)
         /\ request[q].kind \in Kinds /\ request[q].subject \in Subjects \cup {NoSubject}
         /\ request[q].email \in Emails /\ request[q].user \in UserIds \cup {NoUser}
         /\ linkToken[q] = "minted" => request[q].pc = "pending"
         /\ users \in [UserIds -> User \cup {NoRow}]
         /\ unlinked \subseteq Providers \X Subjects
         /\ linkToken \in [Requests -> {"none", "minted", "consumed"}]
<1>1. request[q] \in Request /\ SoundRequest(request[q], users, unlinked)
  BY DEF IdentitiesInv, IdentitiesTypeOK
<1> QED
  BY <1>1 DEF IdentitiesInv, IdentitiesTypeOK, Providers, Request, At

\* Rows that exist are users.
LEMMA RowsAreUsers ==
  ASSUME IdentitiesInv, NEW u \in UserIds, Exists(u)
  PROVE  users[u] \in User
BY DEF IdentitiesInv, IdentitiesTypeOK, Exists

\* A request that ends without a session, or goes on to look, is sound as it was.
LEMMA GoPreserves ==
  ASSUME IdentitiesInv, NEW q \in Requests, NEW pc, Go(q, pc), OnlyRequest,
         request[q].pc # "pending",
         \/ pc \in {"conflict", "failed", "created"}
         \/ pc = "unresolved" /\ Replaced(request[q], unlinked)
         \/ pc = "email" /\ request[q].kind # "connect"
         \/ pc = "insert" /\ request[q].kind # "connect"
         \/ pc = "in" /\ request[q].pc = "return"
         \/ /\ pc = "subject again"
            /\ request[q].kind \in {"github", "google"}
            /\ \/ \E u \in UserIds : \/ HasEmail(u, request[q], users)
                                     \/ HasAccount(u, request[q], users)
               \/ Replaced(request[q], unlinked)
         \/ /\ pc = "email again"
            /\ request[q].kind \in {"github", "google"}
            /\ \/ \E u \in UserIds : HasEmail(u, request[q], users)
               \/ Replaced(request[q], unlinked)
  PROVE  IdentitiesInv'
<1> DEFINE new == [request[q] EXCEPT !.pc = pc]
<1>1. request[q] \in Request /\ SoundRequest(request[q], users, unlinked)
  BY RequestIsSound
<1>2. pc \in {"conflict", "failed", "unresolved", "created", "email", "insert", "in",
              "subject again", "email again"}
  OBVIOUS
<1>3. new \in Request
  BY <1>1, <1>2 DEF Request, Over
<1>4. /\ new.pc = pc /\ new.kind = request[q].kind /\ new.subject = request[q].subject
      /\ new.user = request[q].user /\ new.email = request[q].email
  BY <1>1 DEF Request
<1>5. SoundRequest(new, users, unlinked)
  BY <1>1, <1>2, <1>4
  DEF SoundRequest, AccountColumn, HasEmail, HasAccount, Replaced
<1>6. request' = [request EXCEPT ![q] = new] /\ UNCHANGED <<users, unlinked, linkToken>>
  BY DEF Go, OnlyRequest
<1>7. linkToken[q] # "minted"
  BY RequestIsSound
<1> QED
  BY <1>3, <1>5, <1>6, <1>7, OnlyRequestChanges

\* A row that exists is found, to go on with or to return to.
LEMMA GoWithPreserves ==
  ASSUME IdentitiesInv, NEW q \in Requests, NEW pc, NEW u \in UserIds, GoWith(q, pc, u),
         OnlyRequest, users[u] \in User,
         request[q].pc # "pending", request[q].kind # "register",
         request[q].kind = "connect" => u = request[q].user,
         \/ /\ pc = "link" \/ (pc = "link again" /\ request[q].kind = "google")
            /\ users[u].email = request[q].email
         \/ pc = "conflict"
         \/ pc = "return" /\ users[u][Column(q)] = request[q].subject
  PROVE  IdentitiesInv'
<1> DEFINE new == [request[q] EXCEPT !.pc = pc, !.user = u]
<1>1. request[q] \in Request /\ SoundRequest(request[q], users, unlinked)
  BY RequestIsSound
<1>2. new \in Request
  BY <1>1 DEF Request, Over
<1>3. /\ new.pc = pc /\ new.kind = request[q].kind /\ new.subject = request[q].subject
      /\ new.user = u /\ new.email = request[q].email
  BY <1>1 DEF Request
<1>4. AccountColumn(new) = Column(q)
  BY <1>3 DEF AccountColumn, Column
<1>5. SoundRequest(new, users, unlinked)
  BY <1>1, <1>3, <1>4 DEF SoundRequest, HasEmail, HasAccount
<1>6. request' = [request EXCEPT ![q] = new] /\ UNCHANGED <<users, unlinked, linkToken>>
  BY DEF GoWith, OnlyRequest
<1>7. linkToken[q] # "minted"
  BY RequestIsSound
<1> QED
  BY <1>2, <1>5, <1>6, <1>7, OnlyRequestChanges

\* An account that is set on a row leaves the other rows, and counts the account it replaces.
LEMMA SetSubjectExtends ==
  ASSUME IdentitiesInv, NEW kind \in Providers, NEW s \in Subjects, NEW u \in UserIds,
         users[u] \in User, SetSubject(kind, s, u)
  PROVE  /\ users' \in [UserIds -> User \cup {NoRow}]
         /\ unlinked' \subseteq Providers \X Subjects
         /\ Extends(users, users', unlinked, unlinked')
         /\ users'[u] \in User /\ users'[u][kind] = s
<1> DEFINE row == [users[u] EXCEPT ![kind] = s]
<1>1. users \in [UserIds -> User \cup {NoRow}] /\ unlinked \subseteq Providers \X Subjects
  BY DEF IdentitiesInv, IdentitiesTypeOK, Providers
<1>2. row \in User /\ row[kind] = s /\ row.email = users[u].email
  BY DEF User, Providers
<1>3. \A k \in Providers : k # kind => row[k] = users[u][k]
  BY DEF User, Providers
<1>4. users' = [users EXCEPT ![u] = row]
  BY DEF SetSubject
<1>5. users[u][kind] \in Subjects \cup {NoSubject}
  BY DEF User, Providers
<1>6. unlinked' = unlinked \cup ({kind} \X ({users[u][kind]} \ {NoSubject, s}))
  BY DEF SetSubject
<1> HIDE DEF row
<1>7. users' \in [UserIds -> User \cup {NoRow}] /\ users'[u] = row
  BY <1>1, <1>2, <1>4
<1>8. unlinked' \subseteq Providers \X Subjects
  BY <1>1, <1>5, <1>6
<1>9. ASSUME NEW w \in UserIds, users[w] \in User
      PROVE  /\ users'[w] \in User /\ users'[w].email = users[w].email
             /\ \A k \in Providers :
                  \/ users'[w][k] = users[w][k]
                  \/ users[w][k] = NoSubject
                  \/ <<k, users[w][k]>> \in unlinked'
  <2>1. CASE w # u
    <3>1. users'[w] = users[w]
      BY <1>1, <1>4, <2>1
    <3> QED
      BY <1>9, <3>1
  <2>2. CASE w = u
    <3>1. ASSUME NEW k \in Providers, users'[w][k] # users[w][k], users[w][k] # NoSubject
          PROVE  <<k, users[w][k]>> \in unlinked'
      <4>1. k = kind
        BY <1>3, <1>7, <2>2, <3>1
      <4>2. users[u][kind] \in {users[u][kind]} \ {NoSubject, s}
        BY <1>2, <1>7, <2>2, <3>1, <4>1
      <4> QED
        BY <1>6, <2>2, <4>1, <4>2
    <3> QED
      BY <1>2, <1>7, <2>2, <3>1
  <2> QED
    BY <2>1, <2>2
<1>10. Extends(users, users', unlinked, unlinked')
  BY <1>6, <1>9 DEF Extends
<1> QED
  BY <1>2, <1>7, <1>8, <1>10


-----------------------------------------------------------------------------
(* The steps *)

\* A request begins: what it is about is noted, and a connection is for a row that exists.
LEMMA BeginPreserves ==
  ASSUME IdentitiesInv, NEW q \in Requests,
         \/ \E kind \in Kinds, s \in Subjects, e \in Emails : Begin(q, kind, s, e)
         \/ \E e \in Emails : BeginRegister(q, e)
         \/ \E u \in UserIds, s \in Subjects : BeginConnect(q, u, s)
  PROVE  IdentitiesInv'
<1>1. request[q].pc = "idle" /\ linkToken[q] # "minted"
  <2>1. request[q].pc = "idle"
    BY DEF Begin, BeginRegister, BeginConnect, At
  <2> QED
    BY <2>1, RequestIsSound
<1>2. ASSUME NEW new \in Request, request' = [request EXCEPT ![q] = new], OnlyRequest,
             SoundRequest(new, users, unlinked)
      PROVE  IdentitiesInv'
  BY <1>1, <1>2, OnlyRequestChanges DEF OnlyRequest
<1>3. ASSUME NEW kind \in Kinds, NEW s \in Subjects, NEW e \in Emails, Begin(q, kind, s, e)
      PROVE  IdentitiesInv'
  <2> DEFINE new == [pc |-> "subject", kind |-> kind, subject |-> s, email |-> e,
                     user |-> NoUser]
  <2>1. new \in Request
    BY DEF Request
  <2>2. kind \in {"github", "google"}
    BY <1>3 DEF Begin
  <2>3. SoundRequest(new, users, unlinked)
    BY <2>2 DEF SoundRequest
  <2> QED
    BY <1>2, <1>3, <2>1, <2>3 DEF Begin
<1>4. ASSUME NEW e \in Emails, BeginRegister(q, e) PROVE IdentitiesInv'
  <2> DEFINE new == [Idle EXCEPT !.pc = "email", !.email = e]
  <2>1. new \in Request
    BY DEF Request, Idle, Kinds
  <2>2. SoundRequest(new, users, unlinked)
    BY DEF SoundRequest, Idle
  <2> QED
    BY <1>2, <1>4, <2>1, <2>2 DEF BeginRegister
<1>5. ASSUME NEW u \in UserIds, NEW s \in Subjects, BeginConnect(q, u, s)
      PROVE  IdentitiesInv'
  <2> DEFINE pc == IF users[u].github \in {NoSubject, s} THEN "subject" ELSE "conflict"
             new == [pc |-> pc, kind |-> "connect", subject |-> s, email |-> users[u].email,
                     user |-> u]
  <2>1. users[u] \in User
    BY <1>5, RowsAreUsers DEF BeginConnect
  <2>2. users[u].email \in Emails
    BY <2>1 DEF User
  <2>3. pc \in {"subject", "conflict"}
    OBVIOUS
  <2>4. request' = [request EXCEPT ![q] = new] /\ OnlyRequest
    BY <1>5 DEF BeginConnect
  <2> HIDE DEF pc
  <2>5. new \in Request
    BY <2>2, <2>3 DEF Request, Over, Kinds
  <2>6. SoundRequest(new, users, unlinked)
    BY <2>1, <2>3 DEF SoundRequest, HasEmail
  <2> QED
    BY <1>2, <2>4, <2>5, <2>6
<1> QED
  BY <1>3, <1>4, <1>5

\* A row that the request may go on with is found.
LEMMA GoOnWithPreserves ==
  ASSUME IdentitiesInv, NEW q \in Requests, NEW u \in UserIds, NEW link,
         GoOnWith(q, u, link), OnlyRequest, users[u] \in User,
         request[q].pc # "pending", request[q].kind # "register",
         request[q].kind = "connect" => u = request[q].user,
         link = "link" \/ (link = "link again" /\ request[q].kind = "google"),
         users[u].email = request[q].email
  PROVE  IdentitiesInv'
<1>1. CASE users[u][Column(q)] = request[q].subject
  <2>1. GoWith(q, "return", u)
    BY <1>1 DEF GoOnWith
  <2> QED
    BY <1>1, <2>1, GoWithPreserves
<1>2. CASE /\ users[u][Column(q)] # request[q].subject
           /\ request[q].kind = "google" /\ users[u].google # NoSubject
  <2>1. GoWith(q, "conflict", u)
    BY <1>2 DEF GoOnWith
  <2> QED
    BY <2>1, GoWithPreserves
<1>3. CASE /\ users[u][Column(q)] # request[q].subject
           /\ ~(request[q].kind = "google" /\ users[u].google # NoSubject)
  <2>1. GoWith(q, link, u)
    BY <1>3 DEF GoOnWith
  <2> QED
    BY <2>1, GoWithPreserves
<1> QED
  BY <1>1, <1>2, <1>3

\* The first looks, by the account and by the email.
LEMMA FindPreserves ==
  ASSUME IdentitiesInv, NEW q \in Requests, FindSubject(q) \/ FindEmail(q)
  PROVE  IdentitiesInv'
<1> DEFINE r == request[q]
<1>1. SoundRequest(r, users, unlinked) /\ OnlyRequest
  BY RequestIsSound DEF FindSubject, FindEmail
<1>2. CASE FindSubject(q)
  <2>1. r.pc = "subject" /\ r.kind # "register"
    BY <1>1, <1>2 DEF FindSubject, At, SoundRequest
  <2>2. CASE r.kind = "connect"
    <3>1. r.user \in UserIds /\ users[r.user] \in User /\ users[r.user].email = r.email
      BY <1>1, <2>2 DEF SoundRequest, HasEmail
    <3>2. GoOnWith(q, r.user, "link") \/ Go(q, "conflict")
      BY <1>2, <2>2 DEF FindSubject
    <3> QED
      BY <1>1, <2>1, <3>1, <3>2, GoOnWithPreserves, GoPreserves
  <2>3. CASE r.kind # "connect"
    <3>1. \/ \E u \in BySubject(Column(q), r.subject) : GoWith(q, "return", u)
          \/ Go(q, "email")
      BY <1>2, <2>3 DEF FindSubject
    <3>2. ASSUME NEW u \in BySubject(Column(q), r.subject), GoWith(q, "return", u)
          PROVE  IdentitiesInv'
      <4>1. u \in UserIds /\ Exists(u) /\ users[u][Column(q)] = r.subject
        BY DEF BySubject
      <4> QED
        BY <1>1, <2>1, <2>3, <3>2, <4>1, RowsAreUsers, GoWithPreserves
    <3> QED
      BY <1>1, <2>1, <2>3, <3>1, <3>2, GoPreserves
  <2> QED
    BY <2>2, <2>3
<1>3. CASE FindEmail(q)
  <2>1. r.pc = "email" /\ r.kind # "connect"
    BY <1>1, <1>3 DEF FindEmail, At, SoundRequest
  <2>2. \/ Go(q, "insert")
        \/ \E u \in ByEmail(r.email) :
             IF r.kind = "register" THEN Go(q, "conflict") ELSE GoOnWith(q, u, "link")
    BY <1>3 DEF FindEmail
  <2>3. ASSUME NEW u \in ByEmail(r.email), r.kind # "register", GoOnWith(q, u, "link")
        PROVE  IdentitiesInv'
    <3>1. u \in UserIds /\ users[u] \in User /\ users[u].email = r.email
      BY RowsAreUsers DEF ByEmail
    <3> QED
      BY <1>1, <2>1, <2>3, <3>1, GoOnWithPreserves
  <2> QED
    BY <1>1, <2>1, <2>2, <2>3, GoPreserves
<1> QED
  BY <1>2, <1>3

\* The account is set on a row that exists, and the request is in.
LEMMA SignInBySetting ==
  ASSUME IdentitiesInv, NEW q \in Requests, NEW kind \in Providers, kind = Column(q),
         request[q].kind # "register", request[q].pc # "pending",
         request[q].user \in UserIds, users[request[q].user] \in User,
         SetSubject(kind, request[q].subject, request[q].user),
         Go(q, "in"), UNCHANGED linkToken
  PROVE  IdentitiesInv'
<1> DEFINE r == request[q]
           new == [request[q] EXCEPT !.pc = "in"]
<1>1. r \in Request /\ SoundRequest(r, users, unlinked) /\ r.subject \in Subjects
  BY RequestIsSound DEF SoundRequest
<1>2. /\ users' \in [UserIds -> User \cup {NoRow}]
      /\ unlinked' \subseteq Providers \X Subjects
      /\ Extends(users, users', unlinked, unlinked')
      /\ users'[r.user] \in User /\ users'[r.user][kind] = r.subject
  BY <1>1, SetSubjectExtends
<1>3. new \in Request
  BY <1>1 DEF Request, Over
<1>4. /\ new.pc = "in" /\ new.kind = r.kind /\ new.subject = r.subject
      /\ new.user = r.user /\ new.email = r.email
  BY <1>1 DEF Request
<1>5. AccountColumn(new) = kind
  BY <1>4 DEF AccountColumn, Column
<1>6. HasEmail(r.user, r, users) => HasEmail(r.user, r, users')
  BY <1>2 DEF HasEmail, Extends
<1>7. SoundRequest(new, users', unlinked')
  BY <1>1, <1>2, <1>4, <1>5, <1>6 DEF SoundRequest, HasAccount, HasEmail
<1>8. request' = [request EXCEPT ![q] = new]
  BY DEF Go
<1>9. /\ linkToken' \in [Requests -> {"none", "minted", "consumed"}]
      /\ linkToken'[q] # "minted"
  BY RequestIsSound
<1> QED
  BY <1>2, <1>3, <1>7, <1>8, <1>9, OneRequestChanges

\* Linking the row that was found, at first and after a refusal.
LEMMA LinkPreserves ==
  ASSUME IdentitiesInv, NEW q \in Requests, Link(q) \/ LinkAgain(q)
  PROVE  IdentitiesInv'
<1> DEFINE r == request[q]
<1>1. /\ SoundRequest(r, users, unlinked) /\ r.pc \in {"link", "link again"}
      /\ r.kind # "register" /\ r.user \in UserIds /\ users[r.user] \in User
      /\ LinkAgain(q) => r.kind = "google"
      /\ Link(q) => HasEmail(r.user, r, users)
  BY RequestIsSound DEF Link, LinkAgain, At, SoundRequest
<1>2. Column(q) \in Providers /\ (r.kind = "google" => Column(q) = "google")
  BY DEF Column, Providers
<1>3. CASE Link(q)
  <2>1. \/ Go(q, "subject again") /\ r.kind = "google" /\ OnlyRequest
        \/ Go(q, "failed") /\ OnlyRequest
        \/ /\ SetSubject(Column(q), r.subject, r.user)
           /\ Go(q, "in") /\ UNCHANGED linkToken
    BY <1>3 DEF Link
  <2>2. CASE Go(q, "subject again") /\ r.kind = "google" /\ OnlyRequest
    <3>1. \E u \in UserIds : HasEmail(u, r, users) \/ HasAccount(u, r, users)
      BY <1>1, <1>3
    <3> QED
      BY <1>1, <2>2, <3>1, GoPreserves
  <2>3. CASE Go(q, "failed") /\ OnlyRequest
    BY <1>1, <2>3, GoPreserves
  <2> QED
    BY <1>1, <1>2, <2>1, <2>2, <2>3, SignInBySetting
<1>4. CASE LinkAgain(q)
  <2>1. \/ Go(q, "conflict") /\ OnlyRequest
        \/ /\ SetSubject(Column(q), r.subject, r.user)
           /\ Go(q, "in") /\ UNCHANGED linkToken
    BY <1>1, <1>2, <1>4 DEF LinkAgain
  <2> QED
    BY <1>1, <1>2, <2>1, GoPreserves, SignInBySetting
<1> QED
  BY <1>3, <1>4


\* A row of its own is inserted with the account, or the insertion is refused.
LEMMA InsertPreserves ==
  ASSUME IdentitiesInv, NEW q \in Requests, Insert(q)
  PROVE  IdentitiesInv'
<1> DEFINE r == request[q]
<1>1. /\ r \in Request /\ SoundRequest(r, users, unlinked) /\ r.pc = "insert"
      /\ r.kind \in {"register", "github", "google"}
      /\ r.email \in Emails /\ linkToken[q] # "minted"
      /\ users \in [UserIds -> User \cup {NoRow}]
      /\ unlinked \subseteq Providers \X Subjects
      /\ linkToken \in [Requests -> {"none", "minted", "consumed"}]
  BY RequestIsSound DEF Insert, At, SoundRequest, Kinds
<1>2. CASE /\ ByEmail(r.email) # {} \/ (r.kind # "register" /\ BySubject(r.kind, r.subject) # {})
           /\ Go(q, AfterRefusal(q))
           /\ OnlyRequest
  <2>1. \/ AfterRefusal(q) = "conflict"
        \/ AfterRefusal(q) = "subject again" /\ r.kind # "register"
    BY DEF AfterRefusal
  <2>2. r.kind # "register" => \E u \in UserIds : \/ HasEmail(u, r, users)
                                                  \/ HasAccount(u, r, users)
    BY <1>1, <1>2, RowsAreUsers
    DEF ByEmail, BySubject, HasEmail, HasAccount, AccountColumn
  <2> QED
    BY <1>1, <1>2, <2>1, <2>2, GoPreserves
<1>3. ASSUME NEW u \in UserIds, ~Exists(u),
             users' = [users EXCEPT ![u] =
               [email |-> r.email,
                github |-> IF r.kind = "github" THEN r.subject ELSE NoSubject,
                google |-> IF r.kind = "google" THEN r.subject ELSE NoSubject]],
             GoWith(q, IF r.kind = "register" THEN "created" ELSE "in", u),
             UNCHANGED <<linkToken, unlinked>>
      PROVE  IdentitiesInv'
  <2> DEFINE row == [email |-> r.email,
                     github |-> IF r.kind = "github" THEN r.subject ELSE NoSubject,
                     google |-> IF r.kind = "google" THEN r.subject ELSE NoSubject]
             pc == IF r.kind = "register" THEN "created" ELSE "in"
             new == [request[q] EXCEPT !.pc = pc, !.user = u]
  <2>1. r.kind # "register" => r.subject \in Subjects
    BY <1>1 DEF SoundRequest
  <2>2. row \in User
    BY <1>1, <2>1 DEF User
  <2>3. users[u] \notin User
    <3>1. users[u] = NoRow
      BY <1>3 DEF Exists
    <3>2. NoRow \notin User
      BY DEF NoRow, User
    <3> QED
      BY <3>1, <3>2
  <2>4. users' = [users EXCEPT ![u] = row]
    BY <1>3
  <2> HIDE DEF row
  <2>5. users' \in [UserIds -> User \cup {NoRow}] /\ users'[u] = row
    BY <1>1, <2>2, <2>4
  <2>6. Extends(users, users', unlinked, unlinked')
    <3>1. \A w \in UserIds : users[w] \in User => users'[w] = users[w]
      BY <1>1, <2>3, <2>4
    <3>2. unlinked' = unlinked
      BY <1>3
    <3> QED
      BY <3>1, <3>2 DEF Extends
  <2>7. pc \in {"created", "in"} /\ (pc = "in" => r.kind \in Providers)
    BY <1>1 DEF Providers
  <2>8. request' = [request EXCEPT ![q] = new]
    BY <1>3 DEF GoWith
  <2> HIDE DEF pc
  <2>9. new \in Request
    BY <1>1, <2>7 DEF Request, Over
  <2>10. /\ new.pc = pc /\ new.kind = r.kind /\ new.subject = r.subject
         /\ new.user = u /\ new.email = r.email
    BY <1>1 DEF Request
  <2>11. r.kind \in Providers => row[AccountColumn(new)] = r.subject
    BY <2>10 DEF AccountColumn, Providers, row
  <2>12. SoundRequest(new, users', unlinked')
    BY <1>1, <2>1, <2>2, <2>5, <2>7, <2>10, <2>11 DEF SoundRequest, Providers, HasAccount
  <2> QED
    BY <1>1, <1>3, <2>5, <2>6, <2>8, <2>9, <2>12, OneRequestChanges
<1> QED
  BY <1>2, <1>3 DEF Insert

\* The second look, for the account, and the return of a known user.
LEMMA LookAgainPreserves ==
  ASSUME IdentitiesInv, NEW q \in Requests, FindSubjectAgain(q) \/ Return(q)
  PROVE  IdentitiesInv'
<1> DEFINE r == request[q]
<1>1. r \in Request /\ SoundRequest(r, users, unlinked)
  BY RequestIsSound
<1>2. CASE FindSubjectAgain(q)
  <2>1. r.pc = "subject again" /\ r.kind \in {"github", "google"} /\ OnlyRequest
    BY <1>1, <1>2, RequestIsSound DEF FindSubjectAgain, At, SoundRequest, Kinds
  <2>2. \/ \E u \in BySubject(Column(q), r.subject) : GoWith(q, "return", u)
        \/ BySubject(Column(q), r.subject) = {} /\ Go(q, "email again")
    BY <1>2 DEF FindSubjectAgain
  <2>3. ASSUME NEW u \in BySubject(Column(q), r.subject), GoWith(q, "return", u)
        PROVE  IdentitiesInv'
    <3>1. u \in UserIds /\ Exists(u) /\ users[u][Column(q)] = r.subject
      BY DEF BySubject
    <3> QED
      BY <2>1, <2>3, <3>1, RowsAreUsers, GoWithPreserves
  <2>4. ASSUME BySubject(Column(q), r.subject) = {}
        PROVE  (\E u \in UserIds : HasEmail(u, r, users)) \/ Replaced(r, unlinked)
    <3>1. \A u \in UserIds : ~HasAccount(u, r, users)
      BY <2>4 DEF BySubject, HasAccount, Exists, AccountColumn, Column, User, NoRow
    <3> QED
      BY <1>1, <2>1, <3>1 DEF SoundRequest
  <2> QED
    BY <2>1, <2>2, <2>3, <2>4, GoPreserves
<1>3. CASE Return(q)
  BY <1>3, GoPreserves DEF Return, At
<1> QED
  BY <1>2, <1>3

\* The second look, for the email: a link token is minted for the row that has it.
LEMMA EmailAgainPreserves ==
  ASSUME IdentitiesInv, NEW q \in Requests, FindEmailAgain(q)
  PROVE  IdentitiesInv'
<1> DEFINE r == request[q]
<1>1. /\ r \in Request /\ SoundRequest(r, users, unlinked)
      /\ r.pc = "email again" /\ r.kind \in {"github", "google"}
      /\ r.subject \in Subjects /\ linkToken[q] # "minted"
      /\ request \in [Requests -> Request]
      /\ linkToken \in [Requests -> {"none", "minted", "consumed"}]
  BY RequestIsSound
  DEF FindEmailAgain, At, SoundRequest, Kinds, IdentitiesInv, IdentitiesTypeOK
<1>2. CASE ByEmail(r.email) = {} /\ Go(q, "unresolved") /\ UNCHANGED linkToken
  <2>1. OnlyRequest
    BY <1>2 DEF FindEmailAgain, OnlyRequest
  <2>2. \A u \in UserIds : ~HasEmail(u, r, users)
    BY <1>2 DEF ByEmail, HasEmail, Exists, User, NoRow
  <2>3. Replaced(r, unlinked)
    BY <1>1, <2>2 DEF SoundRequest
  <2> QED
    BY <1>1, <1>2, <2>1, <2>3, GoPreserves
<1>3. ASSUME NEW u \in ByEmail(r.email),
             GoOnWith(q, u, IF r.kind = "google" THEN "link again" ELSE "pending"),
             linkToken' = IF request'[q].pc = "pending"
                            THEN [linkToken EXCEPT ![q] = "minted"] ELSE linkToken
      PROVE  IdentitiesInv'
  <2>1. u \in UserIds /\ users[u] \in User /\ users[u].email = r.email
    BY RowsAreUsers DEF ByEmail
  <2>2. UNCHANGED <<users, unlinked>>
    BY DEF FindEmailAgain
  <2>3. ASSUME NEW pc, GoWith(q, pc, u) PROVE request'[q].pc = pc
    BY <1>1, <2>3 DEF GoWith, Request
  <2>4. CASE r.kind = "google"
    <3>1. GoOnWith(q, u, "link again")
      BY <1>3, <2>4
    <3>2. \/ GoWith(q, "return", u) \/ GoWith(q, "conflict", u) \/ GoWith(q, "link again", u)
      BY <3>1 DEF GoOnWith
    <3>3. request'[q].pc # "pending"
      BY <2>3, <3>2
    <3>4. OnlyRequest
      BY <1>3, <2>2, <3>3 DEF OnlyRequest
    <3> QED
      BY <1>1, <2>1, <2>4, <3>1, <3>4, GoOnWithPreserves
  <2>5. CASE r.kind = "github" /\ users[u][Column(q)] = r.subject
    <3>1. GoWith(q, "return", u)
      BY <1>3, <2>5 DEF GoOnWith
    <3>2. OnlyRequest
      BY <1>3, <2>2, <2>3, <3>1 DEF OnlyRequest
    <3> QED
      BY <1>1, <2>1, <2>5, <3>1, <3>2, GoWithPreserves
  <2>6. CASE r.kind = "github" /\ users[u][Column(q)] # r.subject
    <3> DEFINE new == [request[q] EXCEPT !.pc = "pending", !.user = u]
    <3>1. GoWith(q, "pending", u)
      BY <1>3, <2>6 DEF GoOnWith
    <3>2. linkToken' = [linkToken EXCEPT ![q] = "minted"]
      BY <1>3, <2>3, <3>1
    <3>3. new \in Request
      BY <1>1, <2>1 DEF Request, Over
    <3>4. /\ new.pc = "pending" /\ new.kind = r.kind /\ new.subject = r.subject
          /\ new.user = u /\ new.email = r.email
      BY <1>1 DEF Request
    <3>5. SoundRequest(new, users', unlinked')
      BY <1>1, <2>1, <2>2, <2>6, <3>4 DEF SoundRequest, HasEmail
    <3>6. /\ users' \in [UserIds -> User \cup {NoRow}]
          /\ unlinked' \subseteq Providers \X Subjects
          /\ Extends(users, users', unlinked, unlinked')
      BY <2>2, RequestIsSound, SameTableExtends
    <3>7. /\ linkToken' \in [Requests -> {"none", "minted", "consumed"}]
          /\ \A o \in Requests : o # q => linkToken'[o] = linkToken[o]
      BY <1>1, <3>2
    <3>8. request' = [request EXCEPT ![q] = new]
      BY <3>1 DEF GoWith
    <3> QED
      BY ZenonT(30), <3>3, <3>4, <3>5, <3>6, <3>7, <3>8, OneRequestChanges
  <2> QED
    BY <1>1, <2>4, <2>5, <2>6
<1> QED
  BY <1>2, <1>3 DEF FindEmailAgain

\* A link that is confirmed sets its account on a row that exists.
LEMMA ConfirmPreserves ==
  ASSUME IdentitiesInv, NEW q \in Requests, Confirm(q)
  PROVE  IdentitiesInv'
<1> DEFINE r == request[q]
<1>1. r \in Request /\ SoundRequest(r, users, unlinked) /\ r.pc = "pending"
  BY RequestIsSound DEF Confirm
<1>2. r.subject \in Subjects /\ r.user \in UserIds /\ users[r.user] \in User
  BY <1>1 DEF SoundRequest
<1>3. /\ users' \in [UserIds -> User \cup {NoRow}]
      /\ unlinked' \subseteq Providers \X Subjects
      /\ Extends(users, users', unlinked, unlinked')
  BY <1>2, SetSubjectExtends DEF Confirm, Providers
<1>4. /\ linkToken' \in [Requests -> {"none", "minted", "consumed"}]
      /\ \A o \in Requests : linkToken'[o] = "minted" => linkToken[o] = "minted"
  BY RequestIsSound DEF Confirm
<1>5. request' = [request EXCEPT ![q] = r]
  BY DEF Confirm, IdentitiesInv, IdentitiesTypeOK
<1>6. SoundRequest(r, users', unlinked')
  BY <1>1, <1>3, ExtensionKeepsSound
<1> QED
  BY <1>1, <1>3, <1>4, <1>5, <1>6, OneRequestChanges

\* Every step, of any request, keeps IdentitiesInv.
LEMMA IdentitiesStepPreserves ==
  IdentitiesInv /\ [IdentitiesNext]_identityVars => IdentitiesInv'
<1> SUFFICES ASSUME IdentitiesInv, [IdentitiesNext]_identityVars PROVE IdentitiesInv'
  OBVIOUS
<1>1. CASE UNCHANGED identityVars
  <2>1. users' = users /\ request' = request /\ linkToken' = linkToken /\ unlinked' = unlinked
    BY <1>1 DEF identityVars
  <2>2. \A q \in Requests : SoundRequest(request'[q], users', unlinked')
    BY <2>1 DEF IdentitiesInv
  <2>3. IdentitiesTypeOK'
    BY <2>1 DEF IdentitiesInv, IdentitiesTypeOK
  <2> QED
    BY <2>1, <2>2, <2>3 DEF IdentitiesInv, At
<1>2. ASSUME NEW q \in Requests, IdentityStep(q) PROVE IdentitiesInv'
  BY <1>2, BeginPreserves, FindPreserves, LinkPreserves, InsertPreserves,
     LookAgainPreserves, EmailAgainPreserves, ConfirmPreserves DEF IdentityStep
<1> QED
  BY <1>1, <1>2 DEF IdentitiesNext

-----------------------------------------------------------------------------
(* The theorems *)

\* Whoever is signed in by a callback of services/github_oauth.py or google_oauth.py is signed
\* in as the user whose row has the account, or had it until another account replaced it.
THEOREM SignedInAsOwner == IdentitiesSpec => []SignedInIsOwner
<1>1. IdentitiesInv => SignedInIsOwner
  BY DEF IdentitiesInv, SoundRequest, HasAccount, Replaced, SignedInIsOwner, At,
         AccountColumn, Column
<1> QED
  BY IdentitiesInitEstablishes, IdentitiesStepPreserves, <1>1, PTL DEF IdentitiesSpec

\* When a unique index has refused a callback's write, the rescue path (github_oauth.py,
\* google_oauth.py) finds the row that refused it, unless that one lost the account since.
THEOREM RefusalAlwaysResolved == IdentitiesSpec => []RefusalIsResolved
<1>1. IdentitiesInv => RefusalIsResolved
  BY DEF IdentitiesInv, SoundRequest, Replaced, RefusalIsResolved, At, AccountColumn, Column
<1> QED
  BY IdentitiesInitEstablishes, IdentitiesStepPreserves, <1>1, PTL DEF IdentitiesSpec

-----------------------------------------------------------------------------
(***************************************************************************)
(* FirstLoginRaceIsResolved.  What makes it inductive: every email and     *)
(* account in the table is that of some request, so that a sign-in which   *)
(* only meets its own repetitions finds the email and the account on the   *)
(* same row, which no other has touched, and is never sent to link or      *)
(* refused for good.                                                       *)
(***************************************************************************)

Begun(q) == request[q].pc # "idle"

Traced ==
  /\ \A u \in UserIds : users[u] \in User =>
       /\ \E o \in Requests : Begun(o) /\ request[o].email = users[u].email
       /\ \A k \in Providers : users[u][k] # NoSubject =>
            \E o \in Requests : Begun(o) /\ request[o].subject = users[u][k]
  /\ \A k \in Providers, s \in Subjects : <<k, s>> \in unlinked =>
       \E o \in Requests : Begun(o) /\ request[o].subject = s

Undisturbed(q) == \A o \in Requests : At(o, "idle") \/ SameSignIn(q, o) \/ Unrelated(q, o)

\* The email and the account are on one row, if on any.
OneOwner(q) ==
  /\ \A u \in UserIds : users[u] \in User =>
       (users[u].email = request[q].email <=> users[u][Column(q)] = request[q].subject)
  /\ <<Column(q), request[q].subject>> \notin unlinked

OnCourse(q) == request[q].pc \in {"subject", "email", "return", "insert", "subject again", "in"}

RaceWon(q) == OneOwner(q) /\ OnCourse(q)

RaceInv ==
  /\ Traced
  /\ \A q \in Requests :
       Begun(q) /\ request[q].kind \in Providers /\ Undisturbed(q) => RaceWon(q)

\* What a step of request p does to the tables: nothing, the account on a row that has the
\* email, or a new row.
SameTables == users' = users /\ unlinked' = unlinked
Sets(p) ==
  \E u \in UserIds : /\ users[u] \in User /\ users[u].email = request[p].email
                     /\ request[p].subject \in Subjects
                     /\ SetSubject(Column(p), request[p].subject, u)
NewRow(r) == [email |-> r.email,
              github |-> IF r.kind = "github" THEN r.subject ELSE NoSubject,
              google |-> IF r.kind = "google" THEN r.subject ELSE NoSubject]
Inserts(p) ==
  \E u \in UserIds : /\ users[u] \notin User
                     /\ users' = [users EXCEPT ![u] = NewRow(request[p])]
                     /\ unlinked' = unlinked
                     /\ request[p].kind # "connect" /\ request[p].email \in Emails
                     /\ request[p].kind \in Providers => request[p].subject \in Subjects

\* A request keeps what it is about.
Proceeds(p) ==
  /\ Begun(p) /\ request'[p].pc # "idle"
  /\ request'[p].kind = request[p].kind /\ request'[p].subject = request[p].subject
  /\ request'[p].email = request[p].email

LEMMA GoProceeds ==
  ASSUME IdentitiesInv, NEW p \in Requests, Begun(p), NEW pc, pc # "idle",
         Go(p, pc) \/ \E u : GoWith(p, pc, u)
  PROVE  Proceeds(p) /\ (\A o \in Requests : o # p => request'[o] = request[o]) /\ request'[p].pc = pc
<1>1. request \in [Requests -> Request] /\ request[p] \in Request
  BY DEF IdentitiesInv, IdentitiesTypeOK
<1>2. CASE Go(p, pc)
  <2>1. request'[p] = [request[p] EXCEPT !.pc = pc] /\ \A o \in Requests : o # p => request'[o] = request[o]
    BY <1>1, <1>2 DEF Go
  <2> QED BY <1>1, <2>1 DEF Proceeds, Request
<1>3. CASE \E u : GoWith(p, pc, u)
  <2>1. PICK u : GoWith(p, pc, u)
    BY <1>3
  <2>2. /\ request'[p] = [request[p] EXCEPT !.pc = pc, !.user = u]
        /\ \A o \in Requests : o # p => request'[o] = request[o]
    BY <1>1, <2>1 DEF GoWith
  <2> QED BY <1>1, <2>2 DEF Proceeds, Request
<1> QED BY <1>2, <1>3

LEMMA NoRowIsNoUser == NoRow \notin User
  BY DEF NoRow, User

LEMMA StepEffect ==
  ASSUME IdentitiesInv, NEW p \in Requests, IdentityStep(p)
  PROVE  /\ \A o \in Requests : o # p => request'[o] = request[o]
         /\ \/ ~Begun(p) /\ SameTables /\ request'[p].pc # "idle"
            \/ Proceeds(p) /\ (SameTables \/ Sets(p) \/ Inserts(p))
<1> DEFINE others == \A o \in Requests : o # p => request'[o] = request[o]
           begins == ~Begun(p) /\ SameTables /\ request'[p].pc # "idle"
           goesOn == Proceeds(p) /\ (SameTables \/ Sets(p) \/ Inserts(p))
<1> SUFFICES others /\ (begins \/ goesOn)
  OBVIOUS
<1>1. /\ request \in [Requests -> Request] /\ request[p] \in Request
      /\ SoundRequest(request[p], users, unlinked)
      /\ linkToken[p] = "minted" => request[p].pc = "pending"
      /\ users \in [UserIds -> User \cup {NoRow}]
  BY RequestIsSound DEF IdentitiesInv, IdentitiesTypeOK
<1>2. ASSUME NEW new, new.pc # "idle", At(p, "idle"), request' = [request EXCEPT ![p] = new], OnlyRequest
      PROVE  others /\ ~Begun(p) /\ SameTables /\ request'[p].pc # "idle"
  BY <1>1, <1>2 DEF At, Begun, SameTables, OnlyRequest
<1>g. ASSUME Begun(p), NEW pc, pc # "idle", Go(p, pc) \/ \E u : GoWith(p, pc, u)
      PROVE  others /\ Proceeds(p)
  BY <1>g, GoProceeds
<1>o. ASSUME NEW u, NEW link, Begun(p), link # "idle", GoOnWith(p, u, link)
      PROVE  others /\ Proceeds(p)
  <2>1. GoWith(p, "return", u) \/ GoWith(p, "conflict", u) \/ GoWith(p, link, u)
    BY <1>o DEF GoOnWith
  <2> QED BY <2>1, <1>o, <1>g
<1>s. OnlyRequest => SameTables
  BY DEF OnlyRequest, SameTables
<1>3. ASSUME NEW kind, NEW s, NEW e, Begin(p, kind, s, e)
      PROVE  others /\ ~Begun(p) /\ SameTables /\ request'[p].pc # "idle"
  BY <1>2, <1>3 DEF Begin
<1>4. ASSUME NEW e, BeginRegister(p, e)
      PROVE  others /\ ~Begun(p) /\ SameTables /\ request'[p].pc # "idle"
  <2>1. [Idle EXCEPT !.pc = "email", !.email = e].pc = "email"
    BY DEF Idle
  <2> QED BY <1>2, <1>4, <2>1 DEF BeginRegister
<1>5. ASSUME NEW u, NEW s, BeginConnect(p, u, s)
      PROVE  others /\ ~Begun(p) /\ SameTables /\ request'[p].pc # "idle"
  <2> DEFINE pc == IF users[u].github \in {NoSubject, s} THEN "subject" ELSE "conflict"
             new == [pc |-> pc, kind |-> "connect", subject |-> s, email |-> users[u].email, user |-> u]
  <2>1. At(p, "idle") /\ request' = [request EXCEPT ![p] = new] /\ OnlyRequest
    BY <1>5 DEF BeginConnect
  <2>2. pc # "idle"
    OBVIOUS
  <2> HIDE DEF pc
  <2>3. new.pc # "idle"
    BY <2>2
  <2> QED BY <2>1, <2>3, <1>2
<1>6. CASE FindSubject(p)
  <2>1. OnlyRequest /\ Begun(p)
    BY <1>6 DEF FindSubject, At, Begun
  <2>2. \/ \E u : GoOnWith(p, u, "link")
        \/ Go(p, "conflict") \/ Go(p, "email") \/ \E u : GoWith(p, "return", u)
    BY <1>6 DEF FindSubject
  <2> QED BY <2>1, <2>2, <1>g, <1>o, <1>s
<1>7. CASE FindEmail(p)
  <2>1. OnlyRequest /\ Begun(p)
    BY <1>7 DEF FindEmail, At, Begun
  <2>2. Go(p, "insert") \/ Go(p, "conflict") \/ \E u : GoOnWith(p, u, "link")
    BY <1>7 DEF FindEmail
  <2> QED BY <2>1, <2>2, <1>g, <1>o, <1>s
<1>8. CASE Return(p)
  BY <1>8, <1>g, <1>s DEF Return, At, Begun
<1>9. CASE Link(p)
  <2>1. /\ Begun(p) /\ request[p].pc = "link" /\ request[p].user \in UserIds
        /\ users[request[p].user] \in User /\ users[request[p].user].email = request[p].email
        /\ request[p].subject \in Subjects
    BY <1>1, <1>9 DEF Link, At, Begun, SoundRequest, HasEmail
  <2>2. \/ (Go(p, "subject again") \/ Go(p, "failed")) /\ OnlyRequest
        \/ SetSubject(Column(p), request[p].subject, request[p].user) /\ Go(p, "in")
    BY <1>9 DEF Link
  <2> QED BY <2>1, <2>2, <1>g, <1>s DEF Sets
<1>10. CASE LinkAgain(p)
  <2>1. /\ Begun(p) /\ request[p].pc = "link again" /\ request[p].user \in UserIds
        /\ users[request[p].user] \in User /\ users[request[p].user].email = request[p].email
        /\ request[p].subject \in Subjects /\ Column(p) = "google"
    BY <1>1, <1>10 DEF LinkAgain, At, Begun, SoundRequest, HasEmail, Column
  <2>2. \/ Go(p, "conflict") /\ OnlyRequest
        \/ SetSubject(Column(p), request[p].subject, request[p].user) /\ Go(p, "in")
    BY <1>10, <2>1 DEF LinkAgain
  <2> QED BY <2>1, <2>2, <1>g, <1>s DEF Sets
<1>11. CASE Insert(p)
  <2>1. Begun(p) /\ request[p].pc = "insert"
    BY <1>11 DEF Insert, At, Begun
  <2>2. /\ request[p].kind # "connect" /\ request[p].email \in Emails
        /\ request[p].kind \in Providers => request[p].subject \in Subjects
    BY <1>1, <2>1 DEF SoundRequest, Request, Providers
  <2>3. CASE Go(p, AfterRefusal(p)) /\ OnlyRequest
    <3>1. AfterRefusal(p) # "idle"
      BY DEF AfterRefusal
    <3> QED BY <2>1, <2>3, <3>1, <1>g, <1>s
  <2>4. ASSUME NEW u \in UserIds, ~Exists(u), users' = [users EXCEPT ![u] = NewRow(request[p])],
               GoWith(p, IF request[p].kind = "register" THEN "created" ELSE "in", u),
               unlinked' = unlinked
        PROVE  others /\ Proceeds(p) /\ Inserts(p)
    <3>1. users[u] \notin User
      BY <2>4, NoRowIsNoUser DEF Exists
    <3>2. (IF request[p].kind = "register" THEN "created" ELSE "in") # "idle"
      OBVIOUS
    <3>3. others /\ Proceeds(p)
      BY <2>1, <2>4, <3>2, <1>g
    <3>4. Inserts(p)
      BY <2>2, <2>4, <3>1 DEF Inserts
    <3> QED BY <3>3, <3>4
  <2> QED BY <1>11, <2>3, <2>4 DEF Insert, NewRow
<1>12. CASE FindSubjectAgain(p)
  <2>1. OnlyRequest /\ Begun(p) /\ (Go(p, "email again") \/ \E u : GoWith(p, "return", u))
    BY <1>12 DEF FindSubjectAgain, At, Begun
  <2> QED BY <2>1, <1>g, <1>s
<1>13. CASE FindEmailAgain(p)
  <2>1. SameTables /\ Begun(p)
    BY <1>13 DEF FindEmailAgain, At, Begun, SameTables
  <2>2. \/ Go(p, "unresolved")
        \/ \E u : GoOnWith(p, u, "link again") \/ GoOnWith(p, u, "pending")
    BY <1>13 DEF FindEmailAgain
  <2> QED BY <2>1, <2>2, <1>g, <1>o
<1>14. CASE Confirm(p)
  <2>1. request[p].pc = "pending"
    BY <1>1, <1>14 DEF Confirm
  <2>2. /\ request[p].user \in UserIds /\ users[request[p].user] \in User
        /\ users[request[p].user].email = request[p].email /\ request[p].subject \in Subjects
        /\ request[p].kind = "github" /\ Column(p) = "github"
    BY <2>1, <1>1 DEF SoundRequest, HasEmail, Column
  <2>3. SetSubject(Column(p), request[p].subject, request[p].user) /\ request' = request
    BY <1>14, <2>2 DEF Confirm
  <2>4. Begun(p) /\ Proceeds(p)
    BY <2>1, <2>3 DEF Begun, Proceeds
  <2> QED BY <2>2, <2>3, <2>4 DEF Sets
<1>15. CASE (\E kind, s, e : Begin(p, kind, s, e)) \/ (\E e : BeginRegister(p, e))
            \/ (\E u, s : BeginConnect(p, u, s))
  BY <1>3, <1>4, <1>5, <1>15
<1> HIDE DEF others, begins, goesOn
<1> QED
  BY <1>6, <1>7, <1>8, <1>9, <1>10, <1>11, <1>12, <1>13, <1>14, <1>15 DEF IdentityStep

\* Every row after a step of p is an old one or has p's email; the accounts on it were there,
\* on a row that had p's email, or are p's.
Touches(p) ==
  /\ \A w \in UserIds : users'[w] \in User =>
       \/ users[w] \in User /\ users'[w] = users[w]
       \/ /\ users'[w].email = request[p].email
          /\ request[p].kind # "register" => users'[w][Column(p)] = request[p].subject
          /\ \A k \in Providers :
               \/ users'[w][k] = NoSubject
               \/ users'[w][k] = request[p].subject
               \/ /\ users[w] \in User /\ users[w].email = request[p].email
                  /\ users'[w][k] = users[w][k]
  /\ \A k \in Providers, s \in Subjects : <<k, s>> \in unlinked' =>
       \/ <<k, s>> \in unlinked
       \/ /\ k = Column(p) => s # request[p].subject
          /\ \E w \in UserIds : /\ users[w] \in User /\ users[w].email = request[p].email
                                /\ users[w][k] = s

LEMMA StepTouches ==
  ASSUME IdentitiesInv, NEW p \in Requests, SameTables \/ Sets(p) \/ Inserts(p)
  PROVE  Touches(p)
<1>1. /\ users \in [UserIds -> User \cup {NoRow}] /\ unlinked \subseteq Providers \X Subjects
      /\ request[p] \in Request
  BY DEF IdentitiesInv, IdentitiesTypeOK, Providers
<1>2. CASE SameTables
  BY <1>1, <1>2, NoRowIsNoUser DEF SameTables, Touches
<1>3. CASE Sets(p)
  <2>1. PICK u \in UserIds :
          /\ users[u] \in User /\ users[u].email = request[p].email
          /\ request[p].subject \in Subjects /\ SetSubject(Column(p), request[p].subject, u)
    BY <1>3 DEF Sets
  <2> DEFINE s == request[p].subject
             row == [users[u] EXCEPT ![Column(p)] = s]
  <2>2. Column(p) \in Providers
    BY DEF Column, Providers
  <2>3. users' = [users EXCEPT ![u] = row]
    BY <2>1 DEF SetSubject
  <2>4. /\ row.email = request[p].email /\ row[Column(p)] = s
        /\ \A k \in Providers : k # Column(p) => row[k] = users[u][k]
    BY <2>1, <2>2 DEF User, Providers
  <2>5. unlinked' = unlinked \cup ({Column(p)} \X ({users[u][Column(p)]} \ {NoSubject, s}))
    BY <2>1 DEF SetSubject
  <2> HIDE DEF row
  <2>6. ASSUME NEW w \in UserIds, users'[w] \in User
        PROVE  \/ users[w] \in User /\ users'[w] = users[w]
               \/ /\ users'[w].email = request[p].email
                  /\ request[p].kind # "register" => users'[w][Column(p)] = request[p].subject
                  /\ \A k \in Providers :
                       \/ users'[w][k] = NoSubject
                       \/ users'[w][k] = request[p].subject
                       \/ /\ users[w] \in User /\ users[w].email = request[p].email
                          /\ users'[w][k] = users[w][k]
    <3>1. CASE w # u
      BY <1>1, <2>3, <2>6, <3>1
    <3>2. CASE w = u
      <4>1. users'[w] = row
        BY <1>1, <2>3, <3>2
      <4> QED
        BY <2>1, <2>4, <3>2, <4>1
    <3> QED
      BY <3>1, <3>2
  <2>7. ASSUME NEW k \in Providers, NEW x \in Subjects, <<k, x>> \in unlinked', <<k, x>> \notin unlinked
        PROVE  k = Column(p) /\ x # s /\ users[u][k] = x
    BY <2>5, <2>7
  <2> QED
    BY <2>1, <2>6, <2>7 DEF Touches
<1>4. CASE Inserts(p)
  <2>1. PICK u \in UserIds :
          /\ users[u] \notin User /\ users' = [users EXCEPT ![u] = NewRow(request[p])]
          /\ unlinked' = unlinked /\ request[p].kind # "connect"
    BY <1>4 DEF Inserts
  <2>2. /\ NewRow(request[p]).email = request[p].email
        /\ \A k \in Providers : NewRow(request[p])[k] \in {NoSubject, request[p].subject}
        /\ request[p].kind # "register" => NewRow(request[p])[Column(p)] = request[p].subject
    <3> DEFINE row == NewRow(request[p])
    <3>1. /\ row.email = request[p].email
          /\ row.github = IF request[p].kind = "github" THEN request[p].subject ELSE NoSubject
          /\ row.google = IF request[p].kind = "google" THEN request[p].subject ELSE NoSubject
      BY DEF NewRow
    <3>2. request[p].kind \in {"register", "github", "google"}
      BY <1>1, <2>1 DEF Request, Kinds
    <3> HIDE DEF row
    <3>3. \A k \in Providers : row[k] \in {NoSubject, request[p].subject}
      BY <3>1 DEF Providers
    <3>4. request[p].kind # "register" => row[Column(p)] = request[p].subject
      BY <3>1, <3>2 DEF Column
    <3> QED
      BY <3>1, <3>3, <3>4 DEF row
  <2>3. ASSUME NEW w \in UserIds, users'[w] \in User, w # u
        PROVE  users[w] \in User /\ users'[w] = users[w]
    BY <1>1, <2>1, <2>3
  <2>4. users'[u] = NewRow(request[p])
    BY <1>1, <2>1
  <2> QED
    BY <2>1, <2>2, <2>3, <2>4 DEF Touches
<1> QED
  BY <1>2, <1>3, <1>4

\* What is begun is never something else.
LEMMA BegunKeeps ==
  ASSUME IdentitiesInv, NEW p \in Requests, IdentityStep(p), NEW o \in Requests, Begun(o)
  PROVE  /\ request'[o].pc # "idle" /\ request'[o].kind = request[o].kind
         /\ request'[o].subject = request[o].subject /\ request'[o].email = request[o].email
BY StepEffect DEF Begun, Proceeds

LEMMA TracedStep ==
  ASSUME IdentitiesInv, Traced, NEW p \in Requests, IdentityStep(p)
  PROVE  Traced'
<1>1. Touches(p) /\ (Begun(p) \/ SameTables)
  BY StepEffect, StepTouches DEF Proceeds
<1>2. \A o \in Requests : Begun(o) => /\ request'[o].pc # "idle"
        /\ request'[o].subject = request[o].subject /\ request'[o].email = request[o].email
  BY BegunKeeps
<1>3. /\ users \in [UserIds -> User \cup {NoRow}] /\ users' \in [UserIds -> User \cup {NoRow}]
      /\ unlinked \subseteq Providers \X Subjects
  BY IdentitiesStepPreserves DEF IdentitiesInv, IdentitiesTypeOK, IdentitiesNext, Providers
<1>4. CASE SameTables
  BY <1>2, <1>4 DEF Traced, SameTables, Begun
<1>5. CASE Begun(p)
  <2>1. ASSUME NEW u \in UserIds, users'[u] \in User
        PROVE  /\ \E o \in Requests : request'[o].pc # "idle" /\ request'[o].email = users'[u].email
               /\ \A k \in Providers : users'[u][k] # NoSubject =>
                    \E o \in Requests : request'[o].pc # "idle" /\ request'[o].subject = users'[u][k]
    <3>1. CASE users[u] \in User /\ users'[u] = users[u]
      BY <1>2, <3>1 DEF Traced
    <3>2. CASE /\ users'[u].email = request[p].email
               /\ \A k \in Providers :
                    \/ users'[u][k] = NoSubject
                    \/ users'[u][k] = request[p].subject
                    \/ /\ users[u] \in User /\ users[u].email = request[p].email
                       /\ users'[u][k] = users[u][k]
      BY <1>2, <1>5, <3>2 DEF Traced
    <3> QED
      BY <1>1, <2>1, <3>1, <3>2 DEF Touches
  <2>2. ASSUME NEW k \in Providers, NEW s \in Subjects, <<k, s>> \in unlinked'
        PROVE  \E o \in Requests : request'[o].pc # "idle" /\ request'[o].subject = s
    <3>1. CASE <<k, s>> \in unlinked
      BY <1>2, <3>1 DEF Traced
    <3>2. CASE <<k, s>> \notin unlinked
      <4>1. PICK w \in UserIds : users[w] \in User /\ users[w][k] = s
        BY <1>1, <2>2, <3>2 DEF Touches
      <4>2. s # NoSubject
        BY IdentitiesAssumption
      <4> QED
        BY <1>2, <4>1, <4>2 DEF Traced
    <3> QED
      BY <3>1, <3>2
  <2> QED
    BY <2>1, <2>2 DEF Traced, Begun
<1> QED
  BY <1>1, <1>4, <1>5

\* No step separates the email and the account of a sign-in that meets only its repetitions.
LEMMA OneOwnerKept ==
  ASSUME IdentitiesInv, NEW p \in Requests, Touches(p), NEW q \in Requests,
         request[q].kind \in Providers, request[q].subject \in Subjects,
         SameSignIn(q, p) \/ Unrelated(q, p), OneOwner(q)
  PROVE  /\ \A u \in UserIds : users'[u] \in User =>
              (users'[u].email = request[q].email <=> users'[u][Column(q)] = request[q].subject)
         /\ <<Column(q), request[q].subject>> \notin unlinked'
<1> DEFINE e == request[q].email
           s == request[q].subject
           k == Column(q)
<1>1. k \in Providers /\ s # NoSubject /\ request[q].kind # "register"
  BY IdentitiesAssumption DEF Column, Providers
<1>2. SameSignIn(q, p) => k = Column(p)
  BY DEF SameSignIn, Column
<1> HIDE DEF k
<1>3. ASSUME NEW u \in UserIds, users'[u] \in User
      PROVE  users'[u].email = e <=> users'[u][k] = s
  <2>1. CASE users[u] \in User /\ users'[u] = users[u]
    BY <2>1 DEF OneOwner, k
  <2>2. CASE /\ users'[u].email = request[p].email
             /\ request[p].kind # "register" => users'[u][Column(p)] = request[p].subject
             /\ \/ users'[u][k] = NoSubject
                \/ users'[u][k] = request[p].subject
                \/ /\ users[u] \in User /\ users[u].email = request[p].email
                   /\ users'[u][k] = users[u][k]
    <3>1. CASE SameSignIn(q, p)
      BY <1>1, <1>2, <2>2, <3>1 DEF SameSignIn
    <3>2. CASE Unrelated(q, p)
      <4>1. users'[u].email # e
        BY <2>2, <3>2 DEF Unrelated
      <4>2. users[u] \in User /\ users[u].email = request[p].email => users[u][k] # s
        BY <3>2 DEF Unrelated, OneOwner, k
      <4>3. users'[u][k] # s
        BY <1>1, <2>2, <3>2, <4>2 DEF Unrelated
      <4> QED
        BY <4>1, <4>3
    <3> QED
      BY <3>1, <3>2
  <2> QED
    BY <1>1, <1>3, <2>1, <2>2 DEF Touches
<1>4. ASSUME <<k, s>> \in unlinked' PROVE FALSE
  <2>1. <<k, s>> \notin unlinked
    BY DEF OneOwner, k
  <2>2. k = Column(p) => s # request[p].subject
    BY <1>1, <1>4, <2>1 DEF Touches
  <2>3. PICK w \in UserIds :
          users[w] \in User /\ users[w].email = request[p].email /\ users[w][k] = s
    BY <1>1, <1>4, <2>1 DEF Touches
  <2>4. CASE SameSignIn(q, p)
    BY <1>2, <2>2, <2>4 DEF SameSignIn
  <2>5. CASE Unrelated(q, p)
    BY <2>3, <2>5 DEF Unrelated, OneOwner, k
  <2> QED
    BY <2>4, <2>5
<1> QED
  BY <1>3, <1>4 DEF k

\* Such a sign-in takes the way that ends in a session.
LEMMA StaysOnCourse ==
  ASSUME IdentitiesInv, NEW q \in Requests, IdentityStep(q), Begun(q),
         request[q].kind \in {"github", "google"}, RaceWon(q)
  PROVE  OnCourse(q)'
<1> DEFINE r == request[q]
<1>1. /\ SoundRequest(r, users, unlinked) /\ request \in [Requests -> Request]
      /\ linkToken[q] = "minted" => r.pc = "pending"
      /\ AccountColumn(r) = Column(q)
  BY RequestIsSound DEF IdentitiesInv, IdentitiesTypeOK, AccountColumn, Column
<1>2. OnCourse(q) /\ OneOwner(q)
  BY DEF RaceWon
<1>g. ASSUME NEW pc, pc \in {"subject", "email", "return", "insert", "subject again", "in"},
             Go(q, pc) \/ \E u : GoWith(q, pc, u)
      PROVE  OnCourse(q)'
  <2>1. request'[q].pc = pc
    BY <1>g, GoProceeds
  <2> QED BY <2>1, <1>g DEF OnCourse
<1>3. ~At(q, "idle") /\ ~At(q, "link") /\ ~At(q, "email again") /\ ~At(q, "link again")
        /\ linkToken[q] # "minted"
  BY <1>1, <1>2 DEF OnCourse, At
<1>4. CASE FindSubject(q)
  <2>1. Go(q, "email") \/ \E u : GoWith(q, "return", u)
    BY <1>4 DEF FindSubject
  <2> QED BY <2>1, <1>g
<1>5. CASE FindEmail(q)
  <2>1. Go(q, "insert") \/ \E u \in ByEmail(r.email) : GoOnWith(q, u, "link")
    BY <1>5 DEF FindEmail
  <2>2. ASSUME NEW u \in ByEmail(r.email), GoOnWith(q, u, "link")
        PROVE  GoWith(q, "return", u)
    <3>1. u \in UserIds /\ users[u] \in User /\ users[u].email = r.email
      BY RowsAreUsers DEF ByEmail
    <3>2. users[u][Column(q)] = r.subject
      BY <1>2, <3>1 DEF OneOwner
    <3> QED BY <2>2, <3>2 DEF GoOnWith
  <2> QED BY <2>1, <2>2, <1>g
<1>6. CASE Return(q)
  BY <1>6, <1>g DEF Return
<1>7. CASE Insert(q)
  <2>1. Go(q, "subject again") \/ \E u : GoWith(q, "in", u)
    BY <1>7 DEF Insert, AfterRefusal
  <2> QED BY <2>1, <1>g
<1>8. CASE FindSubjectAgain(q)
  <2>1. r.pc = "subject again"
    BY <1>8 DEF FindSubjectAgain, At
  <2>2. PICK u \in UserIds : HasEmail(u, r, users) \/ HasAccount(u, r, users)
    BY <1>1, <1>2, <2>1 DEF SoundRequest, Replaced, OneOwner
  <2>3. users[u] \in User /\ users[u][Column(q)] = r.subject
    BY <1>1, <1>2, <2>2 DEF HasEmail, HasAccount, OneOwner
  <2>4. u \in BySubject(Column(q), r.subject)
    BY <2>3, NoRowIsNoUser DEF BySubject, Exists
  <2>5. \E w : GoWith(q, "return", w)
    BY <1>8, <2>4 DEF FindSubjectAgain
  <2> QED BY <2>5, <1>g
<1> QED
  BY <1>3, <1>4, <1>5, <1>6, <1>7, <1>8
  DEF IdentityStep, Begin, BeginRegister, BeginConnect, Link, FindEmailAgain, LinkAgain, Confirm

\* A sign-in that has just begun: the account is where its repetitions have it, or nowhere.
LEMMA BeginsWithOneOwner ==
  ASSUME IdentitiesInv, RaceInv, NEW q \in Requests, IdentityStep(q), ~Begun(q),
         request'[q].kind \in Providers, Undisturbed(q)'
  PROVE  RaceWon(q)'
<1>1. SameTables /\ \A o \in Requests : o # q => request'[o] = request[o]
  BY StepEffect DEF Proceeds
<1>2. PICK new : /\ request' = [request EXCEPT ![q] = new]
                 /\ new.kind \in Providers => new.pc = "subject" /\ new.subject \in Subjects
  <2>1. /\ ~At(q, "subject") /\ ~At(q, "email") /\ ~At(q, "return") /\ ~At(q, "link")
        /\ ~At(q, "insert") /\ ~At(q, "subject again") /\ ~At(q, "email again")
        /\ ~At(q, "link again") /\ linkToken[q] # "minted"
    BY DEF Begun, At, IdentitiesInv
  <2>2. \/ \E kind \in Kinds, s \in Subjects, e \in Emails : Begin(q, kind, s, e)
        \/ \E e \in Emails : BeginRegister(q, e)
        \/ \E u \in UserIds, s \in Subjects : BeginConnect(q, u, s)
    BY <2>1 DEF IdentityStep, FindSubject, FindEmail, Return, Link, Insert, FindSubjectAgain,
                FindEmailAgain, LinkAgain, Confirm
  <2>3. ASSUME NEW kind \in Kinds, NEW s \in Subjects, NEW e \in Emails, Begin(q, kind, s, e)
        PROVE  \E new : /\ request' = [request EXCEPT ![q] = new]
                        /\ new.kind \in Providers => new.pc = "subject" /\ new.subject \in Subjects
    <3> DEFINE new == [pc |-> "subject", kind |-> kind, subject |-> s, email |-> e, user |-> NoUser]
    <3>1. request' = [request EXCEPT ![q] = new]
      BY <2>3 DEF Begin
    <3>2. new.pc = "subject" /\ new.subject \in Subjects
      OBVIOUS
    <3> HIDE DEF new
    <3> QED BY <3>1, <3>2
  <2>4. ASSUME NEW e \in Emails, BeginRegister(q, e)
        PROVE  \E new : /\ request' = [request EXCEPT ![q] = new]
                        /\ new.kind \in Providers => new.pc = "subject" /\ new.subject \in Subjects
    <3> DEFINE new == [Idle EXCEPT !.pc = "email", !.email = e]
    <3>1. request' = [request EXCEPT ![q] = new]
      BY <2>4 DEF BeginRegister
    <3>2. new.kind \notin Providers
      BY DEF Idle, Providers
    <3> HIDE DEF new
    <3> QED BY <3>1, <3>2
  <2>5. ASSUME NEW u \in UserIds, NEW s \in Subjects, BeginConnect(q, u, s)
        PROVE  \E new : /\ request' = [request EXCEPT ![q] = new]
                        /\ new.kind \in Providers => new.pc = "subject" /\ new.subject \in Subjects
    <3> DEFINE new == [pc |-> IF users[u].github \in {NoSubject, s} THEN "subject" ELSE "conflict",
                       kind |-> "connect", subject |-> s, email |-> users[u].email, user |-> u]
    <3>1. request' = [request EXCEPT ![q] = new]
      BY <2>5 DEF BeginConnect
    <3>2. new.kind \notin Providers
      BY DEF Providers
    <3> HIDE DEF new
    <3> QED BY <3>1, <3>2
  <2> QED
    BY <2>2, <2>3, <2>4, <2>5
<1>3. /\ request'[q] = new /\ request \in [Requests -> Request]
      /\ users \in [UserIds -> User \cup {NoRow}]
  BY <1>2 DEF IdentitiesInv, IdentitiesTypeOK
<1>4. OnCourse(q)' /\ request'[q].subject \in Subjects /\ request'[q].pc # "idle"
  BY <1>2, <1>3 DEF OnCourse
<1> DEFINE e == request'[q].email
           s == request'[q].subject
           k == IF request'[q].kind = "google" THEN "google" ELSE "github"
<1>5. k \in Providers /\ s # NoSubject
  BY <1>4, IdentitiesAssumption DEF Providers
<1>6. \A o \in Requests : Begun(o) =>
        /\ o # q /\ request'[o] = request[o]
        /\ \/ request[o].kind = request'[q].kind /\ request[o].subject = s /\ request[o].email = e
           \/ request[o].subject # s /\ request[o].email # e
  BY <1>1 DEF Undisturbed, Begun, At, SameSignIn, Unrelated
<1>7. \A o \in Requests : Begun(o) \/ o = q \/ At(o, "idle")
  BY DEF Begun, At
<1>8. (\A u \in UserIds : users[u] \in User => (users[u].email = e <=> users[u][k] = s))
        /\ <<k, s>> \notin unlinked
  <2>1. CASE \E o \in Requests : Begun(o) /\ request[o].email = e
    <3>1. PICK o \in Requests : Begun(o) /\ request[o].email = e
      BY <2>1
    <3>2. request[o].kind = request'[q].kind /\ request[o].subject = s
      BY <1>6, <3>1
    <3>3. Column(o) = k
      BY <3>2 DEF Column
    <3> HIDE DEF e, s, k
    <3>4. \A x \in Requests : At(x, "idle") \/ SameSignIn(o, x) \/ Unrelated(o, x)
      BY <1>6, <3>1, <3>2 DEF Begun, At, SameSignIn, Unrelated
    <3>5. OneOwner(o)
      BY <3>1, <3>2, <3>4 DEF RaceInv, RaceWon, Undisturbed
    <3> QED
      BY <3>1, <3>2, <3>3, <3>5 DEF OneOwner
  <2>2. CASE ~\E o \in Requests : Begun(o) /\ request[o].email = e
    <3>1. ~\E o \in Requests : Begun(o) /\ request[o].subject = s
      BY <1>6, <2>2
    <3> HIDE DEF e, s, k
    <3>2. s \in Subjects
      BY <1>4 DEF s
    <3> QED
      BY <1>5, <2>2, <3>1, <3>2 DEF RaceInv, Traced
  <2> QED
    BY <2>1, <2>2
<1>9. OneOwner(q)'
  <2> HIDE DEF e, s
  <2>1. Column(q)' = k
    BY DEF Column
  <2> HIDE DEF k
  <2>2. users' = users /\ unlinked' = unlinked
    BY <1>1 DEF SameTables
  <2> QED
    BY <1>8, <2>1, <2>2 DEF OneOwner, e, s
<1> QED
  BY <1>4, <1>9 DEF RaceWon

LEMMA RaceStep ==
  ASSUME IdentitiesInv, RaceInv, NEW p \in Requests, IdentityStep(p)
  PROVE  RaceInv'
<1>1. Traced'
  BY TracedStep DEF RaceInv
<1>2. ASSUME NEW q \in Requests, Begun(q)', request'[q].kind \in Providers, Undisturbed(q)'
      PROVE  RaceWon(q)'
  <2>1. CASE ~Begun(q)
    <3>1. q = p
      BY <1>2, <2>1, StepEffect DEF Begun
    <3> QED
      BY <1>2, <2>1, <3>1, BeginsWithOneOwner
  <2>2. CASE Begun(q)
    <3>1. /\ request'[q].kind = request[q].kind /\ request'[q].subject = request[q].subject
          /\ request'[q].email = request[q].email
      BY <2>2, BegunKeeps
    <3>2. \A o \in Requests : Begun(o) =>
            /\ request'[o].pc # "idle" /\ request'[o].kind = request[o].kind
            /\ request'[o].subject = request[o].subject /\ request'[o].email = request[o].email
      BY BegunKeeps
    <3>3. \A o \in Requests : At(o, "idle") \/ SameSignIn(q, o) \/ Unrelated(q, o)
      BY <1>2, <3>1, <3>2 DEF Undisturbed, At, Begun, SameSignIn, Unrelated
    <3>4. OneOwner(q) /\ OnCourse(q)
      BY <1>2, <2>2, <3>1, <3>3 DEF RaceInv, RaceWon, Undisturbed
    <3>5. request[q].kind \in Providers /\ request[q].subject \in Subjects
      <4>1. request[q].kind \in Providers
        BY <1>2, <3>1
      <4>2. SoundRequest(request[q], users, unlinked)
        BY RequestIsSound
      <4> QED
        BY <4>1, <4>2 DEF SoundRequest, Providers
    <3>6. OneOwner(q)'
      <4>1. CASE SameTables
        BY <3>1, <3>4, <4>1 DEF OneOwner, Column, SameTables
      <4>2. CASE Begun(p) /\ Touches(p)
        <5>1. SameSignIn(q, p) \/ Unrelated(q, p)
          BY <3>3, <4>2 DEF Begun, At
        <5>2. /\ \A u \in UserIds : users'[u] \in User =>
                   (users'[u].email = request[q].email <=> users'[u][Column(q)] = request[q].subject)
              /\ <<Column(q), request[q].subject>> \notin unlinked'
          BY <3>4, <3>5, <4>2, <5>1, OneOwnerKept
        <5> QED
          BY <3>1, <5>2 DEF OneOwner, Column
      <4> QED
        BY <4>1, <4>2, StepEffect, StepTouches DEF Proceeds
    <3>7. OnCourse(q)'
      <4>1. CASE q = p
        BY <2>2, <3>4, <3>5, <4>1, StaysOnCourse DEF RaceWon, Providers
      <4>2. CASE q # p
        BY <3>4, <4>2, StepEffect DEF OnCourse
      <4> QED
        BY <4>1, <4>2
    <3> QED
      BY <3>6, <3>7 DEF RaceWon
  <2> QED
    BY <2>1, <2>2
<1> QED
  BY <1>1, <1>2 DEF RaceInv

LEMMA RaceStutters ==
  ASSUME RaceInv, users' = users, request' = request, unlinked' = unlinked
  PROVE  RaceInv'
<1>1. Traced'
  BY DEF RaceInv, Traced, Begun
<1>2. ASSUME NEW q \in Requests, Begun(q)', request'[q].kind \in Providers, Undisturbed(q)'
      PROVE  RaceWon(q)'
  <2>1. Begun(q) /\ Undisturbed(q) /\ request[q].kind \in Providers
    BY <1>2 DEF Begun, Undisturbed, At, SameSignIn, Unrelated
  <2>2. RaceWon(q)
    BY <2>1 DEF RaceInv
  <2> QED
    BY <2>2 DEF RaceWon, OneOwner, OnCourse, Column
<1> QED
  BY <1>1, <1>2 DEF RaceInv

LEMMA RaceInit == IdentitiesInit => RaceInv
<1> SUFFICES ASSUME IdentitiesInit PROVE RaceInv
  OBVIOUS
<1>1. \A q \in Requests : request[q] = Idle
  BY DEF IdentitiesInit
<1>2. \A q \in Requests : ~Begun(q)
  <2>1. Idle.pc = "idle"
    BY DEF Idle
  <2> QED
    BY <1>1, <2>1 DEF Begun
<1>3. \A u \in UserIds : users[u] \notin User
  BY NoRowIsNoUser DEF IdentitiesInit
<1>4. unlinked = {}
  BY DEF IdentitiesInit
<1>5. Traced
  <2>1. \A k \in Providers, s \in Subjects : <<k, s>> \notin unlinked
    BY <1>4
  <2> QED
    BY <1>3, <2>1 DEF Traced
<1> QED
  BY <1>2, <1>5 DEF RaceInv

\* A first login that two requests for the same account race through (services/github_oauth.py,
\* google_oauth.py) gets all of them in: nobody is refused or sent to link, as long as no other
\* request uses the email or the account.
THEOREM FirstLoginRaceResolved == IdentitiesSpec => []FirstLoginRaceIsResolved
<1>1. IdentitiesInv /\ RaceInv /\ [IdentitiesNext]_identityVars => (IdentitiesInv /\ RaceInv)'
  <2> SUFFICES ASSUME IdentitiesInv, RaceInv, [IdentitiesNext]_identityVars
               PROVE  (IdentitiesInv /\ RaceInv)'
    OBVIOUS
  <2>1. IdentitiesInv'
    BY IdentitiesStepPreserves
  <2>2. CASE IdentitiesNext
    BY <2>1, <2>2, RaceStep DEF IdentitiesNext
  <2>3. CASE UNCHANGED identityVars
    <3>1. users' = users /\ request' = request /\ unlinked' = unlinked
      BY <2>3 DEF identityVars
    <3>2. RaceInv'
      BY <3>1, RaceStutters
    <3> QED
      BY <2>1, <3>2
  <2> QED
    BY <2>2, <2>3
<1>2. RaceInv => FirstLoginRaceIsResolved
  <2> SUFFICES ASSUME RaceInv, NEW q \in Requests, request[q].kind \in {"github", "google"},
                      \A o \in Requests : At(o, "idle") \/ SameSignIn(q, o) \/ Unrelated(q, o)
               PROVE  request[q].pc \notin {"conflict", "failed", "unresolved", "pending"}
    BY DEF FirstLoginRaceIsResolved
  <2>1. CASE ~Begun(q)
    BY <2>1 DEF Begun
  <2>2. CASE Begun(q)
    <3>1. OnCourse(q)
      BY <2>2 DEF RaceInv, RaceWon, Undisturbed, Providers
    <3> QED
      BY <3>1 DEF OnCourse
  <2> QED
    BY <2>1, <2>2
<1> QED
  BY IdentitiesInitEstablishes, RaceInit, <1>1, <1>2, PTL DEF IdentitiesSpec

=============================================================================
