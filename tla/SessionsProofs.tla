--------------------------- MODULE SessionsProofs ---------------------------
(***************************************************************************)
(* The three promises of Sessions and its types, for any number of logins, *)
(* links and resets.  None is inductive.  LinkInv adds who holds a link,   *)
(* RotationInv what a GitHub login has found to revoke, PasswordInv what   *)
(* the half-done logins and refreshes rely on and that no token is of a    *)
(* version to come; the version is bounded by the resets that have ended.  *)
(***************************************************************************)
EXTENDS Sessions, FiniteSetTheorems, TLAPS

\* The types, without the bound that the number of resets sets to the version.
SessionType ==
  [token : {"none", "checked", "rotating", "active", "revoked"}, oauth : BOOLEAN,
   password : Passwords \cup {NoPassword}, version : Nat, raced : BOOLEAN,
   older : SUBSET Logins, victims : SUBSET Logins]
ResetType == [pc : {"idle", "locked", "done"}, link : Links \cup {NoLink},
              password : Passwords \cup {NoPassword}, version : Nat]

SessionsTyped ==
  /\ user \in [password : Passwords, version : Nat]
  /\ session \in [Logins -> SessionType]
  /\ renewal \in [Logins -> {"none", "found", "raced"}]
  /\ access \subseteq [login : Logins, version : Nat, password : Passwords \cup {NoPassword},
                       raced : BOOLEAN]
  /\ link \in [Links -> {"none", "mailed", "used"}]
  /\ reset \in [Resets -> ResetType]
  /\ resets \in [Links -> Nat]
  /\ collided \in BOOLEAN

-----------------------------------------------------------------------------
(* The steps of a login, of its session, of a link and of a reset *)

\* A new account, without sessions, links or resets, is typed.
LEMMA TypedInit == SessionsInit => SessionsTyped
<1>1. NoSession \in SessionType /\ NoReset \in ResetType
  BY DEF SessionType, ResetType, NoSession, NoReset
<1>2. SessionsInit => user \in [password : Passwords, version : Nat]
  BY DEF SessionsInit
<1>3. SessionsInit => /\ session \in [Logins -> SessionType]
                      /\ reset \in [Resets -> ResetType]
  BY <1>1 DEF SessionsInit
<1>4. SessionsInit => resets \in [Links -> Nat]
  BY DEF SessionsInit
<1>5. SessionsInit => collided \in BOOLEAN
  BY DEF SessionsInit
<1> QED
  BY <1>2, <1>3, <1>4, <1>5 DEF SessionsInit, SessionsTyped

\* Logging in, rotating, refreshing and logging out keep the types.
LEMMA LoginTyped ==
  ASSUME SessionsTyped, NEW l \in Logins, LoginStep(l)
  PROVE  SessionsTyped'
<1> USE DEF SessionsTyped
<1>1. ASSUME NEW oauth \in BOOLEAN, LoginCheck(l, oauth) PROVE SessionsTyped'
  <2>1. [token |-> "checked", oauth |-> oauth, password |-> user.password,
         version |-> user.version, raced |-> FALSE, older |-> Active, victims |-> {}]
          \in SessionType
    BY DEF SessionType, Active
  <2> QED
    BY <1>1, <2>1 DEF LoginCheck
<1>2. CASE Rotate(l)
  <2>1. Active \in SUBSET Logins
    BY DEF Active
  <2>2. [session[l] EXCEPT !.token = "rotating", !.victims = Active] \in SessionType
    <3>1. session[l] \in SessionType
      OBVIOUS
    <3> QED
      BY <2>1, <3>1 DEF SessionType
  <2> QED
    BY <1>2, <2>2 DEF Rotate
<1>3. CASE LoginCommit(l)
  <2>1. \A m \in Logins : /\ [session[m] EXCEPT !.token = "active"] \in SessionType
                          /\ [session[m] EXCEPT !.token = "revoked"] \in SessionType
    BY SMTT(30) DEF SessionType
  <2>2. session' \in [Logins -> SessionType]
    BY <1>3, <2>1 DEF LoginCommit
  <2>3. AccessOf(l, session[l].version, session[l].raced) \in
          [login : Logins, version : Nat, password : Passwords \cup {NoPassword},
           raced : BOOLEAN]
    BY DEF AccessOf, SessionType
  <2> QED
    BY <1>3, <2>2, <2>3 DEF LoginCommit
<1>4. CASE RefreshCheck(l)
  BY <1>4 DEF RefreshCheck
<1>5. CASE RefreshMint(l)
  <2>1. (session[l].raced \/ renewal[l] = "raced") \in BOOLEAN
    BY DEF SessionType
  <2>2. AccessOf(l, user.version, session[l].raced \/ renewal[l] = "raced") \in
          [login : Logins, version : Nat, password : Passwords \cup {NoPassword},
           raced : BOOLEAN]
    BY <2>1 DEF AccessOf, SessionType
  <2> QED
    BY <1>5, <2>2 DEF RefreshMint
<1>6. CASE Logout(l)
  <2>1. [session[l] EXCEPT !.token = "revoked"] \in SessionType
    BY DEF SessionType
  <2> QED
    BY <1>6, <2>1 DEF Logout
<1> QED
  BY <1>1, <1>2, <1>3, <1>4, <1>5, <1>6 DEF LoginStep

\* So do the steps of a reset: the lock, the refusal of the same password, the commit.
LEMMA ResetTyped ==
  ASSUME SessionsTyped, NEW q \in Resets, ResetStep(q)
  PROVE  SessionsTyped'
<1> USE DEF SessionsTyped
<1>1. CASE ResetLock(q)
  <2>1. PICK k \in Links :
          /\ reset' = [reset EXCEPT ![q] = [pc |-> "locked", link |-> k,
                         password |-> user.password, version |-> user.version]]
          /\ collided' = (collided \/ \E o \in Resets : reset[o].pc = "locked")
          /\ UNCHANGED <<user, session, renewal, access, link, resets>>
    BY <1>1 DEF ResetLock
  <2>2. [pc |-> "locked", link |-> k, password |-> user.password, version |-> user.version]
          \in ResetType
    BY DEF ResetType
  <2>3. collided' \in BOOLEAN
    BY <2>1
  <2> QED
    BY <2>1, <2>2, <2>3
<1>2. CASE ResetRefused(q)
  BY <1>2 DEF ResetRefused, ResetType, NoReset
<1>3. CASE ResetCommit(q)
  <2>1. [NoReset EXCEPT !.pc = "done"] \in ResetType
    BY DEF ResetType, NoReset
  <2>2. RevokedAll \in [Logins -> SessionType]
    <3>1. ASSUME NEW m \in Logins
          PROVE  /\ [session[m] EXCEPT !.token = "revoked"] \in SessionType
                 /\ [session[m] EXCEPT !.raced = TRUE] \in SessionType
      <4>1. session[m] \in SessionType
        OBVIOUS
      <4>2. [session[m] EXCEPT !.token = "revoked"] \in SessionType
        BY <4>1 DEF SessionType
      <4>3. [session[m] EXCEPT !.raced = TRUE] \in SessionType
        BY <4>1 DEF SessionType
      <4> QED
        BY <4>2, <4>3
    <3>2. \A m \in Logins : RevokedAll[m] \in
                               {session[m], [session[m] EXCEPT !.token = "revoked"],
                                [session[m] EXCEPT !.raced = TRUE]}
      BY DEF RevokedAll
    <3>3. \A m \in Logins : RevokedAll[m] \in SessionType
      BY ZenonT(30), <3>1, <3>2
    <3> QED
      BY <3>3 DEF RevokedAll
  <2>3. user' \in [password : Passwords, version : Nat]
    <3>1. reset[q].version + 1 \in Nat
      BY DEF ResetType
    <3>2. \E p \in Passwords : user' = [password |-> p, version |-> reset[q].version + 1]
      BY <1>3 DEF ResetCommit, NextVersion
    <3> QED
      BY <3>1, <3>2
  <2>4. /\ resets' = [resets EXCEPT ![reset[q].link] = @ + 1]
        /\ link' = [link EXCEPT ![reset[q].link] = "used"]
    BY <1>3 DEF ResetCommit
  <2>5. resets' \in [Links -> Nat]
    <3>1. \A k \in Links : resets[k] \in Nat /\ resets[k] + 1 \in Nat
      OBVIOUS
    <3>2. resets' = [k \in Links |-> IF k = reset[q].link THEN resets[k] + 1 ELSE resets[k]]
      BY <2>4
    <3> QED
      BY <3>1, <3>2
  <2>6. link' \in [Links -> {"none", "mailed", "used"}]
    BY <2>4
  <2> QED
    BY <1>3, <2>1, <2>2, <2>3, <2>5, <2>6 DEF ResetCommit
<1> QED
  BY <1>1, <1>2, <1>3 DEF ResetStep

\* Mailing a link is the one step left.
LEMMA TypedStep ==
  ASSUME SessionsTyped, [SessionsNext]_sessionVars
  PROVE  SessionsTyped'
<1>1. ASSUME NEW k \in Links, Mail(k) PROVE SessionsTyped'
  BY <1>1 DEF Mail, SessionsTyped
<1>2. CASE UNCHANGED sessionVars
  BY <1>2 DEF sessionVars, SessionsTyped
<1> QED
  BY <1>1, <1>2, LoginTyped, ResetTyped DEF SessionsNext

\* The types of services/auth.py hold in every reachable state; the other invariants use them.
LEMMA TypedAlways == SessionsSpec => []SessionsTyped
BY TypedInit, TypedStep, PTL DEF SessionsSpec

-----------------------------------------------------------------------------
(* A link is used once *)

\* A link that is not used has reset nothing; a reset in progress holds a link that is still
\* to be used, and no other reset holds it.
LinkInv ==
  /\ \A k \in Links : resets[k] <= 1 /\ (link[k] # "used" => resets[k] = 0)
  /\ \A q \in Resets : reset[q].pc = "locked" =>
       /\ reset[q].link \in Links
       /\ link[reset[q].link] = "mailed"
       /\ \A o \in Resets : reset[o].pc = "locked" /\ reset[o].link = reset[q].link => o = q

\* Only a reset that holds the locked, unused link moves it; no other holds the same one.
LEMMA LinkStep ==
  ASSUME SessionsTyped, LinkInv, [SessionsNext]_sessionVars
  PROVE  LinkInv'
<1> USE DEF LinkInv
<1>1. ASSUME UNCHANGED <<link, reset, resets>> PROVE LinkInv'
  BY <1>1
<1>2. ASSUME NEW l \in Logins, LoginStep(l) PROVE LinkInv'
  BY <1>1, <1>2 DEF LoginStep, LoginCheck, Rotate, LoginCommit, RefreshCheck, RefreshMint, Logout
<1>3. ASSUME NEW k \in Links, Mail(k) PROVE LinkInv'
  BY <1>3 DEF Mail, SessionsTyped
<1>4. ASSUME NEW q \in Resets, ResetLock(q) PROVE LinkInv'
  <2>1. PICK k \in Links :
          /\ link[k] = "mailed"
          /\ \A o \in Resets : ~(reset[o].pc = "locked" /\ reset[o].link = k)
          /\ reset' = [reset EXCEPT ![q] = [pc |-> "locked", link |-> k,
                         password |-> user.password, version |-> user.version]]
          /\ UNCHANGED <<link, resets>>
    BY <1>4 DEF ResetLock
  <2>2. \A o \in Resets : reset'[o] = IF o = q THEN [pc |-> "locked", link |-> k,
                         password |-> user.password, version |-> user.version] ELSE reset[o]
    BY <2>1 DEF SessionsTyped
  <2> QED
    BY <2>1, <2>2
<1>5. ASSUME NEW q \in Resets, ResetRefused(q) PROVE LinkInv'
  <2>1. UNCHANGED <<link, resets>>
        /\ reset'[q].pc = "done" /\ \A o \in Resets \ {q} : reset'[o] = reset[o]
    BY <1>5 DEF ResetRefused, NoReset, SessionsTyped
  <2> QED
    BY <2>1
<1>6. ASSUME NEW q \in Resets, ResetCommit(q) PROVE LinkInv'
  <2> DEFINE held == reset[q].link
  <2>1. reset[q].pc = "locked" /\ held \in Links /\ link[held] = "mailed" /\ resets[held] = 0
    BY <1>6 DEF ResetCommit
  <2>2. /\ resets'[held] = 1 /\ link'[held] = "used"
        /\ \A k \in Links \ {held} : resets'[k] = resets[k] /\ link'[k] = link[k]
    BY <1>6, <2>1 DEF ResetCommit, SessionsTyped
  <2>3. reset'[q].pc = "done" /\ \A o \in Resets \ {q} : reset'[o] = reset[o]
    BY <1>6 DEF ResetCommit, NoReset, SessionsTyped
  <2>4. \A o \in Resets \ {q} : reset[o].pc = "locked" => reset[o].link # held
    BY <2>1
  <2> QED
    BY <2>1, <2>2, <2>3, <2>4
<1>7. CASE UNCHANGED sessionVars
  BY <1>1, <1>7 DEF sessionVars
<1> QED
  BY <1>2, <1>3, <1>4, <1>5, <1>6, <1>7 DEF SessionsNext, ResetStep

\* LinkInv holds in every reachable state.
LEMMA LinkAlways == SessionsSpec => []LinkInv
<1>1. SessionsInit => LinkInv
  BY DEF SessionsInit, LinkInv, NoReset
<1> QED
  BY <1>1, LinkStep, TypedAlways, PTL DEF SessionsSpec

\* services/auth.py:255-298: for any number of resets, however they overlap, a mailed link
\* changes the password at most once.
THEOREM LinksAreUsedOnce == SessionsSpec => []LinkUsedOnce
<1>1. LinkInv => LinkUsedOnce
  BY DEF LinkInv, LinkUsedOnce
<1> QED
  BY <1>1, LinkAlways, PTL

-----------------------------------------------------------------------------
(* A GitHub login ends what was active before it *)

\* What a login has seen active was completed and can only be revoked; an UPDATE under way
\* has found all of it that still is active.
RotationInv ==
  /\ RotationEndsOlder
  /\ \A l \in Logins : \A m \in session[l].older \cup session[l].victims :
       Token(m) \in {"active", "revoked"}
  /\ \A l \in Logins : Token(l) = "rotating" =>
       session[l].oauth /\ session[l].older \cap Active \subseteq session[l].victims

\* RotationInv speaks of who saw whom and of who is active: a step that activates nobody and
\* changes no login's view keeps it.
LEMMA NobodyActivated ==
  ASSUME RotationInv, SessionsTyped, SessionsTyped',
         \A l \in Logins : /\ session'[l].older = session[l].older
                            /\ session'[l].oauth = session[l].oauth
                            /\ session'[l].victims = session[l].victims
                            /\ \/ session'[l].token = session[l].token
                               \/ session[l].token = "active" /\ session'[l].token = "revoked"
  PROVE  RotationInv'
<1>1. \A l \in Logins : session[l].older \cup session[l].victims \subseteq Logins
  BY DEF SessionsTyped, SessionType
<1>2. Active' \subseteq Active
  BY DEF Active, Token
<1>3. \A l \in Logins : \A m \in session'[l].older \cup session'[l].victims :
        session'[m].token \in {"active", "revoked"}
  BY <1>1 DEF RotationInv, Token
<1>4. \A l \in Logins : session'[l].token = "rotating" =>
        /\ session'[l].oauth
        /\ session'[l].older \cap Active' \subseteq session'[l].victims
  BY <1>2 DEF RotationInv, Token
<1>5. \A l \in Logins : session'[l].oauth /\ session'[l].token \in {"active", "revoked"} =>
        session'[l].older \cap Active' = {}
  BY <1>2 DEF RotationInv, RotationEndsOlder, Token
<1> QED
  BY <1>3, <1>4, <1>5 DEF RotationInv, RotationEndsOlder, Token

\* RotationInv survives a login that completes: the two UPDATEs have found what it had seen.
LEMMA RotationStep ==
  ASSUME SessionsTyped, SessionsTyped', RotationInv, [SessionsNext]_sessionVars
  PROVE  RotationInv'
<1> USE DEF SessionsTyped
<1>0. \A m \in Logins : /\ session[m] \in SessionType
                         /\ session[m].older \cup session[m].victims \subseteq Logins
  BY DEF SessionType
<1>1. ASSUME session' = session PROVE RotationInv'
  BY <1>1, NobodyActivated
<1>2. ASSUME NEW l \in Logins, NEW oauth \in BOOLEAN, LoginCheck(l, oauth) PROVE RotationInv'
  <2>1. /\ Token(l) = "none"
        /\ session'[l].token = "checked" /\ session'[l].older = Active /\ session'[l].victims = {}
        /\ \A m \in Logins \ {l} : session'[m] = session[m]
    BY <1>2 DEF LoginCheck
  <2>2. Active' = Active
    BY <2>1 DEF Active, Token
  <2>3. l \notin Active /\ \A m \in Logins : l \notin session[m].older \cup session[m].victims
    BY <2>1 DEF Active, RotationInv
  <2>4. \A k \in Logins : \A m \in session'[k].older \cup session'[k].victims :
        session'[m].token \in {"active", "revoked"}
    <3>1. ASSUME NEW k \in Logins, NEW m \in session'[k].older \cup session'[k].victims
          PROVE  session'[m].token \in {"active", "revoked"}
      <4>1. CASE k = l
        BY <2>1, <2>3, <3>1, <4>1 DEF Active, Token
      <4>2. CASE k # l
        BY <1>0, <2>1, <2>3, <3>1, <4>2 DEF RotationInv, Token
      <4> QED
        BY <4>1, <4>2
    <3> QED
      BY <3>1
  <2>5. \A k \in Logins : session'[k].token = "rotating" =>
          session'[k].oauth /\ session'[k].older \cap Active' \subseteq session'[k].victims
    BY <2>1, <2>2 DEF RotationInv, Token
  <2>6. \A k \in Logins : session'[k].oauth /\ session'[k].token \in {"active", "revoked"} =>
          session'[k].older \cap Active' = {}
    BY <2>1, <2>2 DEF RotationInv, RotationEndsOlder, Token
  <2> QED
    BY <2>4, <2>5, <2>6 DEF RotationInv, RotationEndsOlder, Token
<1>3. ASSUME NEW l \in Logins, Rotate(l) PROVE RotationInv'
  <2>1. /\ Token(l) = "checked" /\ session[l].oauth
        /\ session' = [session EXCEPT ![l] = [@ EXCEPT !.token = "rotating", !.victims = Active]]
    BY <1>3 DEF Rotate
  <2>2. /\ session'[l].token = "rotating" /\ session'[l].victims = Active
        /\ session'[l].older = session[l].older /\ session'[l].oauth = session[l].oauth
        /\ \A m \in Logins \ {l} : session'[m] = session[m]
    <3>1. session[l] \in SessionType
      OBVIOUS
    <3>2. session'[l] = [session[l] EXCEPT !.token = "rotating", !.victims = Active]
          /\ \A m \in Logins \ {l} : session'[m] = session[m]
      BY <2>1
    <3> QED
      BY <3>1, <3>2 DEF SessionType
  <2>3. Active' = Active
    BY <2>1, <2>2 DEF Active, Token
  <2>4. \A m \in Logins : l \notin session[m].older \cup session[m].victims
    BY <2>1 DEF RotationInv
  <2>5. \A k \in Logins : \A m \in session'[k].older \cup session'[k].victims :
        session'[m].token \in {"active", "revoked"}
    <3>1. ASSUME NEW k \in Logins, NEW m \in session'[k].older \cup session'[k].victims
          PROVE  session'[m].token \in {"active", "revoked"}
      <4>1. CASE m \in session[k].older \cup session[k].victims
        BY <1>0, <2>2, <2>4, <4>1 DEF RotationInv, Token
      <4>2. CASE m \notin session[k].older \cup session[k].victims
        <5>1. k = l /\ m \in Active
          BY <2>2, <3>1, <4>2
        <5> QED
          BY <2>1, <2>2, <5>1 DEF Active, Token
      <4> QED
        BY <4>1, <4>2
    <3> QED
      BY <3>1
  <2>6. \A k \in Logins : session'[k].token = "rotating" =>
          session'[k].oauth /\ session'[k].older \cap Active' \subseteq session'[k].victims
    BY <2>1, <2>2, <2>3 DEF RotationInv, Token
  <2>7. \A k \in Logins : session'[k].oauth /\ session'[k].token \in {"active", "revoked"} =>
          session'[k].older \cap Active' = {}
    BY <2>1, <2>2, <2>3 DEF RotationInv, RotationEndsOlder, Token
  <2> QED
    BY <2>5, <2>6, <2>7 DEF RotationInv, RotationEndsOlder, Token
<1>4. ASSUME NEW l \in Logins, LoginCommit(l) PROVE RotationInv'
  <2>1. /\ Token(l) \in {"checked", "rotating"}
        /\ session[l].oauth => Token(l) = "rotating"
        /\ session' = [m \in Logins |->
             IF m = l THEN [session[l] EXCEPT !.token = "active"]
             ELSE IF m \in session[l].victims THEN [session[m] EXCEPT !.token = "revoked"]
             ELSE session[m]]
    BY <1>4 DEF LoginCommit
  <2>2. /\ session'[l].token = "active"
        /\ \A m \in Logins : /\ session'[m].older = session[m].older
                              /\ session'[m].oauth = session[m].oauth
                              /\ session'[m].victims = session[m].victims
        /\ \A m \in Logins \ {l} :
             IF m \in session[l].victims THEN session'[m].token = "revoked"
             ELSE session'[m].token = session[m].token
    BY <1>0, <2>1 DEF SessionType
  <2>3. \A m \in Logins : l \notin session[m].older \cup session[m].victims
    BY <2>1 DEF RotationInv
  <2>4. Active' \subseteq Active \cup {l} /\ Active' \cap session[l].victims \subseteq {l}
    BY <2>2 DEF Active, Token
  <2>5. \A k \in Logins : \A m \in session'[k].older \cup session'[k].victims :
        session'[m].token \in {"active", "revoked"}
    BY <1>0, <2>2, <2>3 DEF RotationInv, Token
  <2>6. ASSUME NEW k \in Logins, session'[k].token = "rotating"
        PROVE  session'[k].oauth /\ session'[k].older \cap Active' \subseteq session'[k].victims
    <3>1. k # l /\ session[k].token = "rotating"
      BY <2>2, <2>6
    <3> QED
      BY <2>2, <2>3, <2>4, <3>1 DEF RotationInv, Token
  <2>7. ASSUME NEW k \in Logins, session'[k].oauth, session'[k].token \in {"active", "revoked"}
        PROVE  session'[k].older \cap Active' = {}
    <3>1. CASE k = l
      <4>1. session[l].older \cap Active \subseteq session[l].victims
        BY <2>1, <2>2, <2>7, <3>1 DEF RotationInv
      <4> QED
        BY <2>2, <2>3, <2>4, <3>1, <4>1
    <3>2. CASE k # l /\ k \notin session[l].victims
      BY <2>2, <2>3, <2>4, <2>7, <3>2 DEF RotationInv, RotationEndsOlder, Token
    <3>3. CASE k # l /\ k \in session[l].victims
      BY <2>2, <2>3, <2>4, <2>7, <3>3 DEF RotationInv, RotationEndsOlder, Token
    <3> QED
      BY <3>1, <3>2, <3>3
  <2> QED
    BY <2>5, <2>6, <2>7 DEF RotationInv, RotationEndsOlder, Token
<1>5. ASSUME NEW l \in Logins, Logout(l) PROVE RotationInv'
  BY SMTT(30), <1>0, <1>5, NobodyActivated DEF Logout, Token, SessionType
<1>6. ASSUME NEW q \in Resets, ResetCommit(q) PROVE RotationInv'
  <2>1. ASSUME NEW m \in Logins
        PROVE  /\ session'[m].older = session[m].older
               /\ session'[m].oauth = session[m].oauth
               /\ session'[m].victims = session[m].victims
               /\ \/ session'[m].token = session[m].token
                  \/ session[m].token = "active" /\ session'[m].token = "revoked"
    <3>1. session'[m] \in {session[m], [session[m] EXCEPT !.raced = TRUE]}
          \/ (session[m].token = "active" /\ session'[m] = [session[m] EXCEPT !.token = "revoked"])
      BY <1>6 DEF ResetCommit, RevokedAll, Token
    <3>2. session[m] \in SessionType
      OBVIOUS
    <3> QED
      BY <3>1, <3>2 DEF SessionType
  <2> QED
    BY <2>1, NobodyActivated
<1>7. ASSUME \/ \E l \in Logins : RefreshCheck(l) \/ RefreshMint(l)
             \/ \E k \in Links : Mail(k)
             \/ \E q \in Resets : ResetLock(q) \/ ResetRefused(q)
             \/ UNCHANGED sessionVars
      PROVE  RotationInv'
  BY <1>1, <1>7 DEF RefreshCheck, RefreshMint, Mail, ResetLock, ResetRefused, sessionVars
<1> QED
  BY <1>2, <1>3, <1>4, <1>5, <1>6, <1>7 DEF SessionsNext, LoginStep, ResetStep

\* RotationInv holds in every reachable state.
LEMMA RotationAlways == SessionsSpec => []RotationInv
<1>1. SessionsInit => RotationInv
  BY DEF SessionsInit, RotationInv, RotationEndsOlder, NoSession, Token
<1> QED
  BY <1>1, RotationStep, TypedAlways, PTL DEF SessionsSpec

\* github_oauth.py:225-245, services/auth.py:52-58: for any number of overlapping logins, what
\* was active when a GitHub login began is revoked once that login is done.
THEOREM RotationEndsOlderSessions == SessionsSpec => []RotationEndsOlder
<1>1. RotationInv => RotationEndsOlder
  BY DEF RotationInv
<1> QED
  BY <1>1, RotationAlways, PTL

-----------------------------------------------------------------------------
(* A reset ends what was obtained under the earlier password *)

\* A login under way, an active refresh token and a refresh that has found one are of the
\* password the account has, unless they were overtaken.
PasswordInv ==
  \A l \in Logins :
    /\ Token(l) \in {"checked", "rotating", "active"} \/ renewal[l] = "found"
    /\ ~session[l].raced
    => session[l].password = user.password

\* While no two resets have overlapped: the one that holds a lock has read the row as it is,
\* and no version is ahead of the row's, so that the next one is new to every access token.
VersionInv ==
  ~collided =>
    /\ \A q \in Resets : reset[q].pc = "locked" =>
         /\ reset[q].version = user.version
         /\ \A o \in Resets : reset[o].pc = "locked" => o = q
    /\ \A l \in Logins : session[l].version <= user.version
    /\ \A a \in access : a.version <= user.version
    /\ \A a \in access : CurrentUser(a) /\ ~a.raced => a.password = user.password

\* Only the steps that touch the row, a session's password or a refresh matter to PasswordInv.
LEMMA PasswordStep ==
  ASSUME SessionsTyped, PasswordInv, [SessionsNext]_sessionVars
  PROVE  PasswordInv'
<1> USE DEF SessionsTyped, PasswordInv
<1>0. \A m \in Logins : session[m] \in SessionType
  OBVIOUS
<1>1. ASSUME UNCHANGED <<user, session, renewal>> PROVE PasswordInv'
  BY <1>1 DEF Token
<1>2. ASSUME NEW l \in Logins, NEW oauth \in BOOLEAN, LoginCheck(l, oauth) PROVE PasswordInv'
  <2>1. /\ session'[l].password = user.password
        /\ \A m \in Logins \ {l} : session'[m] = session[m]
        /\ UNCHANGED <<user, renewal>>
    BY <1>2 DEF LoginCheck
  <2> QED
    BY <2>1 DEF Token
<1>3. ASSUME NEW l \in Logins, Rotate(l) PROVE PasswordInv'
  <2>1. /\ session'[l] = [session[l] EXCEPT !.token = "rotating", !.victims = Active]
        /\ \A m \in Logins \ {l} : session'[m] = session[m]
        /\ Token(l) = "checked"
        /\ UNCHANGED <<user, renewal>>
    BY <1>3 DEF Rotate
  <2>2. session'[l].password = session[l].password /\ session'[l].raced = session[l].raced
    BY <1>0, <2>1 DEF SessionType
  <2> QED
    BY ZenonT(30), <2>1, <2>2 DEF Token
<1>4. ASSUME NEW l \in Logins, LoginCommit(l) PROVE PasswordInv'
  <2>1. /\ Token(l) \in {"checked", "rotating"}
        /\ \A m \in Logins :
             session'[m] = IF m = l THEN [session[l] EXCEPT !.token = "active"]
                           ELSE IF m \in session[l].victims
                                  THEN [session[m] EXCEPT !.token = "revoked"]
                                  ELSE session[m]
        /\ UNCHANGED <<user, renewal>>
    BY <1>4 DEF LoginCommit
  <2>2. \A m \in Logins : /\ session'[m].password = session[m].password
                           /\ session'[m].raced = session[m].raced
    <3>1. ASSUME NEW m \in Logins
          PROVE  /\ session'[m].password = session[m].password
                 /\ session'[m].raced = session[m].raced
      <4>1. session'[m] \in {session[m], [session[m] EXCEPT !.token = "active"],
                             [session[m] EXCEPT !.token = "revoked"]}
        BY <2>1
      <4> QED
        BY <1>0, <4>1 DEF SessionType
    <3> QED
      BY <3>1
  <2>3. \A m \in Logins \ {l} : session'[m].token = session[m].token
                               \/ session'[m].token = "revoked"
    BY <1>0, <2>1 DEF SessionType
  <2>4. ASSUME NEW m \in Logins,
               session'[m].token \in {"checked", "rotating", "active"} \/ renewal'[m] = "found"
        PROVE  Token(m) \in {"checked", "rotating", "active"} \/ renewal[m] = "found"
    BY <2>1, <2>3, <2>4 DEF Token
  <2> QED
    BY <2>1, <2>2, <2>4 DEF Token
<1>5. ASSUME NEW l \in Logins, RefreshCheck(l) PROVE PasswordInv'
  <2>1. /\ Token(l) = "active"
        /\ \A m \in Logins \ {l} : renewal'[m] = renewal[m]
        /\ UNCHANGED <<user, session>>
    BY <1>5 DEF RefreshCheck
  <2> QED
    BY <2>1 DEF Token
<1>6. ASSUME NEW l \in Logins, RefreshMint(l) PROVE PasswordInv'
  <2>1. UNCHANGED <<user, session>> /\ renewal' = [renewal EXCEPT ![l] = "none"]
    BY <1>6 DEF RefreshMint
  <2>2. \A m \in Logins : renewal'[m] = "found" => renewal[m] = "found"
    BY <2>1
  <2> QED
    BY <2>1, <2>2 DEF Token
<1>7. ASSUME NEW l \in Logins, Logout(l) PROVE PasswordInv'
  <2>1. /\ session'[l] = [session[l] EXCEPT !.token = "revoked"]
        /\ \A m \in Logins \ {l} : session'[m] = session[m]
        /\ UNCHANGED <<user, renewal>>
    BY <1>7 DEF Logout
  <2>2. /\ session'[l].password = session[l].password /\ session'[l].raced = session[l].raced
        /\ session'[l].token = "revoked"
    BY <1>0, <2>1 DEF SessionType
  <2> QED
    BY <2>1, <2>2 DEF Token
<1>8. ASSUME NEW q \in Resets, ResetCommit(q) PROVE PasswordInv'
  <2>1. /\ session' = RevokedAll
        /\ \A m \in Logins : renewal'[m] # "found"
    BY <1>8 DEF ResetCommit
  <2>2. ASSUME NEW m \in Logins
        PROVE  session'[m].token \notin {"checked", "rotating", "active"} \/ session'[m].raced
    <3>1. CASE Token(m) = "active"
      <4>1. session'[m] = [session[m] EXCEPT !.token = "revoked"]
        BY <2>1, <3>1 DEF RevokedAll
      <4> QED
        BY <1>0, <4>1 DEF SessionType
    <3>2. CASE Token(m) \in {"checked", "rotating"}
      <4>1. session'[m] = [session[m] EXCEPT !.raced = TRUE]
        BY <2>1, <3>2 DEF RevokedAll
      <4> QED
        BY <1>0, <4>1 DEF SessionType
    <3>3. CASE Token(m) \in {"none", "revoked"}
      <4>1. session'[m] = session[m]
        BY <2>1, <3>3 DEF RevokedAll
      <4> QED
        BY <3>3, <4>1 DEF Token
    <3> QED
      BY <1>0, <3>1, <3>2, <3>3 DEF SessionType, Token
  <2> QED
    BY <2>1, <2>2 DEF Token
<1>9. ASSUME \/ \E k \in Links : Mail(k)
             \/ \E q \in Resets : ResetLock(q) \/ ResetRefused(q)
             \/ UNCHANGED sessionVars
      PROVE  PasswordInv'
  BY <1>1, <1>9 DEF Mail, ResetLock, ResetRefused, sessionVars
<1> QED
  BY <1>2, <1>3, <1>4, <1>5, <1>6, <1>7, <1>8, <1>9 DEF SessionsNext, LoginStep, ResetStep

\* A step that leaves the row and the resets alone keeps VersionInv if what it adds to the
\* sessions and to the access tokens is of no later version and of the account's password.
LEMMA VersionKept ==
  ASSUME SessionsTyped, VersionInv, UNCHANGED <<user, reset, collided>>,
         ~collided => \A l \in Logins : session'[l].version <= user.version,
         ~collided => \A a \in access' \ access :
           /\ a.version <= user.version
           /\ a.raced \/ a.password = user.password
  PROVE  VersionInv'
BY DEF VersionInv, CurrentUser

\* Only a reset moves the version, and it moves it past all that was obtained before it.
LEMMA VersionStep ==
  ASSUME SessionsTyped, PasswordInv, VersionInv, [SessionsNext]_sessionVars
  PROVE  VersionInv'
<1> USE DEF SessionsTyped
<1>0. \A m \in Logins : session[m] \in SessionType
  OBVIOUS
<1>1. user.version \in Nat
  OBVIOUS
<1>2. ASSUME NEW l \in Logins, NEW oauth \in BOOLEAN, LoginCheck(l, oauth) PROVE VersionInv'
  <2>1. /\ session'[l].version = user.version
        /\ \A m \in Logins \ {l} : session'[m] = session[m]
        /\ UNCHANGED <<user, access, reset, collided>>
    BY <1>2 DEF LoginCheck
  <2>2. ~collided => \A m \in Logins : session'[m].version <= user.version
    BY <1>1, <2>1 DEF VersionInv
  <2> QED
    BY <2>1, <2>2, VersionKept
<1>3. ASSUME NEW l \in Logins, Rotate(l) \/ Logout(l) PROVE VersionInv'
  <2>1. \A m \in Logins : session'[m].version = session[m].version
    <3>1. CASE Rotate(l)
      <4>1. session' = [session EXCEPT ![l] = [session[l] EXCEPT !.token = "rotating",
                                                                 !.victims = Active]]
        BY <3>1 DEF Rotate
      <4>2. [session[l] EXCEPT !.token = "rotating", !.victims = Active].version
              = session[l].version
        BY <1>0 DEF SessionType
      <4> QED
        BY <4>1, <4>2
    <3>2. CASE Logout(l)
      <4>1. session' = [session EXCEPT ![l] = [session[l] EXCEPT !.token = "revoked"]]
        BY <3>2 DEF Logout
      <4>2. [session[l] EXCEPT !.token = "revoked"].version = session[l].version
        BY <1>0 DEF SessionType
      <4> QED
        BY <4>1, <4>2
    <3> QED
      BY <1>3, <3>1, <3>2
  <2>2. UNCHANGED <<user, access, reset, collided>>
    BY <1>3 DEF Rotate, Logout
  <2>3. ~collided => \A m \in Logins : session'[m].version <= user.version
    BY <2>1 DEF VersionInv
  <2> QED
    BY <2>2, <2>3, VersionKept
<1>4. ASSUME NEW l \in Logins, LoginCommit(l) PROVE VersionInv'
  <2> DEFINE a == AccessOf(l, session[l].version, session[l].raced)
  <2>1. /\ Token(l) \in {"checked", "rotating"}
        /\ access' = access \cup {a}
        /\ UNCHANGED <<user, reset, collided>>
    BY <1>4 DEF LoginCommit
  <2>2. \A m \in Logins : session'[m].version = session[m].version
    BY <1>0, <1>4 DEF LoginCommit, SessionType
  <2>3. ~collided => \A m \in Logins : session'[m].version <= user.version
    BY <2>2 DEF VersionInv
  <2>4. ~collided => a.version <= user.version
    BY DEF AccessOf, VersionInv
  <2>5. session[l].raced \/ session[l].password = user.password
    BY <2>1 DEF PasswordInv
  <2>6. a.raced \/ a.password = user.password
    BY <2>5 DEF AccessOf
  <2>7. \A b \in access' \ access : b = a
    BY <2>1
  <2> QED
    BY <2>1, <2>3, <2>4, <2>6, <2>7, VersionKept
<1>5. ASSUME NEW l \in Logins, RefreshCheck(l) PROVE VersionInv'
  BY <1>5, VersionKept DEF RefreshCheck, VersionInv
<1>6. ASSUME NEW l \in Logins, RefreshMint(l) PROVE VersionInv'
  <2> DEFINE a == AccessOf(l, user.version, session[l].raced \/ renewal[l] = "raced")
  <2>1. /\ renewal[l] # "none"
        /\ access' = access \cup {a}
        /\ UNCHANGED <<user, session, reset, collided>>
    BY <1>6 DEF RefreshMint
  <2>2. ~collided => \A m \in Logins : session'[m].version <= user.version
    BY <2>1 DEF VersionInv
  <2>3. a.version <= user.version
    BY <1>1 DEF AccessOf
  <2>4. renewal[l] = "raced" \/ renewal[l] = "found"
    BY <2>1
  <2>5. session[l].raced \/ renewal[l] = "raced" \/ session[l].password = user.password
    BY <2>4 DEF PasswordInv
  <2>6. a.raced \/ a.password = user.password
    BY <2>5 DEF AccessOf
  <2>7. \A b \in access' \ access : b = a
    BY <2>1
  <2> QED
    BY <2>1, <2>2, <2>3, <2>6, <2>7, VersionKept
<1>7. ASSUME NEW q \in Resets, ResetLock(q) PROVE VersionInv'
  <2>1. PICK k \in Links :
          /\ reset' = [reset EXCEPT ![q] = [pc |-> "locked", link |-> k,
                         password |-> user.password, version |-> user.version]]
          /\ collided' = (collided \/ \E o \in Resets : reset[o].pc = "locked")
          /\ UNCHANGED <<user, session, access>>
    BY <1>7 DEF ResetLock
  <2>2. /\ reset'[q].version = user.version
        /\ \A o \in Resets \ {q} : reset'[o] = reset[o]
    BY <2>1
  <2>3. CASE collided'
    BY <2>3 DEF VersionInv
  <2>4. CASE ~collided'
    <3>1. ~collided /\ \A o \in Resets : reset[o].pc # "locked"
      BY <2>1, <2>4
    <3> QED
      BY <2>1, <2>2, <3>1 DEF VersionInv, CurrentUser
  <2> QED
    BY <2>3, <2>4
<1>8. ASSUME NEW q \in Resets, ResetRefused(q) PROVE VersionInv'
  <2>1. /\ reset'[q].pc = "done" /\ \A o \in Resets \ {q} : reset'[o] = reset[o]
        /\ UNCHANGED <<user, session, access, collided>>
    BY <1>8 DEF ResetRefused, NoReset
  <2> QED
    BY <2>1 DEF VersionInv, CurrentUser
<1>9. ASSUME NEW q \in Resets, ResetCommit(q) PROVE VersionInv'
  <2>1. /\ reset[q].pc = "locked"
        /\ user'.version = reset[q].version + 1
        /\ session' = RevokedAll
        /\ UNCHANGED <<access, collided>>
    BY <1>9 DEF ResetCommit, NextVersion
  <2>2. reset'[q].pc = "done" /\ \A o \in Resets \ {q} : reset'[o] = reset[o]
    BY <1>9 DEF ResetCommit, NoReset
  <2>3. ASSUME NEW m \in Logins PROVE session'[m].version = session[m].version
    <3>1. session'[m] \in {session[m], [session[m] EXCEPT !.token = "revoked"],
                           [session[m] EXCEPT !.raced = TRUE]}
      BY <2>1 DEF RevokedAll
    <3> QED
      BY <1>0, <3>1 DEF SessionType
  <2>4. CASE collided
    BY <2>1, <2>4 DEF VersionInv
  <2>5. CASE ~collided
    <3>1. user'.version = user.version + 1
      BY <2>1, <2>5 DEF VersionInv
    <3>2. \A o \in Resets : reset'[o].pc # "locked"
      BY <2>1, <2>2, <2>5 DEF VersionInv
    <3>3. \A m \in Logins : session'[m].version <= user'.version
      <4>1. \A m \in Logins : session[m].version \in Nat /\ session[m].version <= user.version
        BY <1>0, <2>5 DEF VersionInv, SessionType
      <4> QED
        BY <1>1, <2>3, <3>1, <4>1
    <3>4. \A a \in access' : a.version <= user'.version /\ a.version # user'.version
      <4>1. \A a \in access : a.version \in Nat /\ a.version <= user.version
        BY <2>5 DEF VersionInv
      <4> QED
        BY <1>1, <2>1, <3>1, <4>1
    <3> QED
      BY <3>2, <3>3, <3>4 DEF VersionInv, CurrentUser
  <2> QED
    BY <2>4, <2>5
<1>10. ASSUME \/ \E k \in Links : Mail(k)
              \/ UNCHANGED sessionVars
       PROVE  VersionInv'
  BY <1>10, VersionKept DEF Mail, sessionVars, VersionInv
<1> QED
  BY <1>2, <1>3, <1>4, <1>5, <1>6, <1>7, <1>8, <1>9, <1>10
     DEF SessionsNext, LoginStep, ResetStep

\* services/auth.py:255-298, deps.py:22-60: for any number of logins, refreshes and resets, no
\* refresh token of an earlier password is active and, unless two resets overlapped, no access
\* token of one passes get_current_user, half-done logins and refreshes aside.
THEOREM ResetEndsEarlierSessions == SessionsSpec => []ResetEndsSessions
<1>1. SessionsInit => PasswordInv
  BY DEF SessionsInit, PasswordInv, NoSession, Token
<1>2. SessionsInit => VersionInv
  BY DEF SessionsInit, VersionInv, NoSession, NoReset
<1>3. PasswordInv /\ VersionInv => ResetEndsSessions
  BY DEF PasswordInv, VersionInv, ResetEndsSessions
<1> QED
  BY <1>1, <1>2, <1>3, PasswordStep, VersionStep, TypedAlways, PTL DEF SessionsSpec

-----------------------------------------------------------------------------
(***************************************************************************)
(* The types with their bounds.  A version is a number of resets that were *)
(* committed, so that no version, of the row or of a token, is above the   *)
(* number of resets that have ended.                                       *)
(***************************************************************************)

Ended == {q \in Resets : reset[q].pc = "done"}

\* No version and no count of a link's resets is above n.
Within(n) ==
  /\ user.version <= n
  /\ \A q \in Resets : reset[q].version <= n
  /\ \A l \in Logins : session[l].version <= n
  /\ \A a \in access : a.version <= n
  /\ \A k \in Links : resets[k] <= n

\* An access token is made from a session that was opened with a password.
OpenedWithPassword ==
  /\ \A l \in Logins : /\ Token(l) # "none" => session[l].password \in Passwords
                       /\ renewal[l] # "none" => Token(l) # "none"
  /\ \A a \in access : a.password \in Passwords

BoundInv == Within(Cardinality(Ended)) /\ OpenedWithPassword

\* The ended resets are at most all of them.
LEMMA EndedCounts ==
  /\ Cardinality(Ended) \in Nat /\ Cardinality(Resets) \in Nat
  /\ Cardinality(Ended) <= Cardinality(Resets)
<1>1. Ended \subseteq Resets
  BY DEF Ended
<1> QED
  BY <1>1, SessionsAssumption, FS_Subset, FS_CardinalityType

\* One more has ended when a reset ends.
LEMMA OneMoreEnded ==
  ASSUME SessionsTyped, NEW q \in Resets, reset[q].pc = "locked",
         reset' = [reset EXCEPT ![q] = [NoReset EXCEPT !.pc = "done"]]
  PROVE  Cardinality(Ended') = Cardinality(Ended) + 1
<1>1. IsFiniteSet(Ended)
  BY SessionsAssumption, FS_Subset DEF Ended
<1>2. Ended' = Ended \cup {q} /\ q \notin Ended
  BY DEF Ended, NoReset, SessionsTyped
<1> QED
  BY <1>1, <1>2, FS_AddElement

\* The login, rotation, refresh and logout copy the row's version, and end no reset.
LEMMA LoginWithin ==
  ASSUME SessionsTyped, NEW n \in Nat, Within(n), NEW l \in Logins, LoginStep(l)
  PROVE  Within(n)' /\ Ended' = Ended
<1> USE DEF SessionsTyped, Within
<1>0. /\ user.version \in Nat /\ user.version <= n
      /\ \A m \in Logins : session[m] \in SessionType /\ session[m].version <= n
  OBVIOUS
<1>1. UNCHANGED <<user, reset, resets>>
  BY DEF LoginStep, LoginCheck, Rotate, LoginCommit, RefreshCheck, RefreshMint, Logout
<1>2. \A m \in Logins : session'[m].version <= n
  <2>1. CASE \E oauth \in BOOLEAN : LoginCheck(l, oauth)
    BY <1>0, <2>1 DEF LoginCheck
  <2>2. CASE Rotate(l)
    BY <1>0, <2>2 DEF Rotate
  <2>3. CASE LoginCommit(l)
    <3>1. \A m \in Logins : session'[m] \in
            {session[m], [session[m] EXCEPT !.token = "active"],
             [session[m] EXCEPT !.token = "revoked"]}
      BY <2>3 DEF LoginCommit
    <3>2. \A m \in Logins : session'[m].version = session[m].version
      BY <1>0, <3>1 DEF SessionType
    <3> QED
      BY <1>0, <3>2
  <2>4. CASE RefreshCheck(l) \/ RefreshMint(l)
    BY <1>0, <2>4 DEF RefreshCheck, RefreshMint
  <2>5. CASE Logout(l)
    BY <1>0, <2>5 DEF Logout
  <2> QED
    BY <2>1, <2>2, <2>3, <2>4, <2>5 DEF LoginStep
<1>3. \A a \in access' \ access : a.version <= n
  <2>1. CASE LoginCommit(l)
    BY <1>0, <2>1 DEF LoginCommit, AccessOf
  <2>2. CASE RefreshMint(l)
    BY <1>0, <2>2 DEF RefreshMint, AccessOf
  <2>3. CASE access' = access
    BY <2>3
  <2> QED
    BY <2>1, <2>2, <2>3 DEF LoginStep, LoginCheck, Rotate, RefreshCheck, Logout
<1>4. Ended' = Ended
  BY <1>1 DEF Ended
<1> QED
  BY <1>1, <1>2, <1>3, <1>4

\* A reset copies the row's version under its lock and writes the next one when it ends.
LEMMA ResetWithin ==
  ASSUME SessionsTyped, LinkInv, Within(Cardinality(Ended)), NEW q \in Resets, ResetStep(q)
  PROVE  Within(Cardinality(Ended))'
<1> DEFINE n == Cardinality(Ended)
<1>0. n \in Nat
  BY EndedCounts
<1>1. /\ user.version \in Nat /\ user.version <= n
      /\ \A o \in Resets : /\ reset[o] \in ResetType /\ reset[o].version \in Nat
                           /\ reset[o].version <= n
      /\ \A l \in Logins : session[l] \in SessionType /\ session[l].version \in Nat
                           /\ session[l].version <= n
      /\ \A a \in access : a.version \in Nat /\ a.version <= n
      /\ \A k \in Links : resets[k] \in Nat /\ resets[k] <= n
  BY DEF SessionsTyped, Within, SessionType, ResetType
<1>2. CASE ResetLock(q)
  <2>1. /\ UNCHANGED <<user, session, access, resets>>
        /\ reset[q].pc = "idle"
        /\ reset'[q].pc = "locked" /\ reset'[q].version = user.version
        /\ \A o \in Resets \ {q} : reset'[o] = reset[o]
    BY <1>2 DEF ResetLock, SessionsTyped
  <2>2. Ended' = Ended
    BY <2>1 DEF Ended
  <2> QED
    BY <1>1, <2>1, <2>2 DEF Within
<1>3. ASSUME reset[q].pc = "locked",
             reset' = [reset EXCEPT ![q] = [NoReset EXCEPT !.pc = "done"]]
      PROVE  /\ Cardinality(Ended') = n + 1
             /\ \A o \in Resets : reset'[o].version <= n + 1
  <2>1. Cardinality(Ended') = n + 1
    BY <1>3, OneMoreEnded
  <2>2. \A o \in Resets : reset'[o] = IF o = q THEN [NoReset EXCEPT !.pc = "done"] ELSE reset[o]
    BY <1>3 DEF SessionsTyped
  <2>3. \A o \in Resets : reset'[o].version \in {0, reset[o].version}
    BY <2>2 DEF NoReset
  <2> QED
    BY <1>0, <1>1, <2>1, <2>3
<1> HIDE DEF n
<1>4. CASE ResetRefused(q)
  <2>1. UNCHANGED <<user, session, access, resets>>
    BY <1>4 DEF ResetRefused
  <2>2. /\ Cardinality(Ended') = n + 1
        /\ \A o \in Resets : reset'[o].version <= n + 1
    BY <1>3, <1>4 DEF ResetRefused
  <2> QED
    BY <1>0, <1>1, <2>1, <2>2 DEF Within
<1>5. CASE ResetCommit(q)
  <2>1. /\ reset[q].pc = "locked" /\ access' = access
        /\ user'.version = reset[q].version + 1
        /\ reset[q].link \in Links
        /\ resets' = [resets EXCEPT ![reset[q].link] = @ + 1]
        /\ session' = RevokedAll
    BY <1>5 DEF ResetCommit, NextVersion, LinkInv
  <2>2. /\ Cardinality(Ended') = n + 1
        /\ \A o \in Resets : reset'[o].version <= n + 1
    BY <1>3, <1>5 DEF ResetCommit
  <2>3. \A l \in Logins : session'[l].version = session[l].version
    <3>1. \A l \in Logins : session'[l] \in
            {session[l], [session[l] EXCEPT !.token = "revoked"],
             [session[l] EXCEPT !.raced = TRUE]}
      BY <2>1 DEF RevokedAll
    <3> QED
      BY <1>1, <3>1 DEF SessionType
  <2>4. \A k \in Links : resets'[k] <= n + 1
    <3>1. \A k \in Links : resets'[k] = IF k = reset[q].link THEN resets[k] + 1 ELSE resets[k]
      BY <2>1 DEF SessionsTyped
    <3> QED
      BY <1>0, <1>1, <3>1
  <2>5. user'.version <= n + 1
    BY <1>0, <1>1, <2>1
  <2>6. /\ \A l \in Logins : session'[l].version <= n + 1
        /\ \A a \in access' : a.version <= n + 1
    BY <1>0, <1>1, <2>1, <2>3
  <2> QED
    BY <2>2, <2>4, <2>5, <2>6 DEF Within
<1> QED
  BY <1>2, <1>4, <1>5 DEF ResetStep

\* Whoever has more than an untried login was opened with the row's password.
LEMMA OpenedStep ==
  ASSUME SessionsTyped, RotationInv, OpenedWithPassword, [SessionsNext]_sessionVars
  PROVE  OpenedWithPassword'
<1>0. /\ user.password \in Passwords
      /\ session \in [Logins -> SessionType] /\ renewal \in [Logins -> {"none", "found", "raced"}]
      /\ \A l \in Logins : /\ session[l] \in SessionType
                           /\ Token(l) # "none" => session[l].password \in Passwords
                           /\ renewal[l] # "none" => Token(l) # "none"
      /\ \A a \in access : a.password \in Passwords
  BY DEF SessionsTyped, OpenedWithPassword
<1>1. ASSUME \A l \in Logins : /\ session'[l].password = session[l].password
                               /\ session'[l].token = "none" <=> session[l].token = "none",
             UNCHANGED <<access, renewal>>
      PROVE  OpenedWithPassword'
  BY <1>0, <1>1 DEF OpenedWithPassword, Token
<1>2. ASSUME NEW l \in Logins, NEW oauth \in BOOLEAN, LoginCheck(l, oauth)
      PROVE  OpenedWithPassword'
  <2>1. /\ session[l].token = "none" /\ UNCHANGED <<access, renewal>>
        /\ session'[l].password = user.password /\ session'[l].token = "checked"
        /\ \A m \in Logins \ {l} : session'[m] = session[m]
    BY <1>0, <1>2 DEF LoginCheck, Token
  <2> QED
    BY <1>0, <2>1 DEF OpenedWithPassword, Token
<1>3. ASSUME NEW l \in Logins, Rotate(l) \/ Logout(l)
      PROVE  OpenedWithPassword'
  <2>1. session[l].token # "none" /\ UNCHANGED <<access, renewal>>
    BY <1>3 DEF Rotate, Logout, Token
  <2>2. \A m \in Logins : session'[m].password = session[m].password
    <3>1. CASE Rotate(l)
      BY <1>0, <3>1 DEF Rotate, SessionType
    <3>2. CASE Logout(l)
      BY <1>0, <3>2 DEF Logout, SessionType
    <3> QED
      BY <1>3, <3>1, <3>2
  <2>3. \A m \in Logins : session'[m].token = "none" <=> session[m].token = "none"
    <3>1. CASE Rotate(l)
      BY <1>0, <2>1, <3>1 DEF Rotate, SessionType
    <3>2. CASE Logout(l)
      BY <1>0, <2>1, <3>2 DEF Logout, SessionType
    <3> QED
      BY <1>3, <3>1, <3>2
  <2> QED
    BY <1>1, <2>1, <2>2, <2>3
<1>4. ASSUME NEW l \in Logins, LoginCommit(l)
      PROVE  OpenedWithPassword'
  <2>1. session[l].token # "none" /\ UNCHANGED renewal
        /\ access' = access \cup {AccessOf(l, session[l].version, session[l].raced)}
    BY <1>0, <1>4 DEF LoginCommit, Token
  <2>2. \A m \in Logins : session'[m] \in
          {session[m], [session[m] EXCEPT !.token = "active"],
           [session[m] EXCEPT !.token = "revoked"]}
    BY <1>4 DEF LoginCommit
  <2>3. \A m \in Logins : session'[m].password = session[m].password
    BY <1>0, <2>2 DEF SessionType
  <2>4. \A m \in session[l].victims : session[m].token # "none"
    BY DEF RotationInv, Token
  <2>5. \A m \in Logins : session'[m].token # "none" <=> session[m].token # "none"
    <3>1. \A m \in Logins : \/ session'[m] = session[m]
                            \/ session'[m].token # "none" /\ session[m].token # "none"
      BY <1>0, <1>4, <2>1, <2>4 DEF LoginCommit, SessionType
    <3> QED
      BY <3>1
  <2>6. \A a \in access' : a.password \in Passwords
    BY <1>0, <2>1 DEF AccessOf, Token
  <2> QED
    BY <1>0, <2>1, <2>3, <2>5, <2>6 DEF OpenedWithPassword, Token
<1>5. ASSUME NEW l \in Logins, RefreshCheck(l)
      PROVE  OpenedWithPassword'
  BY <1>0, <1>5 DEF RefreshCheck, OpenedWithPassword, Token
<1>6. ASSUME NEW l \in Logins, RefreshMint(l)
      PROVE  OpenedWithPassword'
  <2>1. /\ session' = session /\ session[l].password \in Passwords
        /\ access' = access \cup
             {AccessOf(l, user.version, session[l].raced \/ renewal[l] = "raced")}
        /\ \A m \in Logins : renewal'[m] # "none" => renewal[m] # "none"
    BY <1>0, <1>6 DEF RefreshMint
  <2>2. \A a \in access' : a.password \in Passwords
    BY <1>0, <2>1 DEF AccessOf
  <2> QED
    BY <1>0, <2>1, <2>2 DEF OpenedWithPassword, Token
<1>7. ASSUME NEW q \in Resets, ResetCommit(q)
      PROVE  OpenedWithPassword'
  <2>1. access' = access /\ \A m \in Logins : renewal'[m] # "none" => renewal[m] # "none"
    BY <1>7 DEF ResetCommit
  <2>2. \A m \in Logins : session'[m] \in
          {session[m], [session[m] EXCEPT !.token = "revoked"],
           [session[m] EXCEPT !.raced = TRUE]}
    BY <1>7 DEF ResetCommit, RevokedAll
  <2>3. \A m \in Logins : session'[m].password = session[m].password
    BY <1>0, <2>2 DEF SessionType
  <2>4. \A m \in Logins : session'[m].token # "none" <=> session[m].token # "none"
    <3>1. \A m \in Logins : \/ session'[m].token = session[m].token
                            \/ session'[m].token # "none" /\ session[m].token # "none"
      BY <1>0, <1>7 DEF ResetCommit, RevokedAll, SessionType, Token
    <3> QED
      BY <3>1
  <2> QED
    BY <1>0, <2>1, <2>3, <2>4 DEF OpenedWithPassword, Token
<1>8. CASE UNCHANGED <<session, renewal, access>>
  BY <1>0, <1>8 DEF OpenedWithPassword, Token
<1>9. CASE \/ \E k \in Links : Mail(k)
           \/ \E q \in Resets : ResetLock(q) \/ ResetRefused(q)
           \/ UNCHANGED sessionVars
  BY <1>8, <1>9 DEF Mail, ResetLock, ResetRefused, sessionVars
<1> QED
  BY <1>2, <1>3, <1>4, <1>5, <1>6, <1>7, <1>9 DEF SessionsNext, LoginStep, ResetStep

\* Every step keeps the bounds.
LEMMA BoundStep ==
  ASSUME SessionsTyped, LinkInv, RotationInv, BoundInv, [SessionsNext]_sessionVars
  PROVE  BoundInv'
<1>1. OpenedWithPassword'
  BY OpenedStep DEF BoundInv
<1>2. CASE \E l \in Logins : LoginStep(l)
  BY <1>1, <1>2, LoginWithin, EndedCounts DEF BoundInv
<1>3. CASE \E q \in Resets : ResetStep(q)
  BY <1>1, <1>3, ResetWithin DEF BoundInv
<1>4. CASE UNCHANGED <<user, session, access, reset, resets>>
  BY <1>1, <1>4 DEF BoundInv, Within, Ended
<1>5. CASE (\E k \in Links : Mail(k)) \/ UNCHANGED sessionVars
  BY <1>4, <1>5 DEF Mail, sessionVars
<1> QED
  BY <1>2, <1>3, <1>5 DEF SessionsNext

\* What is typed without bounds and within the bounds is typed.
LEMMA BoundedTypes ==
  ASSUME SessionsTyped, BoundInv
  PROVE  SessionsTypeOK
<1> DEFINE n == Cardinality(Ended)
<1>1. n \in Nat /\ \A v \in Nat : v <= n => v \in Versions
  BY EndedCounts DEF Versions
<1> HIDE DEF n
<1>2. user \in [password : Passwords, version : Versions]
  BY <1>1 DEF SessionsTyped, BoundInv, Within, n
<1>3. session \in [Logins -> Session]
  <2>1. \A l \in Logins : session[l] \in SessionType /\ session[l].version <= n
    BY DEF SessionsTyped, BoundInv, Within, n
  <2>2. \A l \in Logins : session[l] \in Session
    BY <1>1, <2>1 DEF SessionType, Session
  <2> QED
    BY <2>2 DEF SessionsTyped
<1>4. access \subseteq AccessToken
  <2>1. \A a \in access : a.version <= n /\ a.password \in Passwords
    BY DEF BoundInv, Within, OpenedWithPassword, n
  <2> QED
    BY <1>1, <2>1 DEF SessionsTyped, AccessToken
<1>5. reset \in [Resets -> Reset]
  <2>1. \A q \in Resets : reset[q] \in ResetType /\ reset[q].version <= n
    BY DEF SessionsTyped, BoundInv, Within, n
  <2>2. \A q \in Resets : reset[q] \in Reset
    BY <1>1, <2>1 DEF ResetType, Reset
  <2> QED
    BY <2>2 DEF SessionsTyped
<1>6. resets \in [Links -> 0..Cardinality(Resets)]
  <2>1. \A k \in Links : resets[k] \in Nat /\ resets[k] <= n
    BY DEF SessionsTyped, BoundInv, Within, n
  <2> QED
    BY <1>1, <2>1 DEF SessionsTyped, Versions
<1> QED
  BY <1>2, <1>3, <1>4, <1>5, <1>6 DEF SessionsTyped, SessionsTypeOK

\* services/auth.py: the columns and the tokens hold what they are declared to hold, and
\* token_version (user.py:110) counts no more than the resets there were, for any number of
\* them, overlapping or not.
THEOREM SessionsTypeCorrect == SessionsSpec => []SessionsTypeOK
<1>1. SessionsInit => BoundInv
  <2>1. SessionsInit => Ended = {}
    BY DEF SessionsInit, Ended, NoReset
  <2>2. SessionsInit => Within(0)
    BY DEF SessionsInit, Within, NoSession, NoReset
  <2>3. SessionsInit => OpenedWithPassword
    BY DEF SessionsInit, OpenedWithPassword, NoSession, Token
  <2> QED
    BY <2>1, <2>2, <2>3, FS_EmptySet DEF BoundInv
<1>2. SessionsTyped /\ LinkInv /\ RotationInv /\ BoundInv /\ [SessionsNext]_sessionVars => BoundInv'
  BY BoundStep
<1>3. SessionsTyped /\ BoundInv => SessionsTypeOK
  BY BoundedTypes
<1> QED
  BY <1>1, <1>2, <1>3, TypedAlways, LinkAlways, RotationAlways, PTL DEF SessionsSpec

=============================================================================
