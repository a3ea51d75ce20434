-------------------------- MODULE PublishingProofs --------------------------
(***************************************************************************)
(* PublishedIsPushed and ListedIsPublicRepository for any number of        *)
(* personas, requests, files and refinements, then CacheIsCurrent and      *)
(* OneQueryPerVersion for any number of the cache's readers.  The first    *)
(* two are not inductive: what a publication has pushed so far, and what   *)
(* it will write when it commits, must agree with a row that others change *)
(* meanwhile.  The cache's invariant is stated where its proofs begin.     *)
(***************************************************************************)
EXTENDS Explore, FiniteSetTheorems, TLAPS

ActivePublication ==
  [pc : Active, persona : Personas, private : BOOLEAN, read : Read,
   pushed : 0..FileCount, alone : BOOLEAN]

\* A row's files, as far as they are not removed, are in a repository.
InRepository(files, last, contents) ==
  \A f \in 1..last : files[f] # Nothing => contents[f] = files[f]

\* What a publication under way has read is still so, or it is not alone; and it has pushed
\* all it has passed.
SoundPublication(r, rows, repos) ==
  LET own == rows[r.persona] IN
  /\ r.pc = "pushing" => r.pushed < FileCount
  /\ r.pc = "committing" => r.pushed = FileCount
  /\ r.read.url # NoRepository => own.url # NoRepository
  /\ r.read.visibility = "private" => own.visibility = "private"
  /\ r.alone =>
       /\ own.files = r.read.files
       /\ own.url = r.read.url \/ own.status = "published"
       /\ InRepository(r.read.files, r.pushed, repos[Target(r.private, r.read)])

\* A published row has a repository, a public row none of a user's.
SoundRow(x) ==
  /\ x.status = "published" => x.url # NoRepository
  /\ x.visibility = "public" => x.url = NoRepository \/ x.url[1] = "org"

RowIsPushed(x, repos) == x.status = "published" => InRepository(x.files, FileCount, repos[x.url])

PublishingInv ==
  /\ PublishingTypeOK
  /\ \A q \in Requests : request[q].pc \in Active => SoundPublication(request[q], row, repo)
  /\ \A p \in Personas : SoundRow(row[p]) /\ (intact[p] => RowIsPushed(row[p], repo))

-----------------------------------------------------------------------------
\* A request that is pushing or about to commit has a publication to it.
LEMMA ActiveIsPublication ==
  ASSUME NEW r \in Publication, r.pc \in Active
  PROVE  r \in ActivePublication
BY DEF Publication, ActivePublication, Active, NoPublication

\* The pieces of such a publication.
LEMMA PublicationParts ==
  ASSUME NEW r \in ActivePublication
  PROVE  /\ r \in Publication /\ r.pc \in Active /\ r.persona \in Personas
         /\ r.private \in BOOLEAN /\ r.pushed \in 0..FileCount /\ r.alone \in BOOLEAN
         /\ r.read.files \in [Files -> Text] /\ r.read.name \in Names
         /\ r.read.visibility \in {"public", "private"}
         /\ r.read.url \in Repositories \cup {NoRepository}
         /\ Target(r.private, r.read) \in Repositories
<1>1. r \in Publication
  BY DEF ActivePublication, Publication
<1>2. r.read \in Read /\ r.persona \in Personas /\ r.pc \in Active
  BY DEF ActivePublication
<1>3. r.private \in BOOLEAN /\ r.pushed \in 0..FileCount /\ r.alone \in BOOLEAN
  BY DEF ActivePublication
<1>4. /\ r.read.files \in [Files -> Text] /\ r.read.name \in Names
      /\ r.read.visibility \in {"public", "private"}
      /\ r.read.url \in Repositories \cup {NoRepository}
  BY <1>2 DEF Read
<1>5. Target(r.private, r.read) \in Repositories
  BY <1>4 DEF Target, Repositories, Accounts
<1> QED
  BY <1>1, <1>2, <1>3, <1>4, <1>5

\* No repository is NoRepository, and a target is the organisation's or the user's.
LEMMA TargetsAreRepositories ==
  /\ NoRepository \notin Repositories
  /\ \A private, read : Target(private, read)[1] = IF private THEN "user" ELSE "org"
BY DEF NoRepository, Repositories, Accounts, Target

\* What a row is.
LEMMA RowParts ==
  ASSUME PublishingInv, NEW p \in Personas
  PROVE  /\ row[p] \in Row /\ row[p].status \in {"generated", "published"}
         /\ row[p].visibility \in {"public", "private"} /\ row[p].name \in Names
         /\ row[p].files \in [Files -> Text] /\ row[p].url \in Repositories \cup {NoRepository}
         /\ SoundRow(row[p]) /\ (intact[p] => RowIsPushed(row[p], repo))
<1>1. row[p] \in Row
  BY DEF PublishingInv, PublishingTypeOK
<1> QED
  BY <1>1 DEF PublishingInv, Row

\* A step of one request that touches nothing else, and leaves it sound, keeps PublishingInv.
LEMMA OneRequestChanges ==
  ASSUME PublishingInv, NEW q \in Requests, NEW new \in Publication,
         request' = [request EXCEPT ![q] = new],
         UNCHANGED <<row, repo, refinement, edits, intact>>,
         new.pc \in Active => SoundPublication(new, row, repo)
  PROVE  PublishingInv'
<1>1. request \in [Requests -> Publication]
  BY DEF PublishingInv, PublishingTypeOK
<1>2. request' \in [Requests -> Publication]
  BY <1>1
<1>3. PublishingTypeOK'
  BY <1>2 DEF PublishingInv, PublishingTypeOK
<1>4. ASSUME NEW o \in Requests, request'[o].pc \in Active
      PROVE  SoundPublication(request'[o], row', repo')
  <2>1. CASE o = q
    <3>1. request'[o] = new
      BY <1>1, <2>1
    <3> QED
      BY <1>4, <3>1
  <2>2. CASE o # q
    <3>1. request'[o] = request[o]
      BY <1>1, <2>2
    <3> QED
      BY <1>4, <3>1 DEF PublishingInv
  <2> QED
    BY <2>1, <2>2
<1>5. \A p \in Personas : SoundRow(row'[p]) /\ (intact'[p] => RowIsPushed(row'[p], repo'))
  BY DEF PublishingInv
<1> QED
  BY <1>3, <1>4, <1>5 DEF PublishingInv

\* Before any publication every persona is generated and has no repository.
LEMMA PublishingInitEstablishes == PublishingInit => PublishingInv
<1> SUFFICES ASSUME PublishingInit PROVE PublishingInv
  OBVIOUS
<1>1. PICK name \in [Personas -> Names] : row = [p \in Personas |-> Generated(p, name[p])]
  BY DEF PublishingInit
<1>2. 0 \in 0..MaxEdits
  BY PublishingAssumption
<1>3. ASSUME NEW p \in Personas PROVE row[p] \in Row /\ SoundRow(row[p])
  <2>1. [f \in Files |-> <<p, 0>>] \in [Files -> Text]
    BY <1>2 DEF Text
  <2>2. Generated(p, name[p]) \in Row
    BY <1>1, <2>1 DEF Generated, Row
  <2>3. SoundRow(Generated(p, name[p]))
    BY DEF SoundRow, Generated
  <2> QED
    BY <1>1, <2>2, <2>3
<1>4. repo \in [Repositories -> [Files -> Text]]
  BY <1>2 DEF PublishingInit, Nothing, Text
<1>5. request \in [Requests -> Publication] /\ \A q \in Requests : request[q].pc = "idle"
  BY DEF PublishingInit, Publication, NoPublication
<1>6. row \in [Personas -> Row]
  BY <1>1, <1>3
<1>7. PublishingTypeOK
  BY <1>2, <1>4, <1>5, <1>6 DEF PublishingInit, PublishingTypeOK
<1> QED
  BY <1>3, <1>5, <1>7 DEF PublishingInit, PublishingInv, Active

-----------------------------------------------------------------------------
(* Steps that change a request only *)

\* A request that is over, or has committed, has nothing left to be sound about.
LEMMA EndsPreserve ==
  ASSUME PublishingInv, NEW q \in Requests,
         \/ \E p \in Personas, private \in BOOLEAN : Skip(q, p, private)
         \/ PushFails(q) \/ Crash(q) \/ Invalidated(q)
  PROVE  PublishingInv'
<1>1. [pc |-> "done"] \in Publication
  BY DEF Publication
<1>2. \A p \in Personas : [pc |-> "committed", persona |-> p] \in Publication
  BY DEF Publication
<1>3. CASE \E p \in Personas, private \in BOOLEAN : Skip(q, p, private)
  <2>1. PICK p \in Personas, private \in BOOLEAN : Skip(q, p, private)
    BY <1>3
  <2>2. CASE private
    BY <1>1, <2>1, <2>2, OneRequestChanges DEF Skip, Finish, Active
  <2>3. CASE ~private
    BY <1>2, <2>1, <2>3, OneRequestChanges DEF Skip, Active
  <2> QED
    BY <2>2, <2>3
<1>4. CASE PushFails(q) \/ Crash(q) \/ Invalidated(q)
  BY <1>1, <1>4, OneRequestChanges DEF PushFails, Crash, Invalidated, Finish, Active
<1> QED
  BY <1>3, <1>4

\* A publication that starts has read the row as it is, and pushed nothing.
LEMMA StartPreserves ==
  ASSUME PublishingInv, NEW q \in Requests, NEW p \in Personas, NEW private \in BOOLEAN,
         Start(q, p, private)
  PROVE  PublishingInv'
<1> DEFINE new == [pc |-> "pushing", persona |-> p, private |-> private, read |-> ReadRow(p),
                   pushed |-> 0, alone |-> TRUE]
<1>1. /\ row[p].visibility \in {"public", "private"} /\ row[p].name \in Names
      /\ row[p].files \in [Files -> Text] /\ row[p].url \in Repositories \cup {NoRepository}
  BY RowParts
<1>2. /\ ReadRow(p) \in Read /\ ReadRow(p).files = row[p].files
      /\ ReadRow(p).url = row[p].url /\ ReadRow(p).visibility = row[p].visibility
  BY <1>1 DEF ReadRow, Read
<1>3. 0 \in 0..FileCount /\ 0 < FileCount /\ 1..0 = {}
  BY PublishingAssumption
<1>4. new \in ActivePublication
  BY <1>2, <1>3 DEF ActivePublication, Active
<1>5. InRepository(ReadRow(p).files, 0, repo[Target(private, ReadRow(p))])
  BY <1>3 DEF InRepository
<1>6. SoundPublication(new, row, repo)
  BY <1>2, <1>3, <1>5 DEF SoundPublication
<1>7. request' = [request EXCEPT ![q] = new] /\ UNCHANGED <<row, repo, refinement, edits, intact>>
  BY DEF Start
<1> QED
  BY <1>4, <1>6, <1>7, PublicationParts, OneRequestChanges

\* What a publication is before it pushes or commits.
LEMMA ActiveIsSound ==
  ASSUME PublishingInv, NEW q \in Requests, request[q].pc \in Active
  PROVE  request[q] \in ActivePublication /\ SoundPublication(request[q], row, repo)
BY ActiveIsPublication DEF PublishingInv, PublishingTypeOK

\* The publication goes on by one file.
LEMMA PushedOn ==
  ASSUME PublishingInv, NEW q \in Requests, request[q].pc = "pushing"
  PROVE  /\ NextFile(q) \in Files /\ NextFile(q) = request[q].pushed + 1
         /\ Pushed(q) \in ActivePublication
         /\ Pushed(q).persona = request[q].persona /\ Pushed(q).private = request[q].private
         /\ Pushed(q).read = request[q].read /\ Pushed(q).alone = request[q].alone
         /\ Pushed(q).pushed = NextFile(q)
         /\ Pushed(q).pc = "pushing" => NextFile(q) < FileCount
         /\ Pushed(q).pc = "committing" => NextFile(q) = FileCount
<1> DEFINE pc == IF NextFile(q) = FileCount THEN "committing" ELSE "pushing"
<1>1. /\ request[q] \in ActivePublication /\ request[q].pushed \in 0..FileCount
      /\ request[q].pushed < FileCount
  BY ActiveIsSound, PublicationParts DEF Active, SoundPublication
<1>2. NextFile(q) = request[q].pushed + 1
  BY DEF NextFile
<1>3. NextFile(q) \in 0..FileCount /\ NextFile(q) \in Files /\ NextFile(q) <= FileCount
  BY <1>1, <1>2, PublishingAssumption DEF Files
<1>4. /\ pc \in Active /\ (pc = "committing" => NextFile(q) = FileCount)
      /\ pc = "pushing" => NextFile(q) < FileCount
  BY <1>3, PublishingAssumption DEF Active
<1>5. Pushed(q) = [request[q] EXCEPT !.pushed = NextFile(q), !.pc = pc]
  BY DEF Pushed
<1> HIDE DEF pc
<1>6. /\ Pushed(q) \in ActivePublication /\ Pushed(q).pc = pc
      /\ Pushed(q).persona = request[q].persona /\ Pushed(q).private = request[q].private
      /\ Pushed(q).read = request[q].read /\ Pushed(q).alone = request[q].alone
      /\ Pushed(q).pushed = NextFile(q)
  BY <1>1, <1>3, <1>4, <1>5 DEF ActivePublication
<1> QED
  BY <1>2, <1>3, <1>4, <1>6

\* A repository that has all the files up to one has them up to the next, if that one is
\* removed or written.
LEMMA OneFileMore ==
  ASSUME NEW files, NEW contents, NEW later, NEW n \in Nat,
         InRepository(files, n, contents),
         \A f \in 1..n : later[f] = contents[f],
         files[n + 1] # Nothing => later[n + 1] = files[n + 1]
  PROVE  InRepository(files, n + 1, later)
<1>1. ASSUME NEW f \in 1..(n + 1), files[f] # Nothing PROVE later[f] = files[f]
  <2>1. f \in 1..n \/ f = n + 1
    OBVIOUS
  <2>2. CASE f \in 1..n
    BY <1>1, <2>2 DEF InRepository
  <2>3. CASE f = n + 1
    BY <1>1, <2>3
  <2> QED
    BY <2>1, <2>2, <2>3
<1> QED
  BY <1>1 DEF InRepository

\* A file the persona does not have is passed over.
LEMMA PassOverPreserves ==
  ASSUME PublishingInv, NEW q \in Requests, PassOver(q)
  PROVE  PublishingInv'
<1> DEFINE r == request[q]
<1>1. r.pc = "pushing" /\ r.pc \in Active
  BY DEF PassOver, Active
<1>2. SoundPublication(r, row, repo) /\ r.pushed \in Nat
  BY <1>1, ActiveIsSound, PublicationParts
<1>3. r.read.files[r.pushed + 1] = Nothing
  BY DEF PassOver, Content, NextFile
<1>4. r.alone => InRepository(r.read.files, r.pushed + 1, repo[Target(r.private, r.read)])
  BY <1>2, <1>3, OneFileMore DEF SoundPublication
<1>5. SoundPublication(Pushed(q), row, repo)
  BY <1>1, <1>2, <1>4, PushedOn DEF SoundPublication
<1>6. Pushed(q) \in Publication
  BY <1>1, PushedOn, PublicationParts
<1> QED
  BY <1>5, <1>6, OneRequestChanges DEF PassOver


-----------------------------------------------------------------------------
(* A file is pushed *)

\* The repository has the new text at one place, and the others are as they were.
LEMMA PushWrites ==
  ASSUME PublishingInv, NEW q \in Requests, Push(q)
  PROVE  /\ Repository(q) \in Repositories
         /\ repo' \in [Repositories -> [Files -> Text]]
         /\ \A r \in Repositories : r # Repository(q) => repo'[r] = repo[r]
         /\ \A f \in Files : f # NextFile(q) => repo'[Repository(q)][f] = repo[Repository(q)][f]
         /\ repo'[Repository(q)][NextFile(q)] = request[q].read.files[NextFile(q)]
<1>1. request[q].pc = "pushing" /\ request[q].pc \in Active
  BY DEF Push, Active
<1>2. Repository(q) \in Repositories /\ request[q].read.files \in [Files -> Text]
  BY <1>1, ActiveIsSound, PublicationParts DEF Repository
<1>3. NextFile(q) \in Files
  BY <1>1, PushedOn
<1>4. Content(q) \in Text /\ Content(q) = request[q].read.files[NextFile(q)]
  BY <1>2, <1>3 DEF Content
<1>5. repo \in [Repositories -> [Files -> Text]]
  BY DEF PublishingInv, PublishingTypeOK
<1>6. repo' = [repo EXCEPT ![Repository(q)][NextFile(q)] = Content(q)]
  BY DEF Push
<1> QED
  BY <1>2, <1>3, <1>4, <1>5, <1>6

\* The publication has pushed one file more; those it disturbs are no longer alone; and no
\* intact publication is in its repository.
LEMMA PushPreserves ==
  ASSUME PublishingInv, NEW q \in Requests, Push(q)
  PROVE  PublishingInv'
<1> DEFINE r == request[q]
           mine == [Pushed(q) EXCEPT !.alone = @ /\ Disturbed(q) = {}]
<1>1. /\ r.pc = "pushing" /\ r.pc \in Active /\ r \in ActivePublication
      /\ SoundPublication(r, row, repo) /\ r.pushed \in Nat
      /\ r.persona \in Personas
  BY ActiveIsSound, PublicationParts DEF Push, Active
<1>2. /\ Repository(q) \in Repositories /\ repo' \in [Repositories -> [Files -> Text]]
      /\ \A t \in Repositories : t # Repository(q) => repo'[t] = repo[t]
      /\ \A f \in Files : f # NextFile(q) => repo'[Repository(q)][f] = repo[Repository(q)][f]
      /\ repo'[Repository(q)][NextFile(q)] = r.read.files[NextFile(q)]
  BY PushWrites
<1>3. /\ NextFile(q) = r.pushed + 1 /\ NextFile(q) \in Files
      /\ Repository(q) = Target(r.private, r.read)
      /\ row' = row /\ refinement' = refinement /\ edits' = edits
  BY <1>1, PushedOn DEF Push, Repository
<1>4. mine \in ActivePublication /\ (mine.alone => r.alone)
      /\ mine.persona = r.persona /\ mine.private = r.private /\ mine.read = r.read
      /\ mine.pushed = NextFile(q) /\ mine.pc = Pushed(q).pc
  <2>1. Pushed(q) \in ActivePublication /\ Pushed(q).alone = r.alone
        /\ Pushed(q).persona = r.persona /\ Pushed(q).private = r.private
        /\ Pushed(q).read = r.read /\ Pushed(q).pushed = NextFile(q)
    BY <1>1, PushedOn
  <2>2. r.alone \in BOOLEAN
    BY <1>1, PublicationParts
  <2> DEFINE alone == r.alone /\ Disturbed(q) = {}
  <2>3. alone \in BOOLEAN /\ (alone => r.alone)
    BY <2>2
  <2>4. mine = [Pushed(q) EXCEPT !.alone = alone]
    BY <2>1
  <2> HIDE DEF alone, mine
  <2> QED
    BY <2>1, <2>3, <2>4 DEF ActivePublication
<1> HIDE DEF mine
<1>5. SoundPublication(mine, row, repo')
  <2>1. ASSUME mine.alone
        PROVE  InRepository(r.read.files, r.pushed + 1, repo'[Target(r.private, r.read)])
    <3>1. InRepository(r.read.files, r.pushed, repo[Repository(q)])
      BY <1>1, <1>3, <1>4, <2>1 DEF SoundPublication
    <3>2. \A f \in 1..r.pushed : f \in Files /\ f # NextFile(q)
      BY <1>1, <1>3, PublishingAssumption DEF Files
    <3>3. \A f \in 1..r.pushed : repo'[Repository(q)][f] = repo[Repository(q)][f]
      BY <1>2, <3>2
    <3> QED
      BY <1>1, <1>2, <1>3, <3>1, <3>3, OneFileMore
  <2> QED
    BY <1>1, <1>3, <1>4, <2>1, PushedOn DEF SoundPublication
<1>6. request' = [o \in Requests |->
        IF o = q THEN mine
        ELSE IF o \in Disturbed(q) THEN [request[o] EXCEPT !.alone = FALSE] ELSE request[o]]
  BY DEF Push, mine
<1>7. ASSUME NEW o \in Requests
      PROVE  /\ request'[o] \in Publication
             /\ request'[o].pc \in Active => SoundPublication(request'[o], row, repo')
  <2>1. CASE o = q
    <3>1. request'[o] = mine
      BY <1>6, <2>1
    <3> QED
      BY <1>4, <1>5, <3>1, PublicationParts
  <2>2. CASE o # q /\ o \in Disturbed(q)
    <3> DEFINE other == [request[o] EXCEPT !.alone = FALSE]
    <3>1. request[o].pc \in Active
      BY <2>2 DEF Disturbed, Busy
    <3>2. request[o] \in ActivePublication /\ SoundPublication(request[o], row, repo)
      BY <3>1, ActiveIsSound
    <3>3. /\ other \in ActivePublication /\ ~other.alone
          /\ other.pc = request[o].pc /\ other.persona = request[o].persona
          /\ other.read = request[o].read /\ other.pushed = request[o].pushed
      BY <3>2 DEF ActivePublication
    <3>4. request'[o] = other
      BY <1>6, <2>2
    <3>5. SoundPublication(other, row, repo')
      BY <3>2, <3>3 DEF SoundPublication
    <3> QED
      BY <3>3, <3>4, <3>5, PublicationParts
  <2>3. CASE o # q /\ o \notin Disturbed(q)
    <3>1. request'[o] = request[o] /\ request[o] \in Publication
      BY <1>6, <2>3 DEF PublishingInv, PublishingTypeOK
    <3>2. ASSUME request[o].pc \in Active PROVE SoundPublication(request[o], row, repo')
      <4>1. request[o] \in ActivePublication /\ SoundPublication(request[o], row, repo)
        BY <3>2, ActiveIsSound
      <4>2. Repository(o) # Repository(q) /\ Repository(o) \in Repositories
        BY <2>3, <3>2, <4>1, PublicationParts DEF Disturbed, Busy, Repository
      <4>3. repo'[Target(request[o].private, request[o].read)]
              = repo[Target(request[o].private, request[o].read)]
        BY <1>2, <4>2 DEF Repository
      <4> QED
        BY <4>1, <4>3 DEF SoundPublication
    <3> QED
      BY <3>1, <3>2
  <2> QED
    BY <2>1, <2>2, <2>3
<1>8. ASSUME NEW p \in Personas
      PROVE  SoundRow(row'[p]) /\ (intact'[p] => RowIsPushed(row'[p], repo'))
  <2>1. intact'[p] => intact[p] /\ row[p].url # Repository(q)
    BY DEF Push
  <2>2. ASSUME intact'[p], row[p].status = "published"
        PROVE  InRepository(row[p].files, FileCount, repo'[row[p].url])
    <3>1. row[p].url \in Repositories /\ row[p].url # Repository(q)
      BY <2>1, <2>2, RowParts DEF SoundRow
    <3>2. repo'[row[p].url] = repo[row[p].url]
      BY <1>2, <3>1
    <3> QED
      BY <2>1, <2>2, <3>2, RowParts DEF RowIsPushed
  <2> QED
    BY <1>3, <2>2, RowParts DEF RowIsPushed
<1>9. intact' \in [Personas -> BOOLEAN]
  <2>1. intact \in [Personas -> BOOLEAN]
    BY DEF PublishingInv, PublishingTypeOK
  <2>2. \A p \in Personas : (intact[p] /\ row[p].url # Repository(q)) \in BOOLEAN
    OBVIOUS
  <2> QED
    BY <2>2 DEF Push
<1>10. request' \in [Requests -> Publication]
  BY <1>6, <1>7
<1>11. PublishingTypeOK'
  BY <1>2, <1>3, <1>9, <1>10 DEF PublishingInv, PublishingTypeOK
<1> QED
  BY <1>3, <1>7, <1>8, <1>11 DEF PublishingInv


-----------------------------------------------------------------------------
(* A publication commits *)

\* What it makes of the row.
LEMMA CommittedRow ==
  ASSUME PublishingInv, NEW q \in Requests, Commit(q)
  PROVE  LET p == request[q].persona
             target == Repository(q)
         IN  /\ p \in Personas /\ PublishedRow(q) \in Row
             /\ PublishedRow(q).status = "published"
             /\ PublishedRow(q).files = row[p].files
             /\ row[p].visibility = "private" => PublishedRow(q).visibility = "private"
             /\ PublishedRow(q).url # NoRepository
             /\ \/ PublishedRow(q).url = target
                \/ PublishedRow(q).url = row[p].url /\ target = request[q].read.url
             /\ SoundRow(PublishedRow(q))
<1> DEFINE r == request[q]
           p == r.persona
           target == Target(r.private, r.read)
           visibility == IF r.private /\ r.read.visibility # "private" THEN "private"
                         ELSE row[p].visibility
           url == IF target = r.read.url THEN row[p].url ELSE target
           new == [row[p] EXCEPT !.status = "published", !.visibility = visibility, !.url = url]
<1>1. /\ r \in ActivePublication /\ SoundPublication(r, row, repo) /\ p \in Personas
      /\ target \in Repositories /\ r.private \in BOOLEAN
  BY ActiveIsSound, PublicationParts DEF Commit, Active
<1>2. /\ row[p] \in Row /\ SoundRow(row[p]) /\ row[p].visibility \in {"public", "private"}
      /\ row[p].url \in Repositories \cup {NoRepository}
  BY <1>1, RowParts
<1>3. PublishedRow(q) = new /\ Repository(q) = target
  BY DEF PublishedRow, Repository
<1>4. /\ visibility \in {"public", "private"}
      /\ row[p].visibility = "private" => visibility = "private"
      /\ r.private => visibility = "private"
      /\ visibility = "public" => row[p].visibility = "public"
  BY <1>1, <1>2 DEF SoundPublication
<1>5. /\ url \in Repositories /\ url # NoRepository
      /\ url = target \/ (url = row[p].url /\ target = r.read.url)
  BY <1>1, <1>2, TargetsAreRepositories DEF SoundPublication
<1>6. visibility = "public" => url[1] = "org"
  <2>1. ASSUME visibility = "public" PROVE url[1] = "org"
    <3>1. ~r.private /\ target[1] = "org"
      BY <1>4, <2>1, TargetsAreRepositories
    <3>2. row[p].visibility = "public"
      BY <1>4, <2>1
    <3>3. row[p].url = NoRepository \/ row[p].url[1] = "org"
      BY <1>2, <3>2 DEF SoundRow
    <3> QED
      BY <1>5, <3>1, <3>3
  <2> QED
    BY <2>1
<1> HIDE DEF visibility, url, target
<1>7. /\ new \in Row /\ new.status = "published" /\ new.visibility = visibility
      /\ new.url = url /\ new.files = row[p].files
  BY <1>2, <1>4, <1>5 DEF Row
<1>8. SoundRow(new)
  BY <1>5, <1>6, <1>7 DEF SoundRow
<1> QED
  BY <1>1, <1>3, <1>4, <1>5, <1>7, <1>8

\* What was pushed alone is what the row holds; a row that stays at another repository was
\* put there by a publication that is still intact.
LEMMA CommitPreserves ==
  ASSUME PublishingInv, NEW q \in Requests, Commit(q)
  PROVE  PublishingInv'
<1> DEFINE r == request[q]
           p == r.persona
           target == Repository(q)
           new == PublishedRow(q)
<1>1. /\ r \in ActivePublication /\ SoundPublication(r, row, repo) /\ r.pc = "committing"
      /\ r.private \in BOOLEAN /\ r.alone \in BOOLEAN
  BY ActiveIsSound, PublicationParts DEF Commit, Active
<1>2. /\ p \in Personas /\ new \in Row /\ new.status = "published"
      /\ new.files = row[p].files
      /\ row[p].visibility = "private" => new.visibility = "private"
      /\ new.url # NoRepository
      /\ new.url = target \/ (new.url = row[p].url /\ target = r.read.url)
      /\ SoundRow(new)
  BY CommittedRow
<1>3. /\ row' = [row EXCEPT ![p] = new] /\ row \in [Personas -> Row]
      /\ intact' = [intact EXCEPT ![p] = r.alone /\ (new.url = target \/ @)]
      /\ intact \in [Personas -> BOOLEAN]
      /\ repo' = repo /\ refinement' = refinement /\ edits' = edits
  BY DEF Commit, PublishingInv, PublishingTypeOK
<1> HIDE DEF new
<1>4. /\ row' \in [Personas -> Row] /\ row'[p] = new
      /\ \A x \in Personas : x # p => row'[x] = row[x] /\ intact'[x] = intact[x]
      /\ intact'[p] = (r.alone /\ (new.url = target \/ intact[p]))
  BY <1>2, <1>3
<1>5. intact' \in [Personas -> BOOLEAN]
  <2>1. (r.alone /\ (new.url = target \/ intact[p])) \in BOOLEAN
    OBVIOUS
  <2> QED
    BY <1>2, <1>3, <2>1
<1>6. PICK over \in Publication : /\ request' = [request EXCEPT ![q] = over]
                                 /\ over.pc \notin Active
  <2>1. [pc |-> "done"] \in Publication /\ [pc |-> "committed", persona |-> p] \in Publication
    BY <1>2 DEF Publication
  <2>2. CASE r.private
    BY <2>1, <2>2 DEF Commit, Finish, Active
  <2>3. CASE ~r.private
    BY <2>1, <2>3 DEF Commit, Active
  <2> QED
    BY <2>2, <2>3
<1>7. ASSUME NEW o \in Requests
      PROVE  /\ request'[o] \in Publication
             /\ request'[o].pc \in Active => SoundPublication(request'[o], row', repo)
  <2>1. request \in [Requests -> Publication]
    BY DEF PublishingInv, PublishingTypeOK
  <2>2. CASE o = q
    <3>1. request'[o] = over
      BY <1>6, <2>1, <2>2
    <3> QED
      BY <1>6, <3>1
  <2>3. CASE o # q
    <3>1. request'[o] = request[o] /\ request[o] \in Publication
      BY <1>6, <2>1, <2>3
    <3>2. ASSUME request[o].pc \in Active PROVE SoundPublication(request[o], row', repo)
      <4>1. /\ SoundPublication(request[o], row, repo) /\ request[o].persona \in Personas
        BY <3>2, ActiveIsSound, PublicationParts
      <4>2. CASE request[o].persona = p
        <5>1. row'[request[o].persona] = new
          BY <1>4, <4>2
        <5> QED
          BY <1>2, <4>1, <4>2, <5>1 DEF SoundPublication
      <4>3. CASE request[o].persona # p
        <5>1. row'[request[o].persona] = row[request[o].persona]
          BY <1>4, <4>1, <4>3
        <5> QED
          BY <4>1, <5>1 DEF SoundPublication
      <4> QED
        BY <4>2, <4>3
    <3> QED
      BY <3>1, <3>2
  <2> QED
    BY <2>2, <2>3
<1>8. ASSUME intact'[p] PROVE InRepository(new.files, FileCount, repo[new.url])
  <2>1. /\ r.alone /\ row[p].files = r.read.files
        /\ row[p].url = r.read.url \/ row[p].status = "published"
        /\ InRepository(r.read.files, FileCount, repo[target])
    BY <1>1, <1>4, <1>8 DEF SoundPublication, Repository
  <2>2. CASE new.url = target
    BY <1>2, <2>1, <2>2
  <2>3. CASE new.url # target
    <3>1. intact[p] /\ new.url = row[p].url /\ row[p].status = "published"
      BY <1>2, <1>4, <1>8, <2>1, <2>3
    <3>2. InRepository(row[p].files, FileCount, repo[row[p].url])
      BY <1>2, <3>1, RowParts DEF RowIsPushed
    <3> QED
      BY <1>2, <3>1, <3>2
  <2> QED
    BY <2>2, <2>3
<1>9. ASSUME NEW x \in Personas
      PROVE  SoundRow(row'[x]) /\ (intact'[x] => RowIsPushed(row'[x], repo))
  <2>1. CASE x = p
    BY <1>2, <1>4, <1>8, <2>1 DEF RowIsPushed
  <2>2. CASE x # p
    <3>1. row'[x] = row[x] /\ intact'[x] = intact[x]
      BY <1>4, <2>2
    <3> QED
      BY <3>1, RowParts
  <2> QED
    BY <2>1, <2>2
<1>10. request' \in [Requests -> Publication]
  BY <1>6, <1>7 DEF PublishingInv, PublishingTypeOK
<1>11. PublishingTypeOK'
  BY <1>3, <1>4, <1>5, <1>10 DEF PublishingInv, PublishingTypeOK
<1> QED
  BY <1>3, <1>7, <1>9, <1>11 DEF PublishingInv


-----------------------------------------------------------------------------
(* What else happens to the row *)

\* A refined row is generated again, or stays so; its repository and visibility stay.
LEMMA RefinedRow ==
  ASSUME PublishingInv, NEW p \in Personas, refinement[p] # "none", edits < MaxEdits,
         NEW changed \in SUBSET Files, NEW dropped \in SUBSET changed, NEW name \in Names
  PROVE  LET new == Refined(p, changed, dropped, name)
         IN  /\ new \in Row /\ SoundRow(new) /\ edits + 1 \in 0..MaxEdits
             /\ new.url = row[p].url /\ new.visibility = row[p].visibility
             /\ refinement[p] = row[p].status => new.status = "generated"
<1> DEFINE status == IF refinement[p] = "generated" THEN row[p].status ELSE "generated"
           text(f) == IF f \in dropped THEN Nothing
                      ELSE IF f \in changed THEN <<p, edits + 1>> ELSE row[p].files[f]
           files == [f \in Files |-> text(f)]
           new == [row[p] EXCEPT !.status = status, !.name = name, !.files = files]
<1>1. /\ row[p] \in Row /\ row[p].files \in [Files -> Text] /\ SoundRow(row[p])
      /\ row[p].status \in {"generated", "published"}
  BY RowParts
<1>2. /\ refinement[p] \in {"none", "generated", "published"}
      /\ edits \in 0..MaxEdits /\ edits + 1 \in 0..MaxEdits /\ 0 \in 0..MaxEdits
  BY PublishingAssumption DEF PublishingInv, PublishingTypeOK
<1>3. files \in [Files -> Text]
  <2>1. Nothing \in Text /\ <<p, edits + 1>> \in Text
    BY <1>2 DEF Nothing, Text
  <2>2. \A f \in Files : text(f) \in Text
    BY <1>1, <2>1
  <2> HIDE DEF text
  <2> QED
    BY <2>2
<1>4. /\ status \in {"generated", "published"}
      /\ status = "published" => row[p].status = "published"
      /\ refinement[p] = row[p].status => status = "generated"
  BY <1>1, <1>2
<1>5. Refined(p, changed, dropped, name) = new
  BY <1>1 DEF Refined, Row
<1> HIDE DEF status, files
<1>6. /\ new \in Row /\ new.status = status /\ new.url = row[p].url
      /\ new.visibility = row[p].visibility
  BY <1>1, <1>3, <1>4 DEF Row
<1>7. SoundRow(new)
  BY <1>1, <1>4, <1>6 DEF SoundRow
<1> QED
  BY <1>2, <1>4, <1>5, <1>6, <1>7

\* Publications of the refined persona are no longer alone, and its last one is intact only
\* if the row is not published any more.
LEMMA RefinePreserves ==
  ASSUME PublishingInv, NEW p \in Personas, RefineCommit(p)
  PROVE  PublishingInv'
<1>0. PICK changed \in SUBSET Files \ {{}}, name \in Names :
        \E dropped \in SUBSET (changed \cap SkillFiles) :
          row' = [row EXCEPT ![p] = Refined(p, changed, dropped, name)]
  BY DEF RefineCommit
<1>1. PICK dropped \in SUBSET (changed \cap SkillFiles) :
        row' = [row EXCEPT ![p] = Refined(p, changed, dropped, name)]
  BY <1>0
<1> DEFINE new == Refined(p, changed, dropped, name)
<1>2. /\ new \in Row /\ SoundRow(new) /\ edits + 1 \in 0..MaxEdits
      /\ new.url = row[p].url /\ new.visibility = row[p].visibility
      /\ refinement[p] = row[p].status => new.status = "generated"
  BY RefinedRow DEF RefineCommit
<1> HIDE DEF new
<1>3. /\ row' = [row EXCEPT ![p] = new] /\ row \in [Personas -> Row]
      /\ repo' = repo /\ edits' = edits + 1
      /\ refinement' = [refinement EXCEPT ![p] = "none"]
      /\ intact' = [intact EXCEPT ![p] = @ /\ refinement[p] = row[p].status]
  BY <1>1 DEF RefineCommit, PublishingInv, PublishingTypeOK, new
<1>4. row' \in [Personas -> Row] /\ row'[p] = new /\ \A x \in Personas : x # p => row'[x] = row[x]
  BY <1>2, <1>3
<1>5. /\ intact \in [Personas -> BOOLEAN]
      /\ intact' \in [Personas -> BOOLEAN]
      /\ intact'[p] => refinement[p] = row[p].status
      /\ \A x \in Personas : x # p => intact'[x] = intact[x]
  <2>1. intact \in [Personas -> BOOLEAN]
    BY DEF PublishingInv, PublishingTypeOK
  <2> DEFINE still == intact[p] /\ refinement[p] = row[p].status
  <2>2. still \in BOOLEAN /\ (still => refinement[p] = row[p].status)
    OBVIOUS
  <2>3. intact' = [intact EXCEPT ![p] = still]
    BY <1>3
  <2> HIDE DEF still
  <2> QED
    BY <2>1, <2>2, <2>3
<1>6. ASSUME NEW o \in Requests
      PROVE  /\ request'[o] \in Publication
             /\ request'[o].pc \in Active => SoundPublication(request'[o], row', repo)
  <2>1. /\ request[o] \in Publication
        /\ request'[o] = IF Busy(o) /\ request[o].persona = p
                         THEN [request[o] EXCEPT !.alone = FALSE] ELSE request[o]
    BY DEF RefineCommit, PublishingInv, PublishingTypeOK
  <2>2. CASE Busy(o) /\ request[o].persona = p
    <3> DEFINE other == [request[o] EXCEPT !.alone = FALSE]
    <3>1. request[o] \in ActivePublication /\ SoundPublication(request[o], row, repo)
      BY <2>2, ActiveIsSound DEF Busy
    <3>2. /\ other \in ActivePublication /\ ~other.alone
          /\ other.pc = request[o].pc /\ other.persona = p
          /\ other.read = request[o].read /\ other.pushed = request[o].pushed
      BY <2>2, <3>1 DEF ActivePublication
    <3>3. SoundPublication(other, row', repo)
      BY <1>2, <1>4, <2>2, <3>1, <3>2 DEF SoundPublication
    <3> QED
      BY <2>1, <2>2, <3>2, <3>3, PublicationParts
  <2>3. CASE Busy(o) /\ request[o].persona # p
    <3>1. SoundPublication(request[o], row, repo) /\ request[o].persona \in Personas
      BY <2>3, ActiveIsSound, PublicationParts DEF Busy
    <3>2. row'[request[o].persona] = row[request[o].persona]
      BY <1>4, <2>3, <3>1
    <3>3. SoundPublication(request[o], row', repo)
      BY <3>1, <3>2 DEF SoundPublication
    <3> QED
      BY <2>1, <2>3, <3>3
  <2>4. CASE ~Busy(o)
    BY <2>1, <2>4 DEF Busy
  <2> QED
    BY <2>2, <2>3, <2>4
<1>7. ASSUME NEW x \in Personas
      PROVE  SoundRow(row'[x]) /\ (intact'[x] => RowIsPushed(row'[x], repo))
  <2>1. CASE x = p
    BY <1>2, <1>4, <1>5, <2>1 DEF RowIsPushed
  <2>2. CASE x # p
    BY <1>4, <1>5, <2>2, RowParts
  <2> QED
    BY <2>1, <2>2
<1>8. refinement' \in [Personas -> {"none", "generated", "published"}]
  BY <1>3 DEF PublishingInv, PublishingTypeOK
<1>9. request' \in [Requests -> Publication]
  BY <1>6 DEF RefineCommit
<1>10. PublishingTypeOK'
  BY <1>2, <1>3, <1>4, <1>5, <1>8, <1>9 DEF PublishingInv, PublishingTypeOK
<1> QED
  BY <1>3, <1>6, <1>7, <1>10 DEF PublishingInv

\* A refinement that begins reads only; a deletion leaves the row's repository alone.
LEMMA LoadAndDeletePreserve ==
  ASSUME PublishingInv, NEW p \in Personas, RefineLoad(p) \/ Delete(p)
  PROVE  PublishingInv'
<1>1. CASE RefineLoad(p)
  <2>1. refinement' \in [Personas -> {"none", "generated", "published"}]
    <3>1. row[p].status \in {"generated", "published"}
      BY RowParts
    <3> QED
      BY <1>1, <3>1 DEF RefineLoad, PublishingInv, PublishingTypeOK
  <2>2. /\ row' = row /\ repo' = repo /\ request' = request /\ edits' = edits
        /\ intact' = intact
    BY <1>1 DEF RefineLoad
  <2>3. PublishingTypeOK'
    BY <2>1, <2>2 DEF PublishingInv, PublishingTypeOK
  <2> QED
    BY <2>2, <2>3 DEF PublishingInv
<1>2. CASE Delete(p)
  <2> DEFINE new == [row[p] EXCEPT !.deleted = TRUE]
  <2>1. /\ row[p] \in Row /\ SoundRow(row[p]) /\ row \in [Personas -> Row]
        /\ intact[p] => RowIsPushed(row[p], repo)
    BY RowParts DEF PublishingInv, PublishingTypeOK
  <2>2. /\ new \in Row /\ new.status = row[p].status /\ new.url = row[p].url
        /\ new.visibility = row[p].visibility /\ new.files = row[p].files
    BY <2>1 DEF Row
  <2>3. row' = [row EXCEPT ![p] = new]
    BY <1>2 DEF Delete
  <2> HIDE DEF new
  <2>4. row' \in [Personas -> Row] /\ \A x \in Personas : row'[x] = IF x = p THEN new ELSE row[x]
    BY <2>1, <2>2, <2>3
  <2>5. /\ repo' = repo /\ request' = request /\ edits' = edits
        /\ intact' = intact /\ refinement' = refinement
    BY <1>2 DEF Delete
  <2>6. ASSUME NEW x \in Personas
        PROVE  SoundRow(row'[x]) /\ (intact[x] => RowIsPushed(row'[x], repo))
    <3>1. CASE x = p
      BY <2>1, <2>2, <2>4, <3>1 DEF SoundRow, RowIsPushed
    <3>2. CASE x # p
      BY <2>4, <3>2, RowParts
    <3> QED
      BY <3>1, <3>2
  <2>7. ASSUME NEW o \in Requests, request[o].pc \in Active
        PROVE  SoundPublication(request[o], row', repo)
    <3>1. SoundPublication(request[o], row, repo) /\ request[o].persona \in Personas
      BY <2>7, ActiveIsSound, PublicationParts
    <3>2. /\ row'[request[o].persona].status = row[request[o].persona].status
          /\ row'[request[o].persona].url = row[request[o].persona].url
          /\ row'[request[o].persona].visibility = row[request[o].persona].visibility
          /\ row'[request[o].persona].files = row[request[o].persona].files
      BY <2>2, <2>4, <3>1
    <3> QED
      BY <3>1, <3>2 DEF SoundPublication
  <2>8. PublishingTypeOK'
    BY <2>4, <2>5 DEF PublishingInv, PublishingTypeOK
  <2> QED
    BY <2>5, <2>6, <2>7, <2>8 DEF PublishingInv
<1> QED
  BY <1>1, <1>2

\* Every step of the registry keeps PublishingInv; the cache's steps touch nothing of it.
LEMMA ExploreStepPreserves == PublishingInv /\ [Next]_vars => PublishingInv'
<1> SUFFICES ASSUME PublishingInv, [Next]_vars PROVE PublishingInv'
  OBVIOUS
<1>1. CASE UNCHANGED publishingVars
  <2>1. /\ row' = row /\ repo' = repo /\ request' = request /\ edits' = edits
        /\ intact' = intact /\ refinement' = refinement
    BY <1>1 DEF publishingVars
  <2> QED
    BY <2>1 DEF PublishingInv, PublishingTypeOK
<1>2. ASSUME NEW q \in Requests, PublicationStep(q) \/ InvalidateExplore(q)
      PROVE  PublishingInv'
  BY <1>2, EndsPreserve, StartPreserves, PushPreserves, PassOverPreserves, CommitPreserves
  DEF PublicationStep, InvalidateExplore
<1>3. ASSUME NEW p \in Personas, PersonaStep(p) PROVE PublishingInv'
  BY <1>3, RefinePreserves, LoadAndDeletePreserve DEF PersonaStep
<1>4. CASE UNCHANGED vars
  BY <1>1, <1>4 DEF vars
<1>5. CASE (\E r \in Readers : Browse(r)) \/ Expire
  BY <1>1, <1>5 DEF Browse, Expire
<1> QED
  BY <1>2, <1>3, <1>4, <1>5 DEF Next

-----------------------------------------------------------------------------
(* The explore cache *)

CallPlaces == {"idle", "waiting", "refetching", "done", "locked", "fetching", "storing",
               "writing", "releasing"}

\* The types of the cache, but for the bound of queries.
CacheShape ==
  /\ version \in Cache!Versions
  /\ entry \in Cache!Entry \cup {NoEntry}
  /\ lock \in Readers \cup {NoReader}
  /\ reader \in [Readers -> Cache!Call]
  /\ \A r \in Readers : reader[r].pc \in {"storing", "writing"} => reader[r].fetched \in Cache!Entry
  /\ queries \in Nat
  /\ late \in BOOLEAN
  /\ refused \in BOOLEAN
  /\ missed \in BOOLEAN

LEMMA CallParts ==
  ASSUME NEW x \in Cache!Call
  PROVE  x.pc \in CallPlaces /\ x.key \in Cache!Versions /\ x.fetched \in Cache!Entry \cup {NoEntry}
  BY DEF Cache!Call, Cache!InLock, CallPlaces

\* A call that goes on without what it had read.
LEMMA MoveEffect ==
  ASSUME CacheShape, NEW r \in Readers, NEW to \in CallPlaces, Cache!Move(r, to)
  PROVE  /\ reader' \in [Readers -> Cache!Call]
         /\ reader'[r].pc = to /\ reader'[r].fetched = NoEntry
         /\ \A o \in Readers \ {r} : reader'[o] = reader[o]
<1> DEFINE x == [Cache!NoCall EXCEPT !.pc = to]
<1>1. x \in Cache!Call /\ x.pc = to /\ x.fetched = NoEntry
  BY ExploreAssumption DEF Cache!NoCall, Cache!Call, Cache!InLock, Cache!Versions, CallPlaces
<1>2. reader' = [reader EXCEPT ![r] = x]
  BY DEF Cache!Move
<1> HIDE DEF x
<1> QED
  BY <1>1, <1>2 DEF CacheShape

\* What the query of fetch_explore returns is a listing.
LEMMA ListingType == PublishingInv => Listing \in Listings
<1> SUFFICES ASSUME PublishingInv, NEW p \in Personas, Listed(p)
             PROVE  <<p, row[p].name, row[p].url>> \in Personas \X Names \X Repositories
  BY DEF Listing, Listings
<1>1. row[p] \in Row /\ SoundRow(row[p]) /\ row[p].status = "published"
  BY RowParts DEF Listed, PublishingInv, PublishingTypeOK
<1> QED
  BY <1>1 DEF SoundRow, Row

\* The value that a call has just read.
LEMMA FetchEffect ==
  ASSUME CacheShape, PublishingInv, NEW r \in Readers, Cache!Fetch(r, Listing)
  PROVE  /\ reader' \in [Readers -> Cache!Call]
         /\ reader'[r].pc = "storing" /\ reader'[r].fetched \in Cache!Entry
         /\ reader'[r].fetched.value = Listing /\ reader'[r].fetched.under = version
         /\ \A o \in Readers \ {r} : reader'[o] = reader[o]
<1> DEFINE e == [value |-> Listing, under |-> version]
           x == [Cache!NoCall EXCEPT !.pc = "storing", !.fetched = e]
<1>1. e \in Cache!Entry /\ e.value = Listing /\ e.under = version
  BY ListingType DEF Cache!Entry, CacheShape
<1>2. reader' = [reader EXCEPT ![r] = x]
  BY DEF Cache!Fetch
<1>3. x \in Cache!Call /\ x.pc = "storing" /\ x.fetched = e
  <2>1. 0 \in Cache!Versions
    BY ExploreAssumption DEF Cache!Versions
  <2>2. ASSUME NEW y \in Cache!Entry
        PROVE  [Cache!NoCall EXCEPT !.pc = "storing", !.fetched = y] \in Cache!Call
    BY <2>1 DEF Cache!NoCall, Cache!Call, Cache!InLock
  <2>3. ASSUME NEW y
        PROVE  /\ [Cache!NoCall EXCEPT !.pc = "storing", !.fetched = y].pc = "storing"
               /\ [Cache!NoCall EXCEPT !.pc = "storing", !.fetched = y].fetched = y
    BY DEF Cache!NoCall
  <2> QED
    BY <1>1, <2>2, <2>3
<1> HIDE DEF x, e
<1> QED
  BY <1>1, <1>2, <1>3 DEF CacheShape

\* The version that set reads.
LEMMA ReadVersionEffect ==
  ASSUME CacheShape, NEW r \in Readers, Cache!ReadVersion(r)
  PROVE  /\ reader' \in [Readers -> Cache!Call]
         /\ reader'[r].pc = "writing" /\ reader'[r].fetched = reader[r].fetched
         /\ reader'[r].key = version
         /\ \A o \in Readers \ {r} : reader'[o] = reader[o]
<1> DEFINE x == [reader[r] EXCEPT !.pc = "writing", !.key = version]
<1>1. x \in Cache!Call /\ x.pc = "writing" /\ x.fetched = reader[r].fetched /\ x.key = version
  BY DEF CacheShape, Cache!Call, Cache!InLock
<1>2. reader' = [reader EXCEPT ![r] = x]
  BY DEF Cache!ReadVersion
<1> HIDE DEF x
<1> QED
  BY <1>1, <1>2 DEF CacheShape

\* The moves that carry nothing over: from where, to where.
Moves == {<<"idle", "done">>, <<"idle", "waiting">>, <<"waiting", "locked">>,
          <<"waiting", "refetching">>, <<"locked", "releasing">>, <<"locked", "fetching">>,
          <<"writing", "releasing">>, <<"releasing", "done">>, <<"releasing", "refetching">>,
          <<"refetching", "done">>, <<"waiting", "done">>, <<"storing", "releasing">>}

\* The three kinds of steps of a call.
LEMMA ReaderSteps ==
  ASSUME NEW r \in Readers, Cache!ReaderStep(r, Listing)
  PROVE  \/ Cache!Fetch(r, Listing)
         \/ Cache!ReadVersion(r)
         \/ \E m \in Moves : reader[r].pc = m[1] /\ Cache!Move(r, m[2])
<1>1. CASE Cache!Look(r) \/ Cache!DoubleCheck(r)
  BY <1>1 DEF Cache!Look, Cache!DoubleCheck, Cache!Hit, Cache!Miss, Cache!At, Moves
<1>2. CASE Cache!Acquire(r) \/ Cache!AcquireTimeout(r) \/ Cache!Store(r)
  BY <1>2 DEF Cache!Acquire, Cache!AcquireTimeout, Cache!Store, Cache!At, Moves
<1>3. CASE Cache!Release(r) \/ Cache!FetchUncached(r)
  BY <1>3 DEF Cache!Release, Cache!FetchUncached, Cache!Finish, Cache!At, Moves
<1>4. CASE Cache!RedisFails(r)
  BY <1>4 DEF Cache!RedisFails, Cache!Finish, Moves
<1> QED
  BY <1>1, <1>2, <1>3, <1>4 DEF Cache!ReaderStep

LEMMA ReaderMoves ==
  ASSUME CacheShape, PublishingInv, NEW r \in Readers, Cache!ReaderStep(r, Listing)
  PROVE  /\ reader' \in [Readers -> Cache!Call]
         /\ reader'[r].pc \in {"storing", "writing"} => reader'[r].fetched \in Cache!Entry
         /\ \A o \in Readers \ {r} : reader'[o] = reader[o]
         /\ version' = version
         /\ \/ reader'[r].fetched \in {NoEntry, reader[r].fetched}
            \/ reader'[r].fetched.value = Listing /\ reader'[r].fetched.under = version
<1>1. version' = version
  BY DEF Cache!ReaderStep, Cache!Look, Cache!DoubleCheck, Cache!Hit, Cache!Miss, Cache!Acquire,
         Cache!AcquireTimeout, Cache!Fetch, Cache!ReadVersion, Cache!Store, Cache!Release,
         Cache!FetchUncached, Cache!RedisFails
<1>2. CASE Cache!Fetch(r, Listing)
  BY <1>1, <1>2, FetchEffect
<1>3. CASE Cache!ReadVersion(r)
  BY <1>1, <1>3, ReadVersionEffect DEF CacheShape, Cache!ReadVersion, Cache!At
<1>4. ASSUME NEW m \in Moves, Cache!Move(r, m[2]) PROVE m[2] \in CallPlaces \ {"storing", "writing"}
  BY DEF Moves, CallPlaces
<1>5. CASE \E m \in Moves : reader[r].pc = m[1] /\ Cache!Move(r, m[2])
  BY <1>1, <1>4, <1>5, MoveEffect
<1> QED
  BY <1>2, <1>3, <1>5, ReaderSteps

\* What a step of a call does to everything else.
LEMMA ReaderRest ==
  ASSUME CacheShape, NEW r \in Readers, Cache!ReaderStep(r, Listing)
  PROVE  /\ lock' \in Readers \cup {NoReader} /\ queries' \in Nat
         /\ late' \in BOOLEAN /\ refused' \in BOOLEAN
         /\ entry' = entry
            \/ (reader[r].pc = "writing" /\ reader[r].key = version /\ entry' = reader[r].fetched)
<1>1. CASE Cache!Look(r) \/ Cache!DoubleCheck(r)
  BY <1>1 DEF Cache!Look, Cache!DoubleCheck, Cache!Hit, Cache!Miss, CacheShape
<1>2. CASE Cache!Acquire(r) \/ Cache!AcquireTimeout(r)
  BY <1>2 DEF Cache!Acquire, Cache!AcquireTimeout, CacheShape
<1>3. CASE Cache!Fetch(r, Listing) \/ Cache!FetchUncached(r)
  BY <1>3 DEF Cache!Fetch, Cache!FetchUncached, CacheShape
<1>4. CASE Cache!ReadVersion(r) \/ Cache!Release(r)
  BY <1>4 DEF Cache!ReadVersion, Cache!Release, CacheShape
<1>5. CASE Cache!Store(r)
  BY <1>5 DEF Cache!Store, Cache!At, CacheShape
<1>6. CASE Cache!RedisFails(r)
  BY <1>6 DEF Cache!RedisFails, CacheShape
<1> QED
  BY <1>1, <1>2, <1>3, <1>4, <1>5, <1>6 DEF Cache!ReaderStep

LEMMA CacheShapeKept == CacheShape /\ PublishingInv /\ [Next]_vars => CacheShape'
<1> SUFFICES ASSUME CacheShape, PublishingInv, [Next]_vars PROVE CacheShape'
  OBVIOUS
<1>1. CASE UNCHANGED cacheVars /\ missed' \in BOOLEAN
  BY <1>1 DEF CacheShape, cacheVars
<1>2. ASSUME NEW r \in Readers, Browse(r) PROVE CacheShape'
  <2>1. Cache!ReaderStep(r, Listing) /\ missed' = missed
    BY <1>2 DEF Browse
  <2>2. /\ reader' \in [Readers -> Cache!Call] /\ version' = version
        /\ \A o \in Readers : reader'[o].pc \in {"storing", "writing"} =>
             reader'[o].fetched \in Cache!Entry
    BY <2>1, ReaderMoves DEF CacheShape
  <2>3. entry' \in Cache!Entry \cup {NoEntry}
    BY <2>1, ReaderRest DEF CacheShape
  <2> QED
    BY <2>1, <2>2, <2>3, ReaderRest DEF CacheShape
<1>3. CASE Expire
  BY <1>3 DEF Expire, Cache!LockExpires, Cache!EntryExpires, CacheShape
<1>4. ASSUME NEW q \in Requests, InvalidateExplore(q) PROVE CacheShape'
  <2>1. CASE Cache!Invalidate /\ missed' = FALSE
    <3>1. version' \in Cache!Versions
      BY <2>1, ExploreAssumption DEF Cache!Invalidate, Cache!Versions, CacheShape
    <3> QED
      BY <2>1, <3>1 DEF Cache!Invalidate, CacheShape
  <2> QED
    BY <1>1, <1>4, <2>1 DEF InvalidateExplore
<1>5. ASSUME NEW q \in Requests, PublicationStep(q) PROVE CacheShape'
  BY <1>1, <1>5 DEF PublicationStep, CacheShape
<1>6. ASSUME NEW p \in Personas, PersonaStep(p) PROVE CacheShape'
  BY <1>1, <1>6 DEF PersonaStep, CacheShape
<1>7. CASE UNCHANGED vars
  BY <1>1, <1>7 DEF vars, CacheShape
<1> QED
  BY <1>2, <1>3, <1>4, <1>5, <1>6, <1>7 DEF Next

LEMMA CacheShapeInit == Init => CacheShape
<1> SUFFICES ASSUME Init PROVE CacheShape
  OBVIOUS
<1>1. 0 \in Cache!Versions
  BY ExploreAssumption DEF Cache!Versions
<1>2. Cache!NoCall \in Cache!Call /\ Cache!NoCall.pc = "idle"
  BY <1>1 DEF Cache!NoCall, Cache!Call
<1> QED
  BY <1>1, <1>2 DEF Init, Cache!CacheInit, CacheShape

-----------------------------------------------------------------------------
(* The entry agrees with the database *)

NoneCommitted == \A q \in Requests : request[q].pc # "committed"

\* A value read under the version that counts is the listing as it is.
Fresh(e) == e # NoEntry /\ e.under = version => e.value = Listing

\* No value is of a later version; with no change left without its invalidation, both the
\* entry and what the calls are about to store are fresh.
FreshInv ==
  /\ entry # NoEntry => entry.under <= version
  /\ \A r \in Readers : reader[r].fetched # NoEntry => reader[r].fetched.under <= version
  /\ ~missed /\ NoneCommitted => Fresh(entry) /\ \A r \in Readers : Fresh(reader[r].fetched)

\* The listing only depends on the rows.
LEMMA ListingFrame == row' = row => Listing' = Listing
  BY DEF Listing, Listed

LEMMA BrowseFresh ==
  ASSUME CacheShape, PublishingInv, FreshInv, NEW r \in Readers, Browse(r)
  PROVE  FreshInv'
<1>1. Cache!ReaderStep(r, Listing) /\ UNCHANGED <<publishingVars, missed>>
  BY DEF Browse
<1>2. Listing' = Listing /\ NoneCommitted' = NoneCommitted
  BY <1>1, ListingFrame DEF publishingVars, NoneCommitted
<1>3. /\ version' = version /\ version \in Nat
      /\ \A o \in Readers \ {r} : reader'[o] = reader[o]
      /\ \/ reader'[r].fetched \in {NoEntry, reader[r].fetched}
         \/ reader'[r].fetched.value = Listing /\ reader'[r].fetched.under = version
  BY <1>1, ReaderMoves, ExploreAssumption DEF CacheShape, Cache!Versions
<1>4. entry' = entry \/ entry' = reader[r].fetched
  BY <1>1, ReaderRest
<1>5. (entry' # NoEntry => entry'.under <= version')
      /\ \A o \in Readers : reader'[o].fetched # NoEntry => reader'[o].fetched.under <= version'
  BY <1>3, <1>4 DEF FreshInv
<1>6. ASSUME ~missed', NoneCommitted' PROVE Fresh(entry)' /\ \A o \in Readers : Fresh(reader[o].fetched)'
  <2>1. Fresh(entry) /\ \A o \in Readers : Fresh(reader[o].fetched)
    BY <1>1, <1>2, <1>6 DEF FreshInv
  <2> QED
    BY <1>2, <1>3, <1>4, <2>1 DEF Fresh
<1> QED
  BY <1>5, <1>6 DEF FreshInv

\* A request that has committed waits for its invalidation, or its change is a missed one; and
\* so is a change of the listing for which no request waits.
LEMMA PublicationMisses ==
  ASSUME PublishingInv, CacheShape, NEW q \in Requests, PublicationStep(q), ~missed', NoneCommitted'
  PROVE  ~missed /\ NoneCommitted /\ Listing' = Listing
<1>1. /\ missed' = (missed \/ (Listing' # Listing /\ request[q].private)
                           \/ (request[q].pc = "committed" /\ request'[q].pc = "done"))
      /\ missed \in BOOLEAN /\ request \in [Requests -> Publication]
  BY DEF PublicationStep, CacheShape, PublishingInv, PublishingTypeOK
<1>2. ~missed /\ (Listing' = Listing \/ ~request[q].private)
      /\ ~(request[q].pc = "committed" /\ request'[q].pc = "done")
  BY <1>1
<1>3. ASSUME NEW new, request' = [request EXCEPT ![q] = new]
      PROVE  request'[q] = new /\ \A o \in Requests \ {q} : request'[o] = request[o]
  BY <1>1, <1>3
<1>4. CASE Commit(q)
  <2>1. request[q].pc = "committing"
    BY <1>4 DEF Commit
  <2>2. CASE request[q].private
    <3>1. /\ request'[q] = [pc |-> "done"] /\ \A o \in Requests \ {q} : request'[o] = request[o]
      BY <1>3, <1>4, <2>2 DEF Commit, Finish
    <3> QED
      BY <1>2, <2>1, <2>2, <3>1 DEF NoneCommitted
  <2>3. CASE ~request[q].private
    <3>1. request' = [request EXCEPT ![q] = [pc |-> "committed", persona |-> request[q].persona]]
      BY <1>4, <2>3 DEF Commit
    <3>2. request'[q].pc = "committed"
      BY <1>1, <3>1
    <3> QED
      BY <3>2 DEF NoneCommitted
  <2> QED
    BY <2>2, <2>3
<1>5. ASSUME row' = row, \A o \in Requests : request[o].pc = "committed" => request'[o].pc = "committed"
      PROVE  NoneCommitted /\ Listing' = Listing
  BY <1>5, ListingFrame DEF NoneCommitted
<1>6. CASE Push(q)
  <2>1. /\ request[q].pc = "pushing" /\ row' = row
        /\ request' = [o \in Requests |->
             IF o = q THEN [Pushed(q) EXCEPT !.alone = @ /\ Disturbed(q) = {}]
             ELSE IF o \in Disturbed(q) THEN [request[o] EXCEPT !.alone = FALSE]
             ELSE request[o]]
    BY <1>6 DEF Push
  <2>2. \A o \in Disturbed(q) : request[o].pc # "committed"
    BY DEF Disturbed, Busy, Active
  <2>3. \A o \in Requests : request[o].pc = "committed" => request'[o] = request[o]
    BY <2>1, <2>2
  <2> QED
    BY <1>2, <1>5, <2>1, <2>3
<1>7. CASE PassOver(q)
  <2>1. /\ request[q].pc = "pushing" /\ row' = row
        /\ \A o \in Requests \ {q} : request'[o] = request[o]
    BY <1>3, <1>7 DEF PassOver
  <2> QED
    BY <1>2, <1>5, <2>1
<1>8. CASE PushFails(q) \/ Crash(q)
  <2>1. /\ row' = row /\ request'[q] = [pc |-> "done"]
        /\ \A o \in Requests \ {q} : request'[o] = request[o]
    BY <1>3, <1>8 DEF PushFails, Crash, Finish
  <2> QED
    BY <1>2, <1>5, <2>1
<1>9. ASSUME NEW p \in Personas, NEW private \in BOOLEAN, Skip(q, p, private) \/ Start(q, p, private)
      PROVE  NoneCommitted /\ Listing' = Listing
  <2>1. row' = row /\ request[q].pc = "idle"
    BY <1>9 DEF Skip, Start, NoPublication
  <2>2. \A o \in Requests \ {q} : request'[o] = request[o]
    BY <1>3, <1>9 DEF Skip, Start, Finish
  <2> QED
    BY <1>5, <2>1, <2>2
<1> QED
  BY <1>2, <1>4, <1>6, <1>7, <1>8, <1>9 DEF PublicationStep

LEMMA FreshKept ==
  ASSUME CacheShape, PublishingInv, FreshInv, [Next]_vars
  PROVE  FreshInv'
<1>1. ASSUME UNCHANGED cacheVars,
             ~missed' /\ NoneCommitted' => ~missed /\ NoneCommitted /\ Listing' = Listing
      PROVE  FreshInv'
  BY <1>1 DEF FreshInv, Fresh, cacheVars
<1>2. ASSUME NEW q \in Requests, PublicationStep(q) PROVE FreshInv'
  BY <1>1, <1>2, PublicationMisses DEF PublicationStep
<1>3. ASSUME NEW p \in Personas, PersonaStep(p) PROVE FreshInv'
  <2>1. \A q \in Requests : request[q].pc = "committed" => request'[q].pc = "committed"
    <3>1. request' = request \/ request' = [q \in Requests |->
            IF Busy(q) /\ request[q].persona = p THEN [request[q] EXCEPT !.alone = FALSE]
            ELSE request[q]]
      BY <1>3 DEF PersonaStep, RefineLoad, RefineCommit, Delete
    <3> QED
      BY <3>1 DEF Busy, Active
  <2>2. missed' = (missed \/ Listing' # Listing) /\ UNCHANGED cacheVars
    BY <1>3 DEF PersonaStep
  <2> QED
    BY <1>1, <2>1, <2>2 DEF NoneCommitted, CacheShape
<1>4. ASSUME NEW q \in Requests, InvalidateExplore(q) PROVE FreshInv'
  <2>1. CASE Cache!Invalidate
    <3>1. /\ version \in Nat /\ version' = version + 1 /\ entry' = NoEntry /\ reader' = reader
      BY <2>1, ExploreAssumption DEF Cache!Invalidate, CacheShape, Cache!Versions
    <3>2. ASSUME NEW r \in Readers, reader[r].fetched # NoEntry
          PROVE  reader[r].fetched.under <= version' /\ reader[r].fetched.under # version'
      <4>1. reader[r].fetched.under <= version /\ reader[r].fetched \in Cache!Entry
        BY <3>2, CallParts DEF FreshInv, CacheShape
      <4>2. reader[r].fetched.under \in Nat
        BY <4>1, ExploreAssumption DEF Cache!Entry, Cache!Versions
      <4> QED
        BY <3>1, <4>1, <4>2
    <3> QED
      BY <3>1, <3>2 DEF FreshInv, Fresh
  <2>2. CASE missed' = TRUE /\ UNCHANGED cacheVars
    BY <1>1, <2>2
  <2> QED
    BY <1>4, <2>1, <2>2 DEF InvalidateExplore
<1>5. CASE Expire
  <2>1. /\ version' = version /\ reader' = reader /\ entry' \in {entry, NoEntry}
        /\ UNCHANGED <<row, request, missed>>
    BY <1>5 DEF Expire, Cache!LockExpires, Cache!EntryExpires, publishingVars
  <2>2. Listing' = Listing /\ NoneCommitted' = NoneCommitted
    BY <2>1, ListingFrame DEF NoneCommitted
  <2> QED
    BY <2>1, <2>2 DEF FreshInv, Fresh
<1>6. CASE UNCHANGED vars
  <2>1. Listing' = Listing /\ NoneCommitted' = NoneCommitted
    BY <1>6, ListingFrame DEF vars, publishingVars, NoneCommitted
  <2> QED
    BY <1>1, <1>6, <2>1 DEF vars
<1>7. CASE \E r \in Readers : Browse(r)
  BY <1>7, BrowseFresh
<1> QED
  BY <1>2, <1>3, <1>4, <1>5, <1>6, <1>7 DEF Next

-----------------------------------------------------------------------------
(* The lock of get_or_set *)

\* A call that will leave an entry behind, unless the version goes on.
Storing(r) == reader[r].pc = "storing" \/ (reader[r].pc = "writing" /\ reader[r].key = version)

\* One call is behind the lock, none goes round it; a value that was queried is in the entry
\* or on its way there, so that who finds no entry under the lock is the first to query.
Guarded ==
  /\ \A r \in Readers : reader[r].pc \in Cache!InLock => lock = r
  /\ \A r \in Readers : reader[r].pc # "refetching"
  /\ \A r \in Readers : reader[r].pc = "fetching" => queries = 0
  /\ queries = 0 \/ (queries = 1 /\ (entry # NoEntry \/ \E r \in Readers : Storing(r)))

LockInv == ~late /\ ~refused => Guarded

LEMMA ReaderGuarded ==
  ASSUME CacheShape, PublishingInv, Guarded, NEW r \in Readers, Cache!ReaderStep(r, Listing),
         ~late', ~refused'
  PROVE  Guarded'
<1> USE DEF Cache!At, Cache!InLock
<1>1. /\ \A o \in Readers \ {r} : reader'[o] = reader[o]
      /\ version' = version /\ NoReader \notin Readers
  BY ReaderMoves, ExploreAssumption
<1>2. \A to \in CallPlaces : Cache!Move(r, to) => reader'[r].pc = to
  BY MoveEffect
<1>3. {"done", "waiting", "locked", "releasing", "fetching", "refetching"} \subseteq CallPlaces
  BY DEF CallPlaces
<1>4. \A o \in Readers \ {r} : Storing(o)' = Storing(o)
  BY <1>1 DEF Storing
<1>5. CASE Cache!Look(r)
  <2>1. /\ reader[r].pc = "idle" /\ reader'[r].pc \in {"done", "waiting"}
        /\ UNCHANGED <<entry, lock, queries>>
    BY <1>2, <1>3, <1>5 DEF Cache!Look, Cache!Hit, Cache!Miss
  <2> QED
    BY <1>1, <1>4, <2>1 DEF Guarded, Storing
<1>6. CASE Cache!Acquire(r)
  <2>1. /\ reader[r].pc = "waiting" /\ reader'[r].pc = "locked" /\ lock = NoReader /\ lock' = r
        /\ UNCHANGED <<entry, queries>>
    BY <1>2, <1>3, <1>6 DEF Cache!Acquire
  <2> QED
    BY <1>1, <1>4, <2>1 DEF Guarded, Storing
<1>7. CASE Cache!AcquireTimeout(r)
  BY <1>7 DEF Cache!AcquireTimeout
<1>8. CASE Cache!DoubleCheck(r)
  <2>1. /\ reader[r].pc = "locked" /\ lock = r
        /\ \/ reader'[r].pc = "releasing"
           \/ reader'[r].pc = "fetching" /\ entry = NoEntry
        /\ UNCHANGED <<entry, lock, queries>>
    BY <1>2, <1>3, <1>8 DEF Cache!DoubleCheck, Cache!Hit, Cache!Miss, CacheShape, Guarded
  <2>2. \A o \in Readers : ~Storing(o)
    BY <2>1 DEF Guarded, Storing
  <2>3. queries = 0 \/ (queries = 1 /\ entry # NoEntry)
    BY <2>2 DEF Guarded
  <2>4. reader'[r].pc = "fetching" => queries = 0
    BY <2>1, <2>3
  <2>5. \A o \in Readers : reader'[o].pc \in Cache!InLock => lock' = o
    BY <1>1, <2>1 DEF Guarded
  <2>6. \A o \in Readers : /\ reader'[o].pc # "refetching"
                           /\ reader'[o].pc = "fetching" => queries' = 0
    BY <1>1, <2>1, <2>4 DEF Guarded
  <2>7. queries' = 0 \/ (queries' = 1 /\ entry' # NoEntry)
    BY <2>1, <2>3
  <2> QED
    BY <2>5, <2>6, <2>7 DEF Guarded
<1>9. CASE Cache!Fetch(r, Listing)
  <2>1. /\ reader[r].pc = "fetching" /\ reader'[r].pc = "storing" /\ lock = r /\ queries = 0
        /\ queries' = 1 /\ UNCHANGED <<entry, lock>>
    <3>1. /\ reader[r].pc = "fetching" /\ queries' = queries + 1 /\ UNCHANGED <<entry, lock>>
      BY <1>9 DEF Cache!Fetch
    <3>2. lock = r /\ queries = 0
      BY <3>1 DEF Guarded
    <3> QED
      BY <1>9, <3>1, <3>2, FetchEffect
  <2>2. \A o \in Readers : reader'[o].pc # "fetching"
    BY <1>1, <2>1 DEF Guarded
  <2> QED
    BY <1>1, <2>1, <2>2 DEF Guarded, Storing
<1>10. CASE Cache!ReadVersion(r)
  <2>1. /\ reader[r].pc = "storing" /\ reader'[r].pc = "writing" /\ reader'[r].key = version
        /\ lock = r /\ UNCHANGED <<entry, lock, queries>>
    BY <1>10, ReadVersionEffect DEF Cache!ReadVersion, Guarded
  <2> QED
    BY <1>1, <1>4, <2>1 DEF Guarded, Storing
<1>11. CASE Cache!Store(r)
  <2>1. /\ reader[r].pc = "writing" /\ reader'[r].pc = "releasing" /\ lock = r
        /\ entry' = IF reader[r].key = version THEN reader[r].fetched ELSE entry
        /\ UNCHANGED <<lock, queries>>
    BY <1>2, <1>3, <1>11 DEF Cache!Store, Guarded
  <2>2. reader[r].fetched # NoEntry
    BY <2>1, ExploreAssumption DEF CacheShape
  <2>3. (entry # NoEntry \/ Storing(r)) => entry' # NoEntry
    BY <2>1, <2>2 DEF Storing
  <2> QED
    BY <1>1, <1>4, <2>1, <2>3 DEF Guarded
<1>12. CASE Cache!Release(r)
  <2>1. /\ reader[r].pc = "releasing" /\ reader'[r].pc = "done" /\ lock = r /\ lock' = NoReader
        /\ UNCHANGED <<entry, queries>>
    BY <1>2, <1>3, <1>12 DEF Cache!Release, Cache!Finish, Guarded
  <2> QED
    BY <1>1, <1>4, <2>1 DEF Guarded, Storing
<1>13. CASE Cache!FetchUncached(r)
  BY <1>13 DEF Cache!FetchUncached, Guarded
<1>14. CASE Cache!RedisFails(r)
  BY <1>14 DEF Cache!RedisFails
<1> QED
  BY <1>5, <1>6, <1>7, <1>8, <1>9, <1>10, <1>11, <1>12, <1>13, <1>14 DEF Cache!ReaderStep

LEMMA HistoryGrows ==
  ASSUME CacheShape, NEW r \in Readers, Cache!ReaderStep(r, Listing)
  PROVE  (late => late') /\ (refused => refused')
<1>1. CASE Cache!Look(r) \/ Cache!DoubleCheck(r) \/ Cache!Acquire(r) \/ Cache!AcquireTimeout(r)
  BY <1>1 DEF Cache!Look, Cache!DoubleCheck, Cache!Hit, Cache!Miss, Cache!Acquire,
              Cache!AcquireTimeout, CacheShape
<1>2. CASE Cache!Fetch(r, Listing) \/ Cache!FetchUncached(r) \/ Cache!ReadVersion(r)
           \/ Cache!Release(r) \/ Cache!Store(r)
  BY <1>2 DEF Cache!Fetch, Cache!FetchUncached, Cache!ReadVersion, Cache!Release, Cache!Store
<1>3. CASE Cache!RedisFails(r)
  BY <1>3 DEF Cache!RedisFails
<1> QED
  BY <1>1, <1>2, <1>3 DEF Cache!ReaderStep

LEMMA LockKept ==
  ASSUME CacheShape, PublishingInv, LockInv, [Next]_vars
  PROVE  LockInv'
<1>1. CASE UNCHANGED cacheVars
  <2>1. \A r \in Readers : Storing(r)' = Storing(r)
    BY <1>1 DEF Storing, cacheVars
  <2> QED
    BY <1>1, <2>1 DEF LockInv, Guarded, cacheVars
<1>2. ASSUME NEW r \in Readers, Browse(r) PROVE LockInv'
  BY <1>2, ReaderGuarded, HistoryGrows DEF Browse, LockInv
<1>3. CASE Expire
  BY <1>3 DEF Expire, Cache!LockExpires, Cache!EntryExpires, LockInv
<1>4. ASSUME NEW q \in Requests, InvalidateExplore(q) PROVE LockInv'
  <2>1. CASE Cache!Invalidate
    BY <2>1 DEF Cache!Invalidate, LockInv, Guarded
  <2> QED
    BY <1>1, <1>4, <2>1 DEF InvalidateExplore
<1>5. ASSUME NEW q \in Requests, PublicationStep(q) PROVE LockInv'
  BY <1>1, <1>5 DEF PublicationStep
<1>6. ASSUME NEW p \in Personas, PersonaStep(p) PROVE LockInv'
  BY <1>1, <1>6 DEF PersonaStep
<1>7. CASE UNCHANGED vars
  BY <1>1, <1>7 DEF vars
<1> QED
  BY <1>2, <1>3, <1>4, <1>5, <1>6, <1>7 DEF Next

-----------------------------------------------------------------------------
(* The bound of queries: a call queries once under the lock and once without it, at most *)

Asked == {r \in Readers : reader[r].pc \in {"storing", "writing", "releasing", "refetching", "done"}}
Ended == {r \in Readers : reader[r].pc = "done"}

Counted == queries <= Cardinality(Asked) + Cardinality(Ended)

LEMMA CallCounts ==
  /\ IsFiniteSet(Asked) /\ Cardinality(Asked) \in Nat /\ Cardinality(Asked) <= Cardinality(Readers)
  /\ IsFiniteSet(Ended) /\ Cardinality(Ended) \in Nat /\ Cardinality(Ended) <= Cardinality(Readers)
<1>1. Asked \subseteq Readers /\ Ended \subseteq Readers
  BY DEF Asked, Ended
<1> QED
  BY <1>1, ExploreAssumption, FS_Subset, FS_CardinalityType

LEMMA ReaderCounted ==
  ASSUME CacheShape, PublishingInv, Counted, NEW r \in Readers, Cache!ReaderStep(r, Listing)
  PROVE  Counted'
<1>1. /\ \A o \in Readers \ {r} : reader'[o] = reader[o]
      /\ queries \in Nat /\ queries' \in Nat
  BY ReaderMoves, ReaderRest DEF CacheShape
<1>2. /\ reader[r].pc \in {"storing", "writing", "releasing", "refetching", "done"} =>
           reader'[r].pc \in {"storing", "writing", "releasing", "refetching", "done"}
      /\ reader[r].pc = "done" => reader'[r].pc = "done"
  <2>1. CASE Cache!Fetch(r, Listing)
    BY <2>1 DEF Cache!Fetch, Cache!At
  <2>2. CASE Cache!ReadVersion(r)
    BY <2>2, ReadVersionEffect DEF Cache!ReadVersion, Cache!At
  <2>3. ASSUME NEW m \in Moves, reader[r].pc = m[1], Cache!Move(r, m[2])
        PROVE  /\ reader[r].pc \in {"storing", "writing", "releasing", "refetching", "done"} =>
                    reader'[r].pc \in {"storing", "writing", "releasing", "refetching", "done"}
               /\ reader[r].pc # "done"
    <3>1. m[2] \in CallPlaces
      BY DEF Moves, CallPlaces
    <3>2. reader'[r].pc = m[2]
      BY <2>3, <3>1, MoveEffect
    <3> QED
      BY <2>3, <3>2 DEF Moves
  <2> QED
    BY <2>1, <2>2, <2>3, ReaderSteps
<1>3. Asked \subseteq Asked' /\ Ended \subseteq Ended'
  BY <1>1, <1>2 DEF Asked, Ended
<1>4. /\ IsFiniteSet(Asked') /\ Cardinality(Asked') \in Nat
      /\ IsFiniteSet(Ended') /\ Cardinality(Ended') \in Nat
  <2>1. Asked' \subseteq Readers /\ Ended' \subseteq Readers
    BY DEF Asked, Ended
  <2> QED
    BY <2>1, ExploreAssumption, FS_Subset, FS_CardinalityType
<1>5. Cardinality(Asked) <= Cardinality(Asked') /\ Cardinality(Ended) <= Cardinality(Ended')
  BY <1>3, <1>4, FS_Subset
<1>6. CASE Cache!Fetch(r, Listing)
  <2>1. reader[r].pc = "fetching" /\ queries' = queries + 1
    BY <1>6 DEF Cache!Fetch, Cache!At
  <2>2. reader'[r].pc = "storing"
    BY <1>6, FetchEffect
  <2>3. Asked' = Asked \cup {r} /\ r \notin Asked
    BY <1>1, <2>1, <2>2 DEF Asked
  <2>4. Cardinality(Asked') = Cardinality(Asked) + 1
    BY <2>3, CallCounts, FS_AddElement
  <2> QED
    BY <1>1, <1>4, <1>5, <2>1, <2>4, CallCounts DEF Counted
<1>7. CASE Cache!FetchUncached(r)
  <2>1. reader[r].pc = "refetching" /\ queries' = queries + 1 /\ Cache!Move(r, "done")
    BY <1>7 DEF Cache!FetchUncached, Cache!At, Cache!Finish
  <2>2. reader'[r].pc = "done"
    BY <2>1, MoveEffect DEF CallPlaces
  <2>3. Ended' = Ended \cup {r} /\ r \notin Ended
    BY <1>1, <2>1, <2>2 DEF Ended
  <2>4. Cardinality(Ended') = Cardinality(Ended) + 1
    BY <2>3, CallCounts, FS_AddElement
  <2> QED
    BY <1>1, <1>4, <1>5, <2>1, <2>4, CallCounts DEF Counted
<1>8. CASE queries' = queries
  BY <1>1, <1>4, <1>5, <1>8, CallCounts DEF Counted
<1> QED
  BY <1>6, <1>7, <1>8 DEF Cache!ReaderStep, Cache!Look, Cache!DoubleCheck, Cache!Hit, Cache!Miss,
     Cache!Acquire, Cache!AcquireTimeout, Cache!ReadVersion, Cache!Store, Cache!Release,
     Cache!RedisFails

LEMMA CountedKept ==
  ASSUME CacheShape, PublishingInv, Counted, [Next]_vars
  PROVE  Counted'
<1>1. CASE UNCHANGED <<reader, queries>>
  BY <1>1 DEF Counted, Asked, Ended
<1>2. ASSUME NEW r \in Readers, Browse(r) PROVE Counted'
  BY <1>2, ReaderCounted DEF Browse
<1>3. CASE Expire
  BY <1>1, <1>3 DEF Expire, Cache!LockExpires, Cache!EntryExpires
<1>4. ASSUME NEW q \in Requests, InvalidateExplore(q) PROVE Counted'
  <2>1. CASE Cache!Invalidate
    <3>1. Asked' = Asked /\ Ended' = Ended /\ queries' = 0
      BY <2>1 DEF Cache!Invalidate, Asked, Ended
    <3> QED
      BY <3>1, CallCounts DEF Counted
  <2> QED
    BY <1>1, <1>4, <2>1 DEF InvalidateExplore, cacheVars
<1>5. ASSUME NEW q \in Requests, PublicationStep(q) PROVE Counted'
  BY <1>1, <1>5 DEF PublicationStep, cacheVars
<1>6. ASSUME NEW p \in Personas, PersonaStep(p) PROVE Counted'
  BY <1>1, <1>6 DEF PersonaStep, cacheVars
<1>7. CASE UNCHANGED vars
  BY <1>1, <1>7 DEF vars, cacheVars
<1> QED
  BY <1>2, <1>3, <1>4, <1>5, <1>6, <1>7 DEF Next

-----------------------------------------------------------------------------
(* The registry and its cache together *)

ExploreInv == PublishingInv /\ CacheShape /\ FreshInv /\ LockInv /\ Counted

LEMMA ExploreInit == Init => ExploreInv
<1> SUFFICES ASSUME Init PROVE ExploreInv
  OBVIOUS
<1>1. PublishingInv /\ CacheShape
  BY PublishingInitEstablishes, CacheShapeInit DEF Init
<1>2. /\ entry = NoEntry /\ queries = 0 /\ version = 0
      /\ \A r \in Readers : reader[r].pc = "idle" /\ reader[r].fetched = NoEntry
  BY DEF Init, Cache!CacheInit, Cache!NoCall
<1>3. FreshInv
  BY <1>2 DEF FreshInv, Fresh
<1>4. LockInv
  BY <1>2 DEF LockInv, Guarded, Cache!InLock
<1>5. Counted
  BY <1>2, CallCounts DEF Counted
<1> QED
  BY <1>1, <1>3, <1>4, <1>5 DEF ExploreInv

LEMMA ExploreStep == ExploreInv /\ [Next]_vars => ExploreInv'
  BY ExploreStepPreserves, CacheShapeKept, FreshKept, LockKept, CountedKept DEF ExploreInv

-----------------------------------------------------------------------------
(* The theorems *)

\* However publications, refinements, deletions and failures are interleaved
\* (publish_service.py, publishing/), the repository of a published persona whose publication
\* nothing disturbed holds the row's files.
THEOREM PublishedStaysPushed == Spec => []PublishedIsPushed
<1>1. PublishingInv => PublishedIsPushed
  BY DEF PublishingInv, RowIsPushed, InRepository, PublishedIsPushed, Files
<1>2. Init => PublishingInv
  BY PublishingInitEstablishes DEF Init
<1> QED
  BY <1>1, <1>2, ExploreStepPreserves, PTL DEF Spec

\* The listing of the public personas never points to a user's private repository.
THEOREM ListedStaysPublic == Spec => []ListedIsPublicRepository
<1>1. PublishingInv => ListedIsPublicRepository
  BY DEF PublishingInv, SoundRow, Listed, ListedIsPublicRepository
<1>2. Init => PublishingInv
  BY PublishingInitEstablishes DEF Init
<1> QED
  BY <1>1, <1>2, ExploreStepPreserves, PTL DEF Spec

\* The registry, the publications and the cache keep their types; a call queries at most
\* twice, under the lock and once without it.
THEOREM ExploreTypeCorrect == Spec => []TypeOK
<1>1. ExploreInv => TypeOK
  <2> SUFFICES ASSUME ExploreInv PROVE TypeOK
    OBVIOUS
  <2>1. Cardinality(Readers) \in Nat
    BY ExploreAssumption, FS_CardinalityType
  <2>2. queries \in 0..(2 * Cardinality(Readers))
    <3>1. queries \in Nat /\ queries <= Cardinality(Asked) + Cardinality(Ended)
      BY DEF ExploreInv, Counted, CacheShape
    <3> QED
      BY <2>1, <3>1, CallCounts
  <2>3. PublishingTypeOK /\ missed \in BOOLEAN
    BY DEF ExploreInv, PublishingInv, CacheShape
  <2>4. Cache!CacheTypeOK
    <3>1. Cache!Cardinality(Readers) = Cardinality(Readers)
      BY DEF Cache!Cardinality, Cardinality
    <3> QED
      BY <2>2, <3>1 DEF ExploreInv, CacheShape, Cache!CacheTypeOK
  <2> QED
    BY <2>3, <2>4 DEF TypeOK
<1> QED
  BY <1>1, ExploreInit, ExploreStep, PTL DEF Spec

\* Once no public publication still has to invalidate the explore cache, and no change went
\* without an invalidation, an entry that was fetched since the last invalidation is the
\* listing as it is, however readers, expiries, failures of Redis and invalidations were
\* interleaved (get_or_set, invalidate).  Of one fetched before it and stored after it this
\* says nothing.
THEOREM CacheStaysCurrent == Spec => []CacheIsCurrent
<1>1. ExploreInv => CacheIsCurrent
  BY DEF ExploreInv, FreshInv, Fresh, NoneCommitted, CacheIsCurrent
<1> QED
  BY <1>1, ExploreInit, ExploreStep, PTL DEF Spec

\* The lock and the second look under it: while nothing expires or fails and every value can
\* be encoded, any number of calls ask the database once per version.
THEOREM LockSparesQueries == Spec => []OneQueryPerVersion
<1>1. ExploreInv => OneQueryPerVersion
  BY DEF ExploreInv, LockInv, Guarded, OneQueryPerVersion, Cache!OneQueryPerVersion,
         Cache!CachedOnce
<1> QED
  BY <1>1, ExploreInit, ExploreStep, PTL DEF Spec

=============================================================================
