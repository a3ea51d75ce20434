----------------------------- MODULE Publishing -----------------------------
(***************************************************************************)
(* Publishing personas to GitHub: the two publish endpoints, publish_      *)
(* service.py for the organisation's public repositories, publishing/      *)
(* private.py and utils.py for the user's private ones, with refinement    *)
(* and deletion of the same personas going on.                             *)
(*                                                                         *)
(* A repository belongs to an account and a name, the slug of the          *)
(* persona's name: personas of one name share it.                          *)
(***************************************************************************)
EXTENDS Naturals, FiniteSets

CONSTANTS
  Personas, Names,
  NoPersona,
  FileCount,    \* files of a persona, then those of its skills, in the order they are pushed
  SkillFiles,   \* those among them that a refinement may take away, with their skill
  Requests,     \* POST /personas/{id}/publish and /publish/private
  MaxEdits      \* bound: refinements committed

ASSUME PublishingAssumption ==
  /\ NoPersona \notin Personas
  /\ FileCount \in Nat \ {0}
  /\ SkillFiles \subseteq 1..FileCount
  /\ MaxEdits \in Nat

VARIABLES
  row,        \* the personas rows
  repo,       \* the contents of the repositories
  request,    \* progress of each publication
  refinement, \* per persona, the status a running refinement has read
  edits,      \* refinements committed so far
  intact      \* history: nothing disturbed the last publication of the persona, nor, if that
              \* one left the row at another repository, the one that had put it there

publishingVars == <<row, repo, request, refinement, edits, intact>>

-----------------------------------------------------------------------------
Accounts == {"org", "user"}       \* GITHUB_ORG; the user's own, always private
Repositories == Accounts \X Names
NoRepository == <<"none", "none">>

Files == 1..FileCount
Text == (Personas \cup {NoPersona}) \X (0..MaxEdits)   \* whose, and from which edit
Nothing == <<NoPersona, 0>>

Row == [status : {"generated", "published"}, visibility : {"public", "private"},
        name : Names, files : [Files -> Text], url : Repositories \cup {NoRepository},
        deleted : BOOLEAN]

\* A persona as its generation task leaves it.
Generated(p, n) ==
  [status |-> "generated", visibility |-> "public", name |-> n,
   files |-> [f \in Files |-> <<p, 0>>], url |-> NoRepository, deleted |-> FALSE]

Active == {"pushing", "committing"}
NoPublication == [pc |-> "idle"]
\* What a publication still looks at of the row it has read.
Read == [visibility : {"public", "private"}, name : Names, files : [Files -> Text],
         url : Repositories \cup {NoRepository}]
ReadRow(p) == [visibility |-> row[p].visibility, name |-> row[p].name,
               files |-> row[p].files, url |-> row[p].url]
\* read: the row as the request read it; alone: no refinement of the persona was committed,
\* and nobody else pushed to its repository, while the request was active.
Publication ==
  {NoPublication, [pc |-> "done"]} \cup
  [pc : {"committed"}, persona : Personas] \cup
  [pc : Active, persona : Personas, private : BOOLEAN, read : Read,
   pushed : 0..FileCount, alone : BOOLEAN]

PublishingTypeOK ==
  /\ row \in [Personas -> Row]
  /\ repo \in [Repositories -> [Files -> Text]]
  /\ request \in [Requests -> Publication]
  /\ refinement \in [Personas -> {"none", "generated", "published"}]
  /\ edits \in 0..MaxEdits
  /\ intact \in [Personas -> BOOLEAN]

PublishingInit ==
  /\ \E name \in [Personas -> Names] : row = [p \in Personas |-> Generated(p, name[p])]
  /\ repo = [r \in Repositories |-> [f \in Files |-> Nothing]]
  /\ request = [q \in Requests |-> NoPublication]
  /\ refinement = [p \in Personas |-> "none"]
  /\ edits = 0
  /\ intact = [p \in Personas |-> FALSE]

-----------------------------------------------------------------------------
(* The publish endpoints *)

Target(private, read) == <<IF private THEN "user" ELSE "org", read.name>>
Busy(q) == request[q].pc \in Active
Repository(q) == Target(request[q].private, request[q].read)
Finish(q) == request' = [request EXCEPT ![q] = [pc |-> "done"]]

\* "already published": publish_persona returns at once for any published persona, and the
\* endpoint goes on; publish_persona_private only for one that is private already.
Skip(q, p, private) ==
  /\ request[q] = NoPublication
  /\ ~row[p].deleted
  /\ row[p].status = "published"
  /\ private => row[p].visibility = "private"
  /\ IF private THEN Finish(q)
                ELSE request' = [request EXCEPT ![q] = [pc |-> "committed", persona |-> p]]
  /\ UNCHANGED <<row, repo, refinement, edits, intact>>

\* The row is read, the account's repository created or found.  (Refusals and failures up to
\* here, 404, 403, 400 and 502, change nothing.)
Start(q, p, private) ==
  /\ request[q] = NoPublication
  /\ ~row[p].deleted
  /\ row[p].status = "generated"
  /\ request' = [request EXCEPT ![q] =
       [pc |-> "pushing", persona |-> p, private |-> private, read |-> ReadRow(p),
        pushed |-> 0, alone |-> TRUE]]
  /\ UNCHANGED <<row, repo, refinement, edits, intact>>

\* The other publications that a write to the repository disturbs.
Disturbed(q) == {o \in Requests \ {q} : Busy(o) /\ Repository(o) = Repository(q)}

NextFile(q) == request[q].pushed + 1
Content(q) == request[q].read.files[NextFile(q)]
Pushed(q) == [request[q] EXCEPT
                !.pushed = NextFile(q),
                !.pc = IF NextFile(q) = FileCount THEN "committing" ELSE "pushing"]

\* One PUT, of the content that was read with the row.
Push(q) ==
  /\ request[q].pc = "pushing"
  /\ Content(q) # Nothing
  /\ repo' = [repo EXCEPT ![Repository(q)][NextFile(q)] = Content(q)]
  /\ request' = [o \in Requests |->
       IF o = q THEN [Pushed(q) EXCEPT !.alone = @ /\ Disturbed(q) = {}]
       ELSE IF o \in Disturbed(q) THEN [request[o] EXCEPT !.alone = FALSE]
       ELSE request[o]]
  /\ intact' = [p \in Personas |-> intact[p] /\ row[p].url # Repository(q)]
  /\ UNCHANGED <<row, refinement, edits>>

\* A skill the persona does not have: nothing is sent, and nothing is removed from GitHub.
PassOver(q) ==
  /\ request[q].pc = "pushing"
  /\ Content(q) = Nothing
  /\ request' = [request EXCEPT ![q] = Pushed(q)]
  /\ UNCHANGED <<row, repo, refinement, edits, intact>>

\* Mutant: a file that GitHub refuses is passed over.
PushFailsSilently(q) ==
  /\ request[q].pc = "pushing"
  /\ request' = [request EXCEPT ![q] = [@ EXCEPT !.pc = "committing"]]
  /\ UNCHANGED <<row, repo, refinement, edits, intact>>

\* GitHub refuses a file: 502, with the earlier ones pushed and the row as it was.
PushFails(q) ==
  /\ request[q].pc = "pushing"
  /\ Finish(q)
  /\ UNCHANGED <<row, repo, refinement, edits, intact>>

\* Mutant: the visibility is forgotten.
PublishedRowStillPublic(q) ==
  LET p == request[q].persona
      read == request[q].read
      url == Repository(q)
  IN  [row[p] EXCEPT !.status = "published", !.url = IF url = read.url THEN @ ELSE url]

\* The columns the commit writes: those whose value differs from the one that was read.  A
\* public publication leaves the visibility alone.
PublishedRow(q) ==
  LET p == request[q].persona
      read == request[q].read
      url == Repository(q)
  IN  [row[p] EXCEPT
         !.status = "published",
         !.visibility = IF request[q].private /\ read.visibility # "private" THEN "private" ELSE @,
         !.url = IF url = read.url THEN @ ELSE url]

Commit(q) ==
  /\ request[q].pc = "committing"
  /\ LET p == request[q].persona IN
       /\ row' = [row EXCEPT ![p] = PublishedRow(q)]
       /\ intact' = [intact EXCEPT ![p] =
            request[q].alone /\ (PublishedRow(q).url = Repository(q) \/ @)]
       /\ IF request[q].private THEN Finish(q)
          ELSE request' = [request EXCEPT ![q] = [pc |-> "committed", persona |-> p]]
  /\ UNCHANGED <<repo, refinement, edits>>

\* The public endpoint goes on to invalidate the explore cache.
Invalidated(q) ==
  /\ request[q].pc = "committed"
  /\ Finish(q)
  /\ UNCHANGED <<row, repo, refinement, edits, intact>>

\* The process is stopped, or the client leaves and the request is cancelled.
Crash(q) ==
  /\ request[q].pc \in Active \cup {"committed"}
  /\ Finish(q)
  /\ UNCHANGED <<row, repo, refinement, edits, intact>>

-----------------------------------------------------------------------------
(* What else happens to the row: see PersonaRefine for the whole of it *)

RefineLoad(p) ==
  /\ edits < MaxEdits
  /\ refinement[p] = "none"
  /\ ~row[p].deleted
  /\ refinement' = [refinement EXCEPT ![p] = row[p].status]
  /\ UNCHANGED <<row, repo, request, edits, intact>>

\* GENERATED is written only over another status that the task has read.
Refined(p, changed, dropped, name) ==
  [row[p] EXCEPT
     !.status = IF refinement[p] = "generated" THEN @ ELSE "generated",
     !.name = name,
     !.files = [f \in Files |-> IF f \in dropped THEN Nothing
                                ELSE IF f \in changed THEN <<p, edits + 1>> ELSE @[f]]]

RefineCommit(p) ==
  /\ refinement[p] # "none"
  /\ edits < MaxEdits
  /\ \E changed \in SUBSET Files \ {{}}, name \in Names :
       \E dropped \in SUBSET (changed \cap SkillFiles) :
         row' = [row EXCEPT ![p] = Refined(p, changed, dropped, name)]
  /\ edits' = edits + 1
  /\ refinement' = [refinement EXCEPT ![p] = "none"]
  /\ request' = [q \in Requests |->
       IF Busy(q) /\ request[q].persona = p THEN [request[q] EXCEPT !.alone = FALSE]
       ELSE request[q]]
  /\ intact' = [intact EXCEPT ![p] = @ /\ refinement[p] = row[p].status]
  /\ UNCHANGED repo

Delete(p) ==
  /\ ~row[p].deleted
  /\ row' = [row EXCEPT ![p].deleted = TRUE]
  /\ UNCHANGED <<repo, request, refinement, edits, intact>>

-----------------------------------------------------------------------------
(* Properties *)

\* Unless a refinement or a push to the same repository overlapped the publication, the
\* repository of a published persona holds each of the row's files: not a mixture of
\* versions, not the remains of a failed push.
PublishedIsPushed ==
  \A p \in Personas : row[p].status = "published" /\ intact[p] =>
    \A f \in Files : row[p].files[f] # Nothing => repo[row[p].url][f] = row[p].files[f]

\* The name the explore registry lists a persona under, and where it points.
Listed(p) ==
  row[p].visibility = "public" /\ row[p].status = "published" /\ ~row[p].deleted

\* A persona that was published privately is not in the registry of public personas, however
\* its publications, public and private, were interleaved with each other and with refinements.
ListedIsPublicRepository ==
  \A p \in Personas : Listed(p) => row[p].url[1] = "org"
=============================================================================
