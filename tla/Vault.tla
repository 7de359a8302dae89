------------------------------- MODULE Vault --------------------------------
(***************************************************************************)
(* The user's profile, the rows of the documents table and the encrypted    *)
(* files they name: EncryptedFileStore (security/crypto.py), the requests    *)
(* that store a document (ingestion/service.py, prepare in pipeline.py) and  *)
(* delete_all (privacy.py).                                                 *)
(*                                                                          *)
(* The store is not part of any transaction.  A file is named by the digest *)
(* of its content, so rows may share one, and what exists is not written    *)
(* again.  Transactions run at READ COMMITTED; a foreign key makes the       *)
(* insert of a document and the deletion of its profile wait for each other. *)
(***************************************************************************)
EXTENDS Naturals, FiniteSets

CONSTANTS
  Sessions,     \* requests and workers
  Resumes,      \* contents of resumes that are uploaded
  Exports,      \* contents of LinkedIn exports that are uploaded
  Generated,    \* contents of resumes that prepare() renders
  Texts,        \* extracted texts
  Text,         \* the text in each resume
  None,         \* no file, no text
  MaxProfiles   \* bound: profiles ever created

ASSUME KindsAssumption ==
  /\ Resumes \intersect (Exports \union Generated \union Texts) = {}
  /\ Exports \intersect (Generated \union Texts) = {}
  /\ Generated \intersect Texts = {}
  /\ None \notin Resumes \union Exports \union Generated \union Texts
ASSUME TextAssumption == Text \in [Resumes -> Texts]
ASSUME MaxProfilesAssumption == MaxProfiles \in Nat

Contents == Resumes \union Exports \union Generated
Files == Contents \union Texts
Row == [profile : Nat, content : Contents, text : Texts \union {None}]

VARIABLES
  profiles,  \* rows of the profiles table, by id
  lastId,    \* ids allotted to profiles
  docs,      \* rows of the documents table
  files,     \* what the store holds: "none", "part" of a file, or the "whole"
  pc, mem,   \* what each session does next, and what it has loaded
  asked,     \* history: profiles the user has asked to delete
  torn,      \* history: files a session was killed over while it wrote them
  lost,      \* history: files removed by a deletion that did not delete their rows
  stray      \* history: files that no row came to name, or none any more

rowVars == <<profiles, lastId, docs>>
vars == <<profiles, lastId, docs, files, pc, mem, asked, torn, lost, stray>>

\* profile: the one loaded; content: the document at hand; text: its text, once
\* stored; rows, left: the rows a deletion has listed and the files to remove.
Memory == [profile : Nat, content : Contents \union {None},
           text : Texts \union {None}, rows : SUBSET Row, left : SUBSET Files]
Blank == [profile |-> 0, content |-> None, text |-> None, rows |-> {}, left |-> {}]

States == {"idle", "create", "put", "write", "cut", "look", "insert", "parse",
           "putText", "writeText", "cutText", "commit", "listed", "removing"}

TypeOK ==
  /\ profiles \subseteq 1..lastId /\ lastId \in Nat
  /\ docs \subseteq Row
  /\ files \in [Files -> {"none", "part", "whole"}]
  /\ pc \in [Sessions -> States]
  /\ mem \in [Sessions -> Memory]
  /\ asked \subseteq Nat
  /\ torn \subseteq Files /\ lost \subseteq Files /\ stray \subseteq Files

Init ==
  /\ profiles = {} /\ lastId = 0 /\ docs = {}
  /\ files = [f \in Files |-> "none"]
  /\ pc = [s \in Sessions |-> "idle"]
  /\ mem = [s \in Sessions |-> Blank]
  /\ asked = {} /\ torn = {} /\ lost = {} /\ stray = {}

-----------------------------------------------------------------------------
Named(row) == {row.content} \union ({row.text} \ {None})
FilesOf(rows) == UNION {Named(row) : row \in rows}
RowsOf(p) == {row \in docs : row.profile = p}

\* What a session has inserted and not committed: its locks.
Inserted(s) == pc[s] \in {"parse", "putText", "writeText", "cutText", "commit"}
Writing(s, f) == \/ pc[s] = "write" /\ mem[s].content = f
                 \/ pc[s] = "writeText" /\ mem[s].text = f

\* Files that are a session's to account for: put, or listed, and not settled.
Held(s) ==
  (IF Inserted(s) \/ pc[s] \in {"write", "cut", "look", "insert"}
     THEN {mem[s].content, mem[s].text} \ {None} ELSE {})
    \union (IF pc[s] = "removing" THEN FilesOf(mem[s].rows) ELSE {})

\* Files that a session has found or stored, and will name in its row.
Trusted(s) ==
  (IF Inserted(s) \/ pc[s] \in {"look", "insert"} THEN {mem[s].content} ELSE {})
    \union (IF pc[s] = "commit" THEN {mem[s].text} \ {None} ELSE {})

Remain(s) == UNCHANGED <<rowVars, files, asked, torn, lost, stray>>

Goto(s, to) == pc' = [pc EXCEPT ![s] = to]
End(s) == Goto(s, "idle") /\ mem' = [mem EXCEPT ![s] = Blank]

\* get_profile(): the oldest one.
Current(p) == p \in profiles /\ \A q \in profiles : p <= q

\* Some deletion that has not committed may have removed the file already.
Overtakes(f) == \E s \in Sessions : pc[s] = "removing" /\ f \in Held(s)

-----------------------------------------------------------------------------
\* upsert_profile() by which the profile comes into being: it has read none.
BeginProfile(s) ==
  /\ pc[s] = "idle" /\ profiles = {}
  /\ lastId + Cardinality({t \in Sessions : pc[t] = "create"}) < MaxProfiles
  /\ Goto(s, "create")
  /\ Remain(s) /\ UNCHANGED mem

\* Nothing keeps a second request from doing the same meanwhile.
CreateProfile(s) ==
  /\ pc[s] = "create"
  /\ lastId' = lastId + 1
  /\ profiles' = profiles \union {lastId + 1}
  /\ End(s)
  /\ UNCHANGED <<docs, files, asked, torn, lost, stray>>

\* The profile is loaded.  An upload is validated and scanned next, a resume is
\* rendered after the local model has drafted its letter.
Load(s, c) ==
  /\ pc[s] = "idle"
  /\ \E p \in profiles :
       /\ Current(p)
       /\ mem' = [mem EXCEPT ![s].profile = p, ![s].content = c]
  /\ Goto(s, "put")
  /\ Remain(s)

\* upload, import_from_folder, linkedin_export
Upload(s) == \E c \in Resumes \union Exports : Load(s, c)
\* prepare()
Prepare(s) == \E c \in Generated : Load(s, c)

\* EncryptedFileStore.put(): a file that exists is taken for the content; any
\* other is opened and then written.
Store(s, f, writing, after) ==
  IF files[f] # "none"
  THEN /\ Goto(s, after)
       /\ UNCHANGED <<files, torn, lost, stray>>
  ELSE /\ Goto(s, writing)
       /\ files' = [files EXCEPT ![f] = "part"]
       /\ torn' = torn \ {f} /\ lost' = lost \ {f}
       /\ stray' = IF Overtakes(f) THEN stray \union {f} ELSE stray

Put(s) ==
  /\ pc[s] = "put"
  /\ Store(s, mem[s].content, "write", "look")
  /\ UNCHANGED <<rowVars, mem, asked>>

\* The bytes are there.
Written(s) ==
  /\ pc[s] \in {"write", "writeText"}
  /\ files' = [f \in Files |-> IF Writing(s, f) THEN "whole" ELSE files[f]]
  /\ Goto(s, IF pc[s] = "write" THEN "look" ELSE "commit")
  /\ UNCHANGED <<rowVars, mem, asked, torn, lost, stray>>

\* A plausible fault: the mode is set when the file is opened, and nothing fails.
WrittenAnyway(s) ==
  /\ \/ pc[s] = "cut" /\ Goto(s, "look")
     \/ pc[s] = "cutText" /\ Goto(s, "commit")
  /\ Remain(s) /\ UNCHANGED mem

\* The file was unlinked while it was written: chmod() fails, unless another
\* request has stored the same content again.
WrittenNowhere(s) ==
  /\ \/ pc[s] = "cut" /\ files[mem[s].content] # "none" /\ Goto(s, "look")
     \/ pc[s] = "cutText" /\ files[mem[s].text] # "none" /\ Goto(s, "commit")
  /\ Remain(s) /\ UNCHANGED mem

\* Is there a row for the content already?  Uploads answer with it, prepare()
\* lets the packet refer to it.
Look(s) ==
  /\ pc[s] = "look"
  /\ IF \E row \in RowsOf(mem[s].profile) : row.content = mem[s].content
     THEN End(s)
     ELSE Goto(s, "insert") /\ UNCHANGED mem
  /\ Remain(s)

\* The insert waits for a deletion of the profile and for an insert of the same
\* row that are not committed, and is Refused if they were.
Insert(s) ==
  /\ pc[s] = "insert"
  /\ mem[s].profile \in profiles
  /\ \A row \in RowsOf(mem[s].profile) : row.content # mem[s].content
  /\ \A t \in Sessions :
       mem[t].profile = mem[s].profile =>
         /\ pc[t] # "removing"
         /\ Inserted(t) => mem[t].content # mem[s].content
  /\ Goto(s, IF mem[s].content \in Resumes THEN "parse" ELSE "commit")
  /\ Remain(s) /\ UNCHANGED mem

\* parse_isolated(): the row is kept without a text if it fails.
Parse(s) ==
  /\ pc[s] = "parse"
  /\ \/ Goto(s, "commit") /\ UNCHANGED mem
     \/ /\ mem' = [mem EXCEPT ![s].text = Text[mem[s].content]]
        /\ Goto(s, "putText")
  /\ Remain(s)

PutText(s) ==
  /\ pc[s] = "putText"
  /\ Store(s, mem[s].text, "writeText", "commit")
  /\ UNCHANGED <<rowVars, mem, asked>>

Commit(s) ==
  /\ pc[s] = "commit"
  /\ docs' = docs \union
       {[profile |-> mem[s].profile, content |-> mem[s].content, text |-> mem[s].text]}
  /\ stray' = stray \ {mem[s].content, mem[s].text}
  /\ End(s)
  /\ UNCHANGED <<profiles, lastId, files, asked, torn, lost>>

-----------------------------------------------------------------------------
\* A plausible fault: the files of the documents without those of their texts.
ToRemoveShort(rows) == {row.content : row \in rows}
ToRemove(rows) == FilesOf(rows)

\* delete_all(): the documents are listed.
List(s) ==
  /\ pc[s] = "idle"
  /\ \E p \in profiles :
       /\ Current(p)
       /\ mem' = [mem EXCEPT ![s].profile = p, ![s].rows = RowsOf(p),
                             ![s].left = ToRemove(RowsOf(p))]
       /\ asked' = asked \union {p}
  /\ Goto(s, "listed")
  /\ UNCHANGED <<rowVars, files, torn, lost, stray>>

\* The profile is deleted and flushed, and everything that hangs on it by
\* cascade.  It waits for inserts that refer to the profile and for a deletion
\* of it; if that has committed no row matches, which is not an error.
Erase(s) ==
  /\ pc[s] = "listed"
  /\ \A t \in Sessions :
       mem[t].profile = mem[s].profile => ~Inserted(t) /\ pc[t] # "removing"
  /\ Goto(s, "removing")
  /\ Remain(s) /\ UNCHANGED mem

\* A plausible fault: to unlink a file that is not there is an error.
PresentOnly(f) == files[f] # "none"
MayUnlink(f) == TRUE

Unlink(s) ==
  /\ pc[s] = "removing"
  /\ \E f \in mem[s].left :
       /\ MayUnlink(f)
       /\ files' = [files EXCEPT ![f] = "none"]
       /\ mem' = [mem EXCEPT ![s].left = @ \ {f}]
       /\ pc' = [t \in Sessions |->
                   IF Writing(t, f) THEN IF pc[t] = "write" THEN "cut" ELSE "cutText"
                   ELSE pc[t]]
       /\ lost' = lost \union ({f} \intersect (FilesOf(docs) \union UNION {Trusted(t) : t \in Sessions}))
       /\ torn' = torn \ {f} /\ stray' = stray \ {f}
  /\ UNCHANGED <<rowVars, asked>>

\* The commit.  Rows that came after the list go without their files.
Finish(s) ==
  /\ pc[s] = "removing" /\ mem[s].left = {}
  /\ LET p == mem[s].profile
     IN  /\ profiles' = profiles \ {p}
         /\ docs' = docs \ RowsOf(p)
         /\ stray' = stray \union FilesOf(RowsOf(p) \ mem[s].rows)
         /\ lost' = IF p \in profiles THEN lost \ Held(s) ELSE lost
         /\ asked' = asked \ {p}
  /\ End(s)
  /\ UNCHANGED <<lastId, files, torn>>

\* The transaction is rolled back, the store stays as it is.
Abandon(s) ==
  /\ torn' = torn \union {f \in Files : Writing(s, f)}
  /\ stray' = IF pc[s] = "removing" THEN stray ELSE stray \union Held(s)
  /\ End(s)
  /\ UNCHANGED <<rowVars, files, asked, lost>>

\* The profile or the application is gone, the row is there, the file is not.
Refused(s) ==
  /\ \/ /\ pc[s] = "insert"
        /\ \/ mem[s].profile \notin profiles
           \/ \E row \in RowsOf(mem[s].profile) : row.content = mem[s].content
     \/ pc[s] = "cut" /\ files[mem[s].content] = "none"
     \/ pc[s] = "cutText" /\ files[mem[s].text] = "none"
  /\ Abandon(s)

\* A full disk, a killed process or any other exception.
Die(s) == pc[s] # "idle" /\ Abandon(s)

-----------------------------------------------------------------------------
Step(s) ==
  \/ CreateProfile(s) \/ Put(s) \/ Written(s) \/ WrittenNowhere(s)
  \/ Look(s) \/ Insert(s) \/ Parse(s) \/ PutText(s) \/ Commit(s)
  \/ Erase(s) \/ Unlink(s) \/ Finish(s) \/ Refused(s)

Begin(s) == BeginProfile(s) \/ Upload(s) \/ Prepare(s) \/ List(s)

Next == \E s \in Sessions : Step(s) \/ Begin(s) \/ Die(s)

Spec == Init /\ [][Next]_vars

\* A request that has begun goes on, and the user repeats a deletion until it
\* succeeds.
Retry == asked # {} /\ \E s \in Sessions : List(s)
Fairness == SF_vars(Retry) /\ \A s \in Sessions : WF_vars(Step(s))

FairSpec == Spec /\ Fairness

-----------------------------------------------------------------------------
BeingWritten(f) == \E s \in Sessions : Writing(s, f)

\* EncryptedFileStore.put() and delete_all(): the files that a row names are
\* there and whole, whatever uploads, preparations and deletions share or race
\* for them; what a killed process was writing, and what a deletion removed
\* that never committed or found its profile gone, are the only exceptions.
FilesKept ==
  \A f \in FilesOf(docs) :
    files[f] = "whole" \/ BeingWritten(f) \/ f \in torn \union lost

\* delete_all(): "Deletes the profile and everything derived from it, including
\* encrypted files" (privacy.py).  A file in the store belongs to a row or to a
\* request that is not over; left behind are only those of requests that failed,
\* and of those that overtook a deletion.
NothingLeft ==
  \A f \in Files :
    files[f] # "none" => \/ f \in FilesOf(docs) \union stray
                         \/ \E s \in Sessions : f \in Held(s)

\* delete_all() after a failure: the user who repeats it gets there, although
\* files are gone that the rows still name.
Erased ==
  (<>[][\A s \in Sessions : ~Die(s)]_vars)
    => \A p \in 1..MaxProfiles : (p \in asked) ~> (p \notin profiles)

=============================================================================
