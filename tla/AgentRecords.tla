---------------------------- MODULE AgentRecords ----------------------------
(***************************************************************************)
(* An agent's row (agents.py, agents_service.py): its status and its list  *)
(* of training recordings, which uploads and deletions read, change in     *)
(* memory and write back while an object store holds the audio.  The ids   *)
(* are fresh, and nothing depends on their order: the list is their set.   *)
(***************************************************************************)
EXTENDS Naturals

CONSTANTS Recordings, Requests,
          MaxFaults   \* bound on failed uploads and commits

VARIABLES status,     \* agents.status, committed
          listed,     \* agents.training_recordings, committed
          stored,     \* recordings whose object is in the store
          req,        \* request -> its kind, what it read, how far it got
          asked,      \* the status of the last committed write of it
          profile,    \* persona, script, voice and the other columns of an update, committed
          edited,     \* an update of them was answered
          kept,       \* recordings whose upload was answered and that nobody deleted
          overlapped, \* a list was written over one that another request had changed
          faults

vars == <<status, listed, stored, profile, req, asked, edited, kept, overlapped, faults>>

Blank == [step |-> "idle", kind |-> "promote", rec |-> CHOOSE x \in Recordings : TRUE,
          list |-> {}, status |-> "draft", profile |-> "made"]
Fault == faults < MaxFaults /\ faults' = faults + 1

Init == /\ status = "draft" /\ listed = {} /\ stored = {} /\ asked = "draft"
        /\ profile = "made" /\ edited = FALSE
        /\ req = [r \in Requests |-> Blank] /\ kept = {} /\ overlapped = FALSE /\ faults = 0

Ends(r) == req' = [req EXCEPT ![r] = Blank]

\* get_agent: what the request works from.
Read(r, k, x, step) ==
  /\ req[r].step = "idle"
  /\ req' = [req EXCEPT ![r] = [step |-> step, kind |-> k, rec |-> x, list |-> listed,
                                status |-> status, profile |-> profile]]
  /\ UNCHANGED <<status, listed, stored, profile, asked, edited, kept, overlapped, faults>>

\* The routes.  An upload has a fresh id, and the object's key is made of it.
Upload(r)  == \E x \in Recordings \ (stored \cup listed) :
                /\ \A o \in Requests : req[o] = Blank \/ req[o].rec # x
                /\ Read(r, "upload", x, "put")
Delete(r)  == \E x \in stored : Read(r, "delete", x, "write")
Update(r)  == Read(r, "update", Blank.rec, "write")
Archive(r) == Read(r, "archive", Blank.rec, "write")
Promote(r) == Read(r, "promote", Blank.rec, "write")

\* put_object in a thread; 502 when it fails.
Put(r) == /\ req[r].step = "put"
          /\ \/ /\ stored' = stored \cup {req[r].rec}
                /\ req' = [req EXCEPT ![r].step = "write"]
                /\ UNCHANGED faults
             \/ Fault /\ Ends(r) /\ UNCHANGED stored
          /\ UNCHANGED <<status, listed, profile, asked, edited, kept, overlapped>>

\* The list as the request makes it, from the one it read.
NewList(q) == CASE q.kind = "upload" -> q.list \cup {q.rec}
                [] q.kind = "delete" -> q.list \ {q.rec}
                [] OTHER -> q.list
NewStatus(q) == CASE q.kind = "promote" -> "ready"
                  [] q.kind = "archive" -> "archived"
                  [] OTHER -> q.status
\* A field that the payload leaves out, or has as null, keeps its value.
NewProfile(q) == IF q.kind = "update" THEN "edited" ELSE q.profile

\* Mutant of Columns: every column is written, changed or not.
AllColumns(q) == {"list", "status", "profile"}
\* The UPDATE names the columns whose value is not the one that was read.
Columns(q) == {c \in {"list", "status", "profile"} :
                 CASE c = "list" -> NewList(q) # q.list
                   [] c = "status" -> NewStatus(q) # q.status
                   [] c = "profile" -> NewProfile(q) # q.profile}

\* delete_training_recording: 404 when the list that was read has no such recording.
NotFound(r) == /\ req[r].step = "write" /\ req[r].kind = "delete"
               /\ req[r].rec \notin req[r].list
               /\ Ends(r)
               /\ UNCHANGED <<status, listed, stored, profile, asked, edited, kept, overlapped, faults>>

\* flush, the audit record and the commit.  The object of a deleted recording stays.
Write(r) ==
  LET q == req[r]
  IN /\ q.step = "write"
     /\ q.kind = "delete" => q.rec \in q.list
     /\ Ends(r)
     /\ UNCHANGED stored
     /\ \/ /\ listed' = (IF "list" \in Columns(q) THEN NewList(q) ELSE listed)
           /\ status' = (IF "status" \in Columns(q) THEN NewStatus(q) ELSE status)
           /\ profile' = (IF "profile" \in Columns(q) THEN NewProfile(q) ELSE profile)
           /\ edited' = (edited \/ q.kind = "update")
           /\ asked' = (IF NewStatus(q) # q.status THEN NewStatus(q) ELSE asked)
           /\ kept' = CASE q.kind = "upload" -> kept \cup {q.rec}
                        [] q.kind = "delete" -> kept \ {q.rec}
                        [] OTHER -> kept
           /\ overlapped' = (overlapped \/ (q.kind \in {"upload", "delete"} /\ q.list # listed))
           /\ UNCHANGED faults
        \/ Fault /\ UNCHANGED <<status, listed, profile, asked, edited, kept, overlapped>>

Next == \E r \in Requests : \/ Upload(r) \/ Delete(r) \/ Update(r) \/ Archive(r) \/ Promote(r)
                            \/ Put(r) \/ NotFound(r) \/ Write(r)

Spec == Init /\ [][Next]_vars

----------------------------------------------------------------------------
\* A recording that is listed can be played: its object was stored first.
ListedIsStored == listed \subseteq stored

\* An upload, however long it takes, takes back no promotion, archiving or update, and the
\* recordings of answered uploads are all listed: a request that writes the list another
\* one changed since it was read is the only way to lose one.
RequestsKeepApart == /\ status = asked /\ (edited => profile = "edited")
                     /\ listed = kept \/ overlapped

\* The record of an agent, its list of recordings and the objects in the store agree.
AgentIsConsistent == ListedIsStored /\ RequestsKeepApart
=============================================================================
