--------------------------- MODULE WorkspaceFiles ---------------------------
(***************************************************************************)
(* The file operations of a workspace (agent/src/files.rs,                 *)
(* files_upload.rs): each HTTP request looks at the directory, awaits, and *)
(* changes it later, with nothing that keeps other requests out.  An editor*)
(* that saves sends the modification time, in whole seconds, of what it    *)
(* read (`if_mtime`); create, rename and upload look whether the           *)
(* destination exists; an upload is streamed to a file of its own and      *)
(* renamed into place.                                                     *)
(*                                                                         *)
(* Names are the base name, 0, and the numbered ones an upload may fall    *)
(* back to.  A file is known by the request that wrote it.                 *)
(***************************************************************************)
EXTENDS Integers, FiniteSets

CONSTANTS MaxReq,    \* bound on requests
          MaxSuffix, \* bound on the numbered names
          MaxTime    \* bound on the clock, in seconds

FilesAssumption == MaxReq \in Nat \ {0} /\ MaxSuffix \in Nat /\ MaxTime \in Nat

VARIABLES dir,   \* name |-> the file there
          parts, \* uploads whose temporary file exists
          req,   \* the requests
          known, \* what clients have read: [name, file]
          now,   \* the clock
          close, \* ghost: names with overlapping requests, with two changes within a second,
                 \* or to which a file was moved that such a name, or an older time, came with
          lost   \* ghost: names where an acknowledged file was replaced by one who had not seen it

filesVars == <<dir, parts, req, known, now, close, lost>>

Call == 1..MaxReq
Name == 0..MaxSuffix
Absent == [who |-> 0, whole |-> TRUE, mtime |-> 0]
File == [who : 0..MaxReq, whole : BOOLEAN, mtime : 0..MaxTime]

Idle == [kind |-> "none", name |-> 0, to |-> 0, base |-> Absent, saw |-> Absent, step |-> "new"]
Running == {r \in Call : req[r].step \notin {"new", "ok", "refused", "gone"}}
Mutates(r) == req[r].kind # "read"
Names(r) == {req[r].name, req[r].to}
Exists(n) == dir[n].who # 0

-----------------------------------------------------------------------------
TypeOK ==
  /\ dir \in [Name -> File] /\ parts \subseteq Call /\ now \in 0..MaxTime
  /\ req \in [Call -> [kind : {"none", "read", "write", "save", "create", "rename", "delete", "upload"},
                          name : Name, to : Name, base : File, saw : File,
                          step : {"new", "begun", "checked", "half", "ok", "refused", "gone"}]]
  /\ known \subseteq [name : Name, file : File]
  /\ close \subseteq Name /\ lost \subseteq Name

\* Nothing is there, or the first request has written a file and a client has
\* it in an editor.
Init ==
  /\ parts = {} /\ now = 0 /\ close = {} /\ lost = {}
  /\ \/ /\ dir = [n \in Name |-> Absent] /\ known = {}
        /\ req = [r \in Call |-> Idle]
     \/ LET first == [who |-> 1, whole |-> TRUE, mtime |-> 0]
        IN /\ dir = [n \in Name |-> IF n = 0 THEN first ELSE Absent]
           /\ known = {[name |-> 0, file |-> first]}
           /\ req = [r \in Call |-> IF r = 1 THEN [Idle EXCEPT !.kind = "write", !.step = "ok"] ELSE Idle]

\* A request arrives.  It overlaps with those that run on its names.
Begin(r, rec) ==
  /\ req[r].step = "new" /\ \A q \in 1..(r - 1) : req[q].step # "new"
  /\ req' = [req EXCEPT ![r] = [rec EXCEPT !.step = "begun"]]
  /\ close' = close \cup {n \in {rec.name, rec.to} :
                            \E q \in Running : n \in Names(q) /\ (Mutates(q) \/ rec.kind # "read")}
  /\ UNCHANGED <<dir, parts, known, now, lost>>

Arrives(r) ==
  \/ \E n \in Name :
       \/ \E k \in {"read", "write", "create", "delete"} :
            Begin(r, [Idle EXCEPT !.kind = k, !.name = n, !.to = n])
       \/ \E m \in Name \ {n} : Begin(r, [Idle EXCEPT !.kind = "rename", !.name = n, !.to = m])
  \/ \E k \in known : Begin(r, [Idle EXCEPT !.kind = "save", !.name = k.name, !.to = k.name, !.base = k.file])
  \/ Begin(r, [Idle EXCEPT !.kind = "upload"])

At(r, kind, step) == req[r].kind = kind /\ req[r].step = step
Step(r, s) == req' = [req EXCEPT ![r].step = s]

\* What replaces the file at a name, and whether anybody loses by it: an
\* acknowledged file that the request has neither read nor been told to
\* replace.
Put(r, n, f, told) ==
  /\ dir' = [dir EXCEPT ![n] = f]
  /\ close' = IF Exists(n) /\ dir[n].mtime = now /\ dir[n].who # r THEN close \cup {n} ELSE close
  /\ lost' = IF Exists(n) /\ req[dir[n].who].step = "ok" /\ dir[n].who # r /\ ~told
             THEN lost \cup {n} ELSE lost

-----------------------------------------------------------------------------
\* api_files_read: size and time ...
ReadMeta(r) ==
  /\ At(r, "read", "begun")
  /\ IF Exists(req[r].name)
     THEN req' = [req EXCEPT ![r].saw = dir[req[r].name], ![r].step = "checked"]
     ELSE Step(r, "refused")
  /\ UNCHANGED <<dir, parts, known, now, close, lost>>

\* ... and then the content, with the time from before.
ReadContent(r) ==
  /\ At(r, "read", "checked")
  /\ LET n == req[r].name
     IN IF Exists(n)
        THEN /\ known' = known \cup {[name |-> n, file |-> [dir[n] EXCEPT !.mtime = req[r].saw.mtime]]}
             /\ Step(r, "ok")
        ELSE Step(r, "refused") /\ UNCHANGED known
  /\ UNCHANGED <<dir, parts, now, close, lost>>

\* (faulty variant: a save is not compared with what is there)
WriteChecksNothing(r) ==
  /\ At(r, "write", "begun") \/ At(r, "save", "begun")
  /\ Step(r, "checked")
  /\ UNCHANGED <<dir, parts, known, now, close, lost>>

\* api_files_write: the time is compared, if one was sent and the file exists.
WriteCheck(r) ==
  /\ At(r, "write", "begun") \/ At(r, "save", "begun")
  /\ LET f == dir[req[r].name]
     IN Step(r, IF req[r].kind = "save" /\ f.who # 0 /\ f.mtime # req[r].base.mtime
                THEN "refused" ELSE "checked")
  /\ UNCHANGED <<dir, parts, known, now, close, lost>>

\* fs::write: the file is created or emptied ...
Seen(r) == req[r].kind = "write" \/ (dir[req[r].name].who = req[r].base.who
                                    /\ dir[req[r].name].whole = req[r].base.whole)
WriteTruncates(r) ==
  /\ At(r, "write", "checked") \/ At(r, "save", "checked")
  /\ Put(r, req[r].name, [who |-> r, whole |-> FALSE, mtime |-> now], Seen(r))
  /\ Step(r, "half")
  /\ UNCHANGED <<parts, known, now>>

\* ... and filled, unless that fails, wherever it was moved to.  Whoever has the
\* name by then is not changed by it.
WriteFills(r) ==
  /\ At(r, "write", "half") \/ At(r, "save", "half")
  /\ \/ /\ dir' = [n \in Name |-> IF dir[n].who = r THEN [who |-> r, whole |-> TRUE, mtime |-> now] ELSE dir[n]]
        /\ Step(r, "ok")
     \/ Step(r, "refused") /\ UNCHANGED dir
  /\ UNCHANGED <<parts, known, now, close, lost>>

\* (faulty variant: create and rename do not look)
DestinationUnchecked(r) ==
  /\ At(r, "create", "begun") \/ At(r, "rename", "begun")
  /\ Step(r, IF req[r].kind = "rename" /\ ~Exists(req[r].name) THEN "refused" ELSE "checked")
  /\ UNCHANGED <<dir, parts, known, now, close, lost>>

\* api_files_create, api_files_rename: the destination must not exist, the
\* source must.
DestinationFree(r) ==
  /\ At(r, "create", "begun") \/ At(r, "rename", "begun")
  /\ Step(r, IF \/ Exists(req[r].to)
                \/ req[r].kind = "rename" /\ ~Exists(req[r].name)
             THEN "refused" ELSE "checked")
  /\ UNCHANGED <<dir, parts, known, now, close, lost>>

\* fs::write of nothing: an empty file, whatever is there.
CreateWrites(r) ==
  /\ At(r, "create", "checked")
  /\ Put(r, req[r].name, [who |-> r, whole |-> TRUE, mtime |-> now], FALSE)
  /\ Step(r, "ok")
  /\ UNCHANGED <<parts, known, now>>

\* fs::rename: replaces what is there.  The file keeps its time, which may be that
\* of another file a client has read at the new name.
Mistaken(f, n) == \E k \in known : k.name = n /\ k.file # f /\ k.file.mtime = f.mtime
RenameMoves(r) ==
  /\ At(r, "rename", "checked")
  /\ LET a == req[r].name
         b == req[r].to
     IN IF Exists(a)
        THEN /\ dir' = [dir EXCEPT ![b] = dir[a], ![a] = Absent]
             /\ close' = close \cup {n \in {a, b} : Exists(n) /\ dir[n].mtime = now}
                              \cup {n \in {b} : a \in close \/ Mistaken(dir[a], b)}
             /\ lost' = IF Exists(b) /\ req[dir[b].who].step = "ok" THEN lost \cup {b} ELSE lost
             /\ Step(r, "ok")
        ELSE Step(r, "refused") /\ UNCHANGED <<dir, close, lost>>
  /\ UNCHANGED <<parts, known, now>>

\* api_files_delete.
Deletes(r) ==
  /\ At(r, "delete", "begun")
  /\ LET n == req[r].name
     IN IF Exists(n)
        THEN Put(r, n, Absent, TRUE) /\ Step(r, "ok")
        ELSE Step(r, "refused") /\ UNCHANGED <<dir, close, lost>>
  /\ UNCHANGED <<parts, known, now>>

-----------------------------------------------------------------------------
\* next_free_suffix: the first numbered name that does not exist.
FreeSuffix == {n \in 1..MaxSuffix : ~Exists(n) /\ \A m \in 1..(n - 1) : Exists(m)}

\* api_files_upload: the destination, or 409; the temporary file is created.
Started(r, n) ==
  /\ req' = [req EXCEPT ![r].to = n, ![r].step = "checked"]
  /\ parts' = parts \cup {r}
  /\ close' = IF \E q \in Running \ {r} : n \in Names(q) THEN close \cup {n} ELSE close
UploadStarts(r) ==
  /\ At(r, "upload", "begun")
  /\ \/ ~Exists(0) /\ Started(r, 0)
     \/ Exists(0) /\ \E n \in FreeSuffix : Started(r, n)
     \/ Exists(0) /\ Step(r, "refused") /\ UNCHANGED <<parts, close>>
  /\ UNCHANGED <<dir, known, now, lost>>

\* (faulty variant: the temporary file of a failed upload stays)
UploadFailsLeaving(r) ==
  /\ At(r, "upload", "checked")
  /\ Step(r, "refused")
  /\ UNCHANGED <<dir, parts, known, now, close, lost>>

\* A chunk that cannot be read or written, or one too many.
UploadFails(r) ==
  /\ At(r, "upload", "checked")
  /\ Step(r, "refused")
  /\ parts' = parts \ {r}
  /\ UNCHANGED <<dir, known, now, close, lost>>

\* The client goes away: the handler is dropped where it is.
ClientLeaves(r) ==
  /\ At(r, "upload", "checked")
  /\ Step(r, "gone")
  /\ UNCHANGED <<dir, parts, known, now, close, lost>>

\* All is written and flushed: the rename into place.
UploadFinishes(r) ==
  /\ At(r, "upload", "checked")
  /\ Put(r, req[r].to, [who |-> r, whole |-> TRUE, mtime |-> now], FALSE)
  /\ parts' = parts \ {r}
  /\ Step(r, "ok")
  /\ UNCHANGED <<known, now>>

Tick == now < MaxTime /\ now' = now + 1 /\ UNCHANGED <<dir, parts, req, known, close, lost>>

Next ==
  \/ Tick
  \/ \E r \in Call :
       \/ Arrives(r)
       \/ ReadMeta(r) \/ ReadContent(r)
       \/ WriteCheck(r) \/ WriteTruncates(r) \/ WriteFills(r)
       \/ DestinationFree(r) \/ CreateWrites(r) \/ RenameMoves(r) \/ Deletes(r)
       \/ UploadStarts(r) \/ UploadFails(r) \/ ClientLeaves(r) \/ UploadFinishes(r)

-----------------------------------------------------------------------------
(* An acknowledged file is replaced by a request that has not seen it only  *)
(* where requests on the name overlapped, where it changed twice within a   *)
(* second, or where a file of the same second as the one that was read was  *)
(* renamed to it: the whole seconds of if_mtime (files.rs:425), the time    *)
(* between a check and the change (files.rs:440, 481, 531,                  *)
(* files_upload.rs:200).                                                    *)
LossNeedsARace == lost \subseteq close

(* A temporary file is that of an upload under way, or of a client that has *)
(* gone; what has been renamed into place is whole (files_upload.rs:160).   *)
PartsAreAccounted ==
  \A r \in parts : req[r].kind = "upload" /\ req[r].step \in {"checked", "gone"}
=============================================================================
