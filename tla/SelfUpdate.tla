------------------------------ MODULE SelfUpdate ------------------------------
(***************************************************************************)
(* The agent replacing its own binary (agent/src/update.rs, the menu of    *)
(* tui/mod.rs): the release is looked up, downloaded and compared with its *)
(* checksum, extracted to a file next to the executable, and renamed over  *)
(* it; on Windows, where a running executable cannot be replaced, the old  *)
(* one is moved aside first.  `oxiremote update` takes no lock: two updates*)
(* may run at once, and each may be killed at any step.                    *)
(***************************************************************************)
EXTENDS Integers, FiniteSets

CONSTANTS Updater,    \* processes
          MaxVersion  \* bound on the versions

UpdateAssumption == IsFiniteSet(Updater) /\ MaxVersion \in Nat \ {0}

VARIABLES platform, exe, new, bak, \* the executable, <exe>.new, <exe>.bak
          latest,                  \* the latest release
          proc,                    \* the processes
          \* ghosts: two updates have overlapped; the executable became older
          overlapped, downgraded

updateVars == <<platform, exe, new, bak, latest, proc, overlapped, downgraded>>

Version == 1..MaxVersion
NoFile == [v |-> 0, whole |-> FALSE, exec |-> FALSE]
File == [v : 0..MaxVersion, whole : BOOLEAN, exec : BOOLEAN]
Off == [pc |-> "off", ver |-> 0, want |-> 0, prompt |-> 0]
Busy == {"look", "fetch", "extract", "fill", "chmod", "replace", "install"}
Running(p) == proc[p].pc # "off"
Updating == {p \in Updater : proc[p].pc \in Busy}
Runs(f) == f.whole /\ f.exec

TypeOK ==
  /\ platform \in {"unix", "windows"} /\ {exe, new, bak} \subseteq File /\ latest \in Version
  /\ proc \in [Updater -> [pc : {"off", "menu"} \cup Busy, ver : 0..MaxVersion,
                           want : 0..MaxVersion, prompt : 0..MaxVersion]]
  /\ overlapped \in BOOLEAN /\ downgraded \in BOOLEAN

\* What is installed may be ahead of the latest release.
Init ==
  /\ platform \in {"unix", "windows"} /\ latest = 1
  /\ \E v \in Version : v <= 2 /\ exe = [v |-> v, whole |-> TRUE, exec |-> TRUE]
  /\ new = NoFile /\ bak = NoFile
  /\ proc = [p \in Updater |-> Off] /\ overlapped = FALSE /\ downgraded = FALSE

Publish ==
  /\ latest < MaxVersion /\ latest' = latest + 1
  /\ UNCHANGED <<platform, exe, new, bak, proc, overlapped, downgraded>>

To(p, pc) == proc' = [proc EXCEPT ![p].pc = pc]
Files(e, n, b) == exe' = e /\ new' = n /\ bak' = b
Same == UNCHANGED <<platform, latest, overlapped>>

\* (faulty variant: whatever is not the running version is an update)
IsDifferent(l, c) == l # c

\* is_newer.
IsNewer(l, c) == l > c

\* main, run_tui: what an earlier update left is removed, unless a process
\* still runs from it; the menu offers a newer release, if the look-up works.
Locked(f) == \E q \in Updater : Running(q) /\ proc[q].ver = f.v
Launch(p) ==
  /\ proc[p].pc = "off" /\ Runs(exe)
  /\ bak' = IF platform = "windows" /\ ~Locked(bak) THEN NoFile ELSE bak
  /\ \E seen \in {0, latest} :
       proc' = [proc EXCEPT ![p] = [pc |-> "menu", ver |-> exe.v, want |-> 0,
                                    prompt |-> IF seen # 0 /\ IsNewer(seen, exe.v) THEN seen ELSE 0]]
  /\ Same /\ UNCHANGED <<exe, new, downgraded>>

\* `oxiremote update`, or the entry of the menu.
Choose(p) ==
  /\ proc[p].pc = "menu" /\ To(p, "look")
  /\ overlapped' = (overlapped \/ Updating # {})
  /\ UNCHANGED <<platform, exe, new, bak, latest, downgraded>>

\* An update ends: the menu keeps its offer after an error, and drops it when
\* there was nothing to do.
Fails(p) == To(p, "menu")
NotNeeded(p) == proc' = [proc EXCEPT ![p].pc = "menu", ![p].prompt = 0]
\* ... and the process ends after it has been applied.
Applied(p) == proc' = [proc EXCEPT ![p] = Off]

Look(p) ==
  /\ proc[p].pc = "look"
  /\ \/ Fails(p)
     \/ ~IsNewer(latest, proc[p].ver) /\ NotNeeded(p)
     \/ IsNewer(latest, proc[p].ver) /\ proc' = [proc EXCEPT ![p].pc = "fetch", ![p].want = latest]
  /\ Same /\ UNCHANGED <<exe, new, bak, downgraded>>

\* The archive that arrives is the released one, or it is not what the
\* manifest says and is refused.
Fetch(p) ==
  /\ proc[p].pc = "fetch" /\ (To(p, "extract") \/ Fails(p))
  /\ Same /\ UNCHANGED <<exe, new, bak, downgraded>>

\* extract_binary: on Unix the file is written in place and made executable;
\* on Windows it is unpacked elsewhere and moved.
Extract(p) ==
  /\ proc[p].pc = "extract"
  /\ IF platform = "unix"
     THEN new' = [v |-> proc[p].want, whole |-> FALSE, exec |-> new.exec] /\ To(p, "fill")
     ELSE \/ new' = [v |-> proc[p].want, whole |-> TRUE, exec |-> TRUE] /\ To(p, "replace")
          \/ Fails(p) /\ UNCHANGED new
  /\ Same /\ UNCHANGED <<exe, bak, downgraded>>

\* The bytes go to the file that was opened, wherever it has been moved to.
Fill(p) ==
  /\ proc[p].pc = "fill"
  /\ LET full == [v |-> proc[p].want, whole |-> TRUE]
         Filled(f) == [f EXCEPT !.whole = (f.v = proc[p].want) \/ @]
     IN \/ /\ exe' = Filled(exe)
           /\ new' = IF new.v = 0 THEN new ELSE Filled(new)
           /\ To(p, "chmod")
        \/ Fails(p) /\ UNCHANGED <<exe, new>>
  /\ Same /\ UNCHANGED <<bak, downgraded>>

\* (faulty variant: the execute bit is set after the rename)
ReplaceThenChmod(p) ==
  /\ proc[p].pc \in {"chmod", "replace"} /\ platform = "unix"
  /\ \/ proc[p].pc = "chmod" /\ new.v # 0 /\ Files(new, NoFile, bak) /\ To(p, "replace")
     \/ proc[p].pc = "replace" /\ Files([exe EXCEPT !.exec = TRUE], new, bak) /\ Applied(p)
  /\ Same /\ UNCHANGED downgraded

\* The execute bit, and the rename over the executable.
Replace(p) ==
  /\ proc[p].pc \in {"chmod", "replace"} /\ platform = "unix"
  /\ \/ proc[p].pc = "chmod" /\ new.v # 0 /\ Files(exe, [new EXCEPT !.exec = TRUE], bak)
        /\ To(p, "replace") /\ UNCHANGED downgraded
     \/ proc[p].pc = "replace" /\ new.v # 0 /\ Files(new, NoFile, bak) /\ Applied(p)
        /\ downgraded' = (downgraded \/ new.v < exe.v)
     \/ new.v = 0 /\ Fails(p) /\ UNCHANGED <<exe, new, bak, downgraded>>
  /\ Same

\* (faulty variant: the running executable is removed instead of moved aside)
RemoveFirst(p) ==
  /\ proc[p].pc = "replace" /\ platform = "windows"
  /\ Files(NoFile, new, bak) /\ To(p, "install")
  /\ Same /\ UNCHANGED downgraded

\* atomic_replace on Windows: an older copy is removed, unless it is in use;
\* then the rename over it fails.
MoveAside(p) ==
  /\ proc[p].pc = "replace" /\ platform = "windows"
  /\ IF exe.v # 0 /\ (bak.v = 0 \/ ~Locked(bak))
     THEN Files(NoFile, new, exe) /\ To(p, "install")
     ELSE Fails(p) /\ UNCHANGED <<exe, new, bak>>
  /\ Same /\ UNCHANGED downgraded

\* ... and the rename, or the way back.
Install(p) ==
  /\ proc[p].pc = "install"
  /\ \/ new.v # 0 /\ Files(new, NoFile, bak) /\ Applied(p)
        /\ downgraded' = (downgraded \/ new.v < bak.v)
     \/ Files(bak, new, NoFile) /\ Fails(p) /\ UNCHANGED downgraded
  /\ Same

Killed(p) ==
  /\ Running(p) /\ proc' = [proc EXCEPT ![p] = Off]
  /\ Same /\ UNCHANGED <<exe, new, bak, downgraded>>

Next ==
  \/ Publish
  \/ \E p \in Updater :
       \/ Launch(p) \/ Choose(p) \/ Look(p) \/ Fetch(p) \/ Extract(p) \/ Fill(p)
       \/ Replace(p) \/ MoveAside(p) \/ Install(p) \/ Killed(p)

-----------------------------------------------------------------------------
(* Wherever a single update is killed, there is a binary that runs: the     *)
(* executable itself, or on Windows the one that was moved aside            *)
(* (update.rs:363).  Two updates at once share <exe>.new and may spoil it.  *)
ABinaryRuns == overlapped \/ Runs(exe) \/ (platform = "windows" /\ Runs(bak))

(* The executable is not replaced by an older one, unless two updates ran   *)
(* at once (update.rs:193, a build that is ahead of the release).           *)
NoDowngrade == downgraded => overlapped
=============================================================================
