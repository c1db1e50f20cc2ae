------------------------------- MODULE Autostart -------------------------------
(***************************************************************************)
(* Whether the agent runs at login (agent/src/autostart.rs and its two     *)
(* endpoints).  What decides is kept by the operating system: on macOS a   *)
(* plist that launchd loads, on Linux a unit file and systemd's link to it,*)
(* on Windows a scheduled task, or a value of the Run key when the task    *)
(* could not be created.  A request is a few calls, any of which may fail; *)
(* some failures are answered and some are ignored, and the agent that     *)
(* makes them may be the one the manager started.                          *)
(***************************************************************************)
EXTENDS Integers, FiniteSets

CONSTANTS Toggle,      \* requests under way
          MaxToggle    \* bound on the requests

AutostartAssumption == IsFiniteSet(Toggle) /\ MaxToggle \in Nat

VARIABLES platform,
          file,      \* the plist, the unit file or the task
          link,      \* systemd's link, or the value of the Run key
          live,      \* launchd has the label loaded
          agent,     \* how the agent that runs was started
          req,       \* the requests: what is wanted, the next call
          answered,  \* what the last one was answered, and how many there were
          ghost      \* was the last one alone, and what did it fail to delete unheard

autoVars == <<platform, file, link, live, agent, req, answered, ghost>>

File == {"absent", "torn", "whole"}
Off == [want |-> FALSE, at |-> "off"]
Steps == {"begin", "second"}

TypeOK ==
  /\ platform \in {"macos", "linux", "windows"} /\ file \in File
  /\ link \in BOOLEAN /\ live \in BOOLEAN
  /\ agent \in {"hand", "manager", "stopping", "down"}
  /\ req \in [Toggle -> [want : BOOLEAN, at : Steps \cup {"off"}]]
  /\ answered \in [last : {"none", "on", "off", "failed"}, count : 0..MaxToggle]
  /\ ghost \in [alone : BOOLEAN, kept : SUBSET {"file", "link"}]

Init ==
  /\ platform \in {"macos", "linux", "windows"}
  /\ file = "absent" /\ link = FALSE /\ live = FALSE /\ agent = "hand"
  /\ req = [t \in Toggle |-> Off]
  /\ answered = [last |-> "none", count |-> 0]
  /\ ghost = [alone |-> TRUE, kept |-> {}]

\* What the next login does: a file that was cut short starts nothing.
StartsAtLogin ==
  \/ platform = "macos"   /\ file = "whole"
  \/ platform = "linux"   /\ file = "whole" /\ link
  \/ platform = "windows" /\ (file = "whole" \/ link)

\* detect: what the dashboard shows.
DetectMacos   == platform = "macos" /\ file # "absent"
DetectLinux   == platform = "linux" /\ file # "absent" /\ link
DetectWindows == platform = "windows" /\ (file = "whole" \/ link)
Detected == DetectMacos \/ DetectLinux \/ DetectWindows

Up == agent \in {"hand", "manager", "stopping"}
At(t, step, want, os) == req[t] = [want |-> want, at |-> step] /\ Up /\ platform \in os
To(t, step) == req' = [req EXCEPT ![t].at = step] /\ UNCHANGED answered
Answer(t, how) == req' = [req EXCEPT ![t] = Off] /\ answered' = [answered EXCEPT !.last = how]
Unheard(what) == ghost' = [ghost EXCEPT !.kept = @ \cup what]

\* api_agent_autostart_post: a request begins, beside another or alone.
Begin(t) ==
  /\ agent \in {"hand", "manager"} /\ req[t] = Off /\ answered.count < MaxToggle
  /\ \E want \in BOOLEAN : req' = [req EXCEPT ![t] = [want |-> want, at |-> "begin"]]
  /\ answered' = [last |-> "none", count |-> answered.count + 1]
  /\ ghost' = IF \A u \in Toggle : req[u] = Off THEN [alone |-> TRUE, kept |-> {}]
              ELSE [ghost EXCEPT !.alone = FALSE]
  /\ UNCHANGED <<platform, file, link, live, agent>>

-----------------------------------------------------------------------------
\* On: the plist or the unit file is written; a write that fails may have cut it.
Write(t) ==
  /\ \/ file' = "whole" /\ To(t, "second")
     \/ file' \in {file, "torn"} /\ Answer(t, "failed")
  /\ UNCHANGED <<platform, link, live, agent, ghost>>
WritePlist(t) == At(t, "begin", TRUE, {"macos"}) /\ Write(t)
WriteUnit(t)  == At(t, "begin", TRUE, {"linux"}) /\ Write(t)

\* launchctl bootstrap; an agent it starts at once finds the lock taken.
Bootstrap(t) ==
  /\ At(t, "second", TRUE, {"macos"})
  /\ \/ live' = TRUE /\ Answer(t, "on")
     \/ UNCHANGED live /\ Answer(t, "failed")
  /\ UNCHANGED <<platform, file, link, agent, ghost>>

\* systemctl enable.
Enable(t) ==
  /\ At(t, "second", TRUE, {"linux"})
  /\ \/ link' = TRUE /\ Answer(t, "on")
     \/ UNCHANGED link /\ Answer(t, "failed")
  /\ UNCHANGED <<platform, file, live, agent, ghost>>

\* schtasks /Create, and the Run key if that fails.
CreateTask(t) ==
  /\ At(t, "begin", TRUE, {"windows"})
  /\ \/ file' = "whole" /\ Answer(t, "on")
     \/ UNCHANGED file /\ To(t, "second")
     \/ UNCHANGED file /\ Answer(t, "failed")
  /\ UNCHANGED <<platform, link, live, agent, ghost>>
AddRunKey(t) ==
  /\ At(t, "second", TRUE, {"windows"})
  /\ \/ link' = TRUE /\ Answer(t, "on")
     \/ UNCHANGED link /\ Answer(t, "failed")
  /\ UNCHANGED <<platform, file, live, agent, ghost>>

-----------------------------------------------------------------------------
\* Off: launchctl bootout, whose failure is ignored, ends the service, and with
\* it the agent if launchd started it.
Unload(t) ==
  /\ At(t, "begin", FALSE, {"macos"})
  /\ \/ live' = FALSE /\ agent' = IF live /\ agent = "manager" THEN "stopping" ELSE agent
     \/ UNCHANGED <<live, agent>>
  /\ To(t, "second")
  /\ UNCHANGED <<platform, file, link, ghost>>
RemovePlist(t) ==
  /\ At(t, "second", FALSE, {"macos"})
  /\ \/ file' = "absent" /\ Answer(t, "off")
     \/ file # "absent" /\ UNCHANGED file /\ Answer(t, "failed")
  /\ UNCHANGED <<platform, link, live, agent, ghost>>

\* systemctl disable and the removal of the unit file; both failures are ignored.
Disable(t) ==
  /\ At(t, "begin", FALSE, {"linux"})
  /\ \/ link' = FALSE /\ UNCHANGED ghost
     \/ UNCHANGED link /\ Unheard({"link"})
  /\ To(t, "second")
  /\ UNCHANGED <<platform, file, live, agent>>
RemoveUnit(t) ==
  /\ At(t, "second", FALSE, {"linux"})
  /\ \/ file' = "absent" /\ UNCHANGED ghost
     \/ UNCHANGED file /\ Unheard({"file"})
  /\ Answer(t, "off")
  /\ UNCHANGED <<platform, link, live, agent>>

\* (faulty variant: where there is a task, the Run key is not looked at)
DeleteTaskOnly(t) ==
  /\ At(t, "begin", FALSE, {"windows"})
  /\ \/ file = "whole" /\ file' = "absent" /\ Answer(t, "off") /\ UNCHANGED ghost
     \/ file = "absent" /\ To(t, "second") /\ UNCHANGED <<file, ghost>>
     \/ UNCHANGED file /\ To(t, "second") /\ Unheard({"file"})
  /\ UNCHANGED <<platform, link, live, agent>>
\* schtasks /Delete and reg delete; both failures are ignored.
DeleteTask(t) ==
  /\ At(t, "begin", FALSE, {"windows"})
  /\ \/ file' = "absent" /\ UNCHANGED ghost
     \/ UNCHANGED file /\ Unheard({"file"})
  /\ To(t, "second")
  /\ UNCHANGED <<platform, link, live, agent>>
DeleteRunKey(t) ==
  /\ At(t, "second", FALSE, {"windows"})
  /\ \/ link' = FALSE /\ UNCHANGED ghost
     \/ UNCHANGED link /\ Unheard({"link"})
  /\ Answer(t, "off")
  /\ UNCHANGED <<platform, file, live, agent>>

-----------------------------------------------------------------------------
\* The agent stops, for what launchd asked or of itself: requests are cut, and
\* with them the file that one of them was writing.
Writing == platform # "windows" /\ \E t \in Toggle : req[t] = [want |-> TRUE, at |-> "begin"]
Stop ==
  /\ Up
  /\ agent' = "down"
  /\ \/ UNCHANGED file
     \/ Writing /\ file' = "torn"
  /\ req' = [t \in Toggle |-> Off]
  /\ UNCHANGED <<platform, link, live, answered, ghost>>

\* It is started again by the user, or by a login if that starts it.
Start ==
  /\ agent = "down"
  /\ \/ agent' = "hand" /\ UNCHANGED live
     \/ StartsAtLogin /\ agent' = "manager" /\ live' = (platform = "macos")
  /\ UNCHANGED <<platform, file, link, req, answered, ghost>>

Next ==
  \/ \E t \in Toggle :
       \/ Begin(t) \/ WritePlist(t) \/ Bootstrap(t) \/ WriteUnit(t) \/ Enable(t)
       \/ CreateTask(t) \/ AddRunKey(t)
       \/ Unload(t) \/ RemovePlist(t) \/ Disable(t) \/ RemoveUnit(t)
       \/ DeleteTask(t) \/ DeleteRunKey(t)
  \/ Stop \/ Start

Spec == Init /\ [][Next]_autoVars

-----------------------------------------------------------------------------
(* Properties                                                              *)

(* A request that was alone and was answered ok decides what the next login  *)
(* does and what the dashboard shows, whatever failed before it and however  *)
(* the agent was restarted since, but for the deletions whose failure is     *)
(* ignored: on Linux it takes both of them to leave the agent enabled, on    *)
(* Windows one.  (What is not claimed: a request that fails may leave macOS  *)
(* starting the agent, and one that launchd's own agent makes may never end.)*)
IgnoredTooMuch ==
  \/ platform = "linux" /\ ghost.kept = {"file", "link"}
  \/ platform = "windows" /\ ghost.kept # {}
AnswerIsKept ==
  ghost.alone => /\ answered.last = "on" => StartsAtLogin /\ Detected
                 /\ answered.last = "off" => (~StartsAtLogin /\ ~Detected) \/ IgnoredTooMuch
=============================================================================
