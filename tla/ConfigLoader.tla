---------------------------- MODULE ConfigLoader ----------------------------
(***************************************************************************)
(* ServiceAppLoader (runtime/serviceapp.py): load() assembles the          *)
(* configuration while a task already watches the values file, which may   *)
(* be a plain file or reached through a ConfigMap's symlink.               *)
(*                                                                         *)
(* External: the file system, and awatch, which reports what changes in    *)
(* the directory it was given.  A target is a directory with one values    *)
(* file; publishing through a symlink makes a new target and removes the   *)
(* old one.                                                                *)
(***************************************************************************)
EXTENDS Integers, FiniteSets

CONSTANTS Targets,      (* directories the values file may be in *)
          MaxVersion    (* bound on the versions of the file *)

VARIABLES
  mounted,     \* the file is reached through a symlink
  link,        \* the target the symlink names, or the file's directory
  exists,      \* the targets there are
  content,     \* the version in each target
  newest,      \* the version that was published last
  bad,         \* versions that cannot be parsed
  loading,     \* how far load() has come
  path,        \* the target values_file is in
  draft,       \* the version load() has read
  watcher,     \* the watching task
  events,      \* awatch has changes of the watched directory to report
  batch,       \* what the task was given: "modified" or "deleted" files
  override,    \* an overrides document was given
  applied,     \* the version in the service's configuration; 0: none
  overridden   \* that configuration has the overrides

fileVars == <<mounted, link, exists, content, newest, bad, override>>
loadVars == <<loading, path, draft>>
watchVars == <<watcher, events, batch>>
serviceVars == <<applied, overridden>>
vars == <<fileVars, loadVars, watchVars, serviceVars>>

Versions == 1 .. MaxVersion

Init ==
  /\ mounted \in BOOLEAN /\ override \in BOOLEAN
  /\ link \in Targets /\ exists = {link}
  /\ content = [t \in Targets |-> 1] /\ newest = 1 /\ bad = {}
  /\ loading = "begin" /\ path = link /\ draft = 0
  /\ watcher = "none" /\ events = {} /\ batch = {}
  /\ applied = 0 /\ overridden = FALSE

-----------------------------------------------------------------------------
Watching == watcher \in {"idle", "holding", "reading"}

Noticed(kind) == events' = IF Watching THEN events \union {kind} ELSE events

Publish(broken) ==
  /\ newest < MaxVersion
  /\ newest' = newest + 1
  /\ bad' = IF broken THEN bad \union {newest + 1} ELSE bad

(* The file is written in place. *)
Write(broken) ==
  /\ ~mounted
  /\ Publish(broken)
  /\ content' = [content EXCEPT ![link] = newest + 1]
  /\ Noticed("modified")
  /\ UNCHANGED <<mounted, link, exists, override, loadVars, watcher, batch, serviceVars>>

(* The symlink is replaced; the watched directory only loses its file. *)
Replace(t, broken) ==
  /\ mounted /\ t \notin exists
  /\ Publish(broken)
  /\ content' = [content EXCEPT ![t] = newest + 1]
  /\ link' = t /\ exists' = {t}
  /\ Noticed("deleted")
  /\ UNCHANGED <<mounted, override, loadVars, watcher, batch, serviceVars>>

-----------------------------------------------------------------------------
(* load() *)

(* _get_path resolves every symlink of the values file's path. *)
Resolve ==
  /\ loading = "begin"
  /\ path' = link
  /\ loading' = "resolved"
  /\ UNCHANGED <<fileVars, draft, watchVars, serviceVars>>

(* The watching task has set the flag and made its watch when load() goes on. *)
StartWatching ==
  /\ loading = "resolved"
  /\ IF path \in exists
       THEN watcher' = "idle" /\ loading' = "watching"
       ELSE watcher' = "ended" /\ loading' = "read"
  /\ UNCHANGED <<fileVars, path, draft, events, batch, serviceVars>>

ReadValues ==
  /\ loading = "watching"
  /\ IF path \in exists /\ content[path] \notin bad
       THEN draft' = content[path] /\ loading' = "read"
       ELSE loading' = "failed" /\ UNCHANGED draft
  /\ UNCHANGED <<fileVars, path, watchVars, serviceVars>>

(* service_init, after which the watching task may reload. *)
InitService ==
  /\ loading = "read"
  /\ loading' = "ready"
  /\ applied' = draft
  /\ overridden' = override
  /\ UNCHANGED <<fileVars, path, draft, watchVars>>

Fail ==
  /\ loading = "read"
  /\ loading' = "failed"
  /\ UNCHANGED <<fileVars, path, draft, watchVars, serviceVars>>

-----------------------------------------------------------------------------
(* _watch_config_changes *)

Report ==
  /\ watcher = "idle" /\ events # {}
  /\ batch' = events /\ events' = {}
  /\ watcher' = "holding"
  /\ UNCHANGED <<fileVars, loadVars, serviceVars>>

ConsiderEarly ==   \* Fault: changes before the service is ready are dropped
  /\ watcher = "holding"
  /\ watcher' = IF loading = "ready" /\ "modified" \in batch THEN "reading" ELSE "idle"
  /\ batch' = {}
  /\ UNCHANGED <<fileVars, loadVars, events, serviceVars>>

(* The resolved path of the file is what it was as long as it exists. *)
Consider ==
  /\ watcher = "holding" /\ loading = "ready"
  /\ watcher' = IF "modified" \in batch THEN "reading" ELSE "idle"
  /\ batch' = {}
  /\ UNCHANGED <<fileVars, loadVars, events, serviceVars>>

(* _reload_from_values; a failure is logged and the loop goes on. *)
Reload ==
  /\ watcher = "reading"
  /\ watcher' = "idle"
  /\ IF path \in exists /\ content[path] \notin bad
       THEN applied' = content[path] /\ overridden' = FALSE
       ELSE UNCHANGED serviceVars
  /\ UNCHANGED <<fileVars, loadVars, events, batch>>

(* stop() cancels the task, wherever it awaits. *)
Stop ==
  /\ loading = "ready" /\ watcher # "ended"
  /\ watcher' = "ended"
  /\ events' = {} /\ batch' = {}
  /\ UNCHANGED <<fileVars, loadVars, serviceVars>>

Next ==
  \/ \E broken \in BOOLEAN :
       Write(broken) \/ \E t \in Targets : Replace(t, broken)
  \/ Resolve \/ StartWatching \/ ReadValues \/ InitService \/ Fail
  \/ Report \/ Consider \/ Reload \/ Stop

Spec == Init /\ [][Next]_vars

(* load() and the watching task go on when what they wait for is there. *)
Fairness ==
  /\ WF_vars(Resolve) /\ WF_vars(StartWatching) /\ WF_vars(ReadValues) /\ WF_vars(InitService)
  /\ WF_vars(Report) /\ WF_vars(Consider) /\ WF_vars(Reload)

FairSpec == Spec /\ Fairness

-----------------------------------------------------------------------------
TypeOK ==
  /\ mounted \in BOOLEAN /\ override \in BOOLEAN /\ overridden \in BOOLEAN
  /\ link \in Targets /\ exists \subseteq Targets /\ path \in Targets
  /\ content \in [Targets -> Versions] /\ newest \in Versions /\ bad \subseteq Versions
  /\ loading \in {"begin", "resolved", "watching", "read", "ready", "failed"}
  /\ watcher \in {"none", "idle", "holding", "reading", "ended"}
  /\ events \subseteq {"modified", "deleted"} /\ batch \subseteq {"modified", "deleted"}
  /\ draft \in 0 .. MaxVersion /\ applied \in 0 .. MaxVersion

Given == loading = "failed" \/ watcher = "ended" \/ applied = newest \/ newest \in bad

(* A service that runs and is still watching the plain file it loaded has  *)
(* the newest version, or the change is on its way: reported, being        *)
(* considered or being read.  This is so from the first moment of the      *)
(* service on, whatever was written while load() was reading.              *)
WriteNoticed ==
  ~mounted /\ loading = "ready" /\ Watching /\ newest \notin bad /\ applied # newest =>
    "modified" \in events \union batch \/ watcher = "reading"

(* "watches it with `watchfiles`": while the service runs, a version that  *)
(* was written to a plain values file reaches its configuration, also one  *)
(* written while load() was reading the file.                              *)
WriteReaches == []<>(mounted \/ Given)

(* "... including Kubernetes ConfigMap-style atomic symlink replacement".  *)
ReplacementReaches == []<>(~mounted \/ Given)
=============================================================================
