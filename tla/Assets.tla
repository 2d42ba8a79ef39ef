------------------------------- MODULE Assets -------------------------------
(***************************************************************************)
(* One synchronization of the agent assets: a plan of files and Skills is  *)
(* applied target by target through staging directories, verified, and     *)
(* committed or rolled back (scripts/agent_assets/transaction*.py).        *)
(*                                                                         *)
(* Every file operation may fail, others change files meanwhile, and the   *)
(* process may be killed.  A move between file systems copies and then     *)
(* deletes: for a Skill, which is a directory, it may break off in the     *)
(* deletion and leave part of the source.                                  *)
(***************************************************************************)
EXTENDS Integers, Sequences, FiniteSets, SequencesExt

CONSTANTS
  Files,       \* instructions
  Skills,
  Hooks,       \* the wrapper and opencode.json
  Planned,     \* all of them, in the order of the plan
  Root,        \* target |-> the directory it is in
  MaxChanges   \* changes others make during one synchronization

Targets == Files \cup Skills \cup Hooks

ASSUME AssetsAssumption ==
  /\ Files \cap Skills = {} /\ Hooks \cap (Files \cup Skills) = {}
  /\ Planned \in Seq(Targets) /\ IsInjective(Planned) /\ Range(Planned) = Targets
  /\ DOMAIN Root = Targets /\ MaxChanges \in Nat
  /\ \A s \in Skills, t \in Files \cup Hooks : Root[s] # Root[t]

Content == {"none", "old", "new", "foreign", "torn"}

VARIABLES
  disk,      \* target |-> what is there
  others,    \* roots in which others changed entries that are not ours
  staging,   \* roots that hold a staging directory
  backup,    \* target |-> what the journal's directory holds of it
  recovery,  \* target |-> what its root's staging directory holds of it
  seen,      \* target |-> what preflight saw
  journal,   \* entries [target, backed, installed]
  phase,     \* plan, validate, apply, verify, rollback, and how it ended
  step,      \* the operation that is next for a target
  at,        \* the target, or entry, that is next
  trouble,   \* rollback_failed, externally_changed
  reported,  \* recovery_paths: <<target, "backup" or "recovery">>
  taken,     \* history: target |-> what was moved away and is not back
  broken,    \* history: Skills whose move to the backup broke off
  buried,    \* history: Skills that went back into a directory of others
  changes    \* history: what others did, up to MaxChanges

fileVars == <<disk, backup, recovery, taken>>
vars == <<disk, others, staging, backup, recovery, seen, journal, phase, step, at,
          trouble, reported, taken, broken, buried, changes>>

\* The plan is gone through twice, the second time for the hooks.
Order == Planned \o Planned

\* Skills are compared in two files only; they are never found unchanged.
Action(t) == IF seen[t] = "none" THEN "create"
             ELSE IF seen[t] = "new" /\ t \notin Skills THEN "unchanged" ELSE "update"

\* snapshots_match: a file's own content; for a Skill, everything beside the
\* Skills in its root, a staging directory included.
SnapshotsMatch(t) ==
  IF t \in Skills THEN Root[t] \notin others \cup staging
  ELSE seen[t] = "none" \/ disk[t] = seen[t]

\* matches_applied: only what this synchronization wrote is there.
MatchesApplied(t) == disk[t] = "new" /\ (t \in Skills => SnapshotsMatch(t))

Init ==
  /\ disk \in [Targets -> {"none", "old", "new"}]
  /\ seen = disk /\ others = {} /\ staging = {}
  /\ backup = [t \in Targets |-> "none"] /\ recovery = backup /\ taken = backup
  /\ journal = <<>> /\ phase = "plan" /\ step = "stage" /\ at = 1
  /\ trouble = {} /\ reported = {} /\ broken = {} /\ buried = {} /\ changes = 0

-----------------------------------------------------------------------------
(* Applying the plan.                                                      *)

\* An exception: the journal is rolled back from its end.
Undo(entries) ==
  /\ journal' = entries /\ phase' = "rollback" /\ at' = Len(entries) /\ step' = "look"
  /\ staging' = {}

Preflight ==
  /\ phase = "plan"
  /\ seen' = disk /\ others' = {} /\ phase' = "validate"
  /\ UNCHANGED <<fileVars, staging, journal, step, at, trouble, reported, broken, buried, changes>>

Validate ==
  /\ phase = "validate"
  /\ IF \A t \in Targets : /\ Action(t) = "create" => disk[t] = "none" /\ SnapshotsMatch(t)
                           /\ Action(t) = "update" => disk[t] # "none" /\ SnapshotsMatch(t)
     THEN phase' = "apply" /\ UNCHANGED <<journal, at, step, staging>>
     ELSE Undo(journal)
  /\ UNCHANGED <<fileVars, others, seen, trouble, reported, broken, buried, changes>>

Current == Order[at]
Skipped == Action(Current) = "unchanged" \/ (Current \in Hooks <=> at <= Len(Planned))
Applying(s) == phase = "apply" /\ at <= Len(Order) /\ step = s

\* A target is staged beside itself; what is already right is skipped.
Stage ==
  /\ Applying("stage")
  /\ IF Skipped THEN at' = at + 1 /\ UNCHANGED <<step, staging>>
     ELSE /\ staging' = staging \cup {Root[Current]} /\ UNCHANGED at
          /\ step' = IF disk[Current] = "none" THEN "put" ELSE "move"
  /\ UNCHANGED <<fileVars, others, seen, journal, phase, trouble, reported, broken, buried, changes>>

\* Staging, or moving the old one away, raises; nothing is journalled.
ApplyFails ==
  /\ Applying("stage") \/ Applying("move")
  /\ ~Skipped
  /\ Undo(journal)
  /\ IF step = "move" /\ Current \in Skills /\ disk[Current] # "none"
     THEN \/ UNCHANGED <<fileVars, broken>>
          \/ /\ disk' = [disk EXCEPT ![Current] = "torn"]
             /\ backup' = [backup EXCEPT ![Current] = disk[Current]]
             /\ taken' = [taken EXCEPT ![Current] = disk[Current]]
             /\ broken' = broken \cup {Current} /\ UNCHANGED recovery
     ELSE UNCHANGED <<fileVars, broken>>
  /\ UNCHANGED <<others, seen, trouble, reported, buried, changes>>

Entry(t, backed, installed) == [target |-> t, backed |-> backed, installed |-> installed]

\* The old one becomes the backup, and is journalled.
MoveAway ==
  /\ Applying("move") /\ disk[Current] # "none"
  /\ disk' = [disk EXCEPT ![Current] = "none"]
  /\ backup' = [backup EXCEPT ![Current] = disk[Current]]
  /\ taken' = [taken EXCEPT ![Current] = disk[Current]]
  /\ journal' = Append(journal, Entry(Current, TRUE, FALSE)) /\ step' = "put"
  /\ UNCHANGED <<others, staging, recovery, seen, phase, at, trouble, reported, broken, buried, changes>>

\* The journal with an entry for the current target.
Journalled(installed) ==
  IF journal # <<>> /\ Last(journal).target = Current
  THEN Append(Front(journal), [Last(journal) EXCEPT !.installed = installed])
  ELSE Append(journal, Entry(Current, FALSE, installed))

\* The staged one replaces what is there, unless that is a directory.
Put ==
  /\ Applying("put")
  /\ Current \in Skills => disk[Current] = "none"
  /\ disk' = [disk EXCEPT ![Current] = "new"]
  /\ journal' = Journalled(TRUE) /\ step' = "stage" /\ at' = at + 1
  /\ UNCHANGED <<others, staging, backup, recovery, seen, phase, trouble, reported, taken, broken, buried, changes>>

PutFails ==
  /\ Applying("put") /\ Undo(Journalled(FALSE))
  /\ UNCHANGED <<fileVars, others, seen, trouble, reported, broken, buried, changes>>

\* Variant (seeded bug): the staging directories are left for the commit.
AppliedLittered ==
  /\ phase = "apply" /\ at > Len(Order)
  /\ phase' = "verify"
  /\ UNCHANGED <<fileVars, others, staging, seen, journal, step, at, trouble, reported, broken, buried, changes>>

Applied ==
  /\ phase = "apply" /\ at > Len(Order)
  /\ phase' = "verify" /\ staging' = {}
  /\ UNCHANGED <<fileVars, others, seen, journal, step, at, trouble, reported, broken, buried, changes>>

\* verify_post_write_state, which also fails when the assets changed, and commit.
Verify ==
  /\ phase = "verify"
  /\ \/ /\ \A t \in Targets : MatchesApplied(t)
        /\ phase' = "committed" /\ backup' = [t \in Targets |-> "none"]
        /\ UNCHANGED <<journal, at, step, staging>>
     \/ Undo(journal) /\ UNCHANGED backup
  /\ UNCHANGED <<disk, recovery, taken, others, seen, trouble, reported, broken, buried, changes>>

-----------------------------------------------------------------------------
(* Rolling back, from the last entry to the first.                         *)

Undone == journal[at]
Rolling(s) == phase = "rollback" /\ at > 0 /\ step = s
NextEntry == at' = at - 1 /\ step' = "look"
Report(place) == reported' = reported \cup {<<Undone.target, place>>}

\* An installed one is rolled back only if nothing else is there.
Look ==
  /\ Rolling("look")
  /\ LET t == Undone.target
         stays == IF Undone.installed THEN ~MatchesApplied(t) ELSE Undone.backed /\ disk[t] # "none"
     IN IF stays
        THEN /\ trouble' = trouble \cup {"external"} /\ NextEntry
             /\ IF Undone.backed THEN Report("backup") ELSE UNCHANGED reported
        ELSE /\ IF Undone.backed \/ Undone.installed
                THEN /\ step' = IF ~Undone.installed THEN "return"
                                ELSE IF Undone.backed THEN "save" ELSE "discard"
                     /\ UNCHANGED at
                ELSE NextEntry
             /\ UNCHANGED <<trouble, reported>>
  /\ UNCHANGED <<fileVars, others, staging, seen, journal, phase, broken, buried, changes>>

\* The backup is first brought to the target's file system ...
Save ==
  /\ Rolling("save")
  /\ staging' = staging \cup {Root[Undone.target]}
  /\ recovery' = [recovery EXCEPT ![Undone.target] = backup[Undone.target]]
  /\ backup' = [backup EXCEPT ![Undone.target] = "none"]
  /\ step' = "discard"
  /\ UNCHANGED <<disk, taken, others, seen, journal, phase, at, trouble, reported, broken, buried, changes>>

\* ... then what was installed is removed ...
Discard ==
  /\ Rolling("discard")
  /\ disk' = [disk EXCEPT ![Undone.target] = "none"]
  /\ IF Undone.backed THEN step' = "return" /\ UNCHANGED at ELSE NextEntry
  /\ UNCHANGED <<others, staging, backup, recovery, seen, journal, phase, trouble, reported, taken, broken, buried, changes>>

\* ... and the old one returns.  A file replaces what others have put there since
\* the check; a Skill ends up inside a directory that has come up.
Copy == IF Undone.installed THEN "recovery" ELSE "backup"
Return ==
  /\ Rolling("return")
  /\ LET t == Undone.target
         c == IF Copy = "recovery" THEN recovery[t] ELSE backup[t]
     IN /\ IF t \in Skills /\ disk[t] # "none"
           THEN buried' = buried \cup {t} /\ UNCHANGED <<disk, taken>>
           ELSE /\ disk' = [disk EXCEPT ![t] = c] /\ taken' = [taken EXCEPT ![t] = "none"]
                /\ UNCHANGED buried
        /\ recovery' = [recovery EXCEPT ![t] = "none"] /\ backup' = [backup EXCEPT ![t] = "none"]
  /\ NextEntry
  /\ UNCHANGED <<others, staging, seen, journal, phase, trouble, reported, broken, changes>>

\* The step raises: where the old one is, is reported, and the next entry follows.
Failing == trouble' = trouble \cup {"failed"} /\ NextEntry

SaveFails ==
  /\ Rolling("save") /\ Failing /\ Report("backup")
  /\ staging' \in {staging, staging \cup {Root[Undone.target]}}
  /\ LET t == Undone.target IN
     \/ UNCHANGED <<backup, recovery>>
     \/ /\ t \in Skills /\ staging' # {}
        /\ recovery' = [recovery EXCEPT ![t] = backup[t]] /\ backup' = [backup EXCEPT ![t] = "torn"]
  /\ UNCHANGED <<disk, taken, others, seen, journal, phase, broken, buried, changes>>

\* Variant (seeded bug): the report names the place the old one has left.
DiscardFailsStale ==
  /\ Rolling("discard") /\ Failing
  /\ IF Undone.backed THEN Report("backup") ELSE UNCHANGED reported
  /\ \/ UNCHANGED disk
     \/ Undone.target \in Skills /\ disk' = [disk EXCEPT ![Undone.target] = "torn"]
  /\ UNCHANGED <<others, staging, backup, recovery, taken, seen, journal, phase, broken, buried, changes>>

DiscardFails ==
  /\ Rolling("discard") /\ Failing
  /\ IF Undone.backed THEN Report("recovery") ELSE UNCHANGED reported
  /\ \/ UNCHANGED disk
     \/ Undone.target \in Skills /\ disk' = [disk EXCEPT ![Undone.target] = "torn"]
  /\ UNCHANGED <<others, staging, backup, recovery, taken, seen, journal, phase, broken, buried, changes>>

ReturnFails ==
  /\ Rolling("return") /\ Failing /\ Report(Copy)
  /\ LET t == Undone.target IN
     \/ UNCHANGED <<disk, backup, taken>>
     \/ /\ Copy = "backup" /\ t \in Skills /\ disk[t] = "none"
        /\ \/ disk' = [disk EXCEPT ![t] = "torn"] /\ UNCHANGED <<backup, taken>>
           \/ /\ disk' = [disk EXCEPT ![t] = backup[t]] /\ backup' = [backup EXCEPT ![t] = "torn"]
              /\ taken' = [taken EXCEPT ![t] = "none"]
  /\ UNCHANGED <<others, staging, recovery, seen, journal, phase, broken, buried, changes>>

\* Variant (seeded bug): the journal's directory is removed after a change of others.
ConcludeTidy ==
  /\ phase = "rollback" /\ at = 0
  /\ IF "failed" \in trouble THEN phase' = "failed" /\ UNCHANGED <<staging, backup, recovery>>
     ELSE /\ staging' = {} /\ recovery' = [t \in Targets |-> "none"]
          /\ backup' = [t \in Targets |-> "none"]
          /\ phase' = IF "external" \in trouble THEN "kept" ELSE "restored"
  /\ UNCHANGED <<disk, others, seen, journal, step, at, trouble, reported, taken, broken, buried, changes>>

\* All copies are kept after a failure, the backups after a change of others.
Conclude ==
  /\ phase = "rollback" /\ at = 0
  /\ IF "failed" \in trouble THEN phase' = "failed" /\ UNCHANGED <<staging, backup, recovery>>
     ELSE /\ staging' = {} /\ recovery' = [t \in Targets |-> "none"]
          /\ IF "external" \in trouble THEN phase' = "kept" /\ UNCHANGED backup
             ELSE phase' = "restored" /\ backup' = [t \in Targets |-> "none"]
  /\ UNCHANGED <<disk, others, seen, journal, step, at, trouble, reported, taken, broken, buried, changes>>

-----------------------------------------------------------------------------
Ended == {"committed", "restored", "kept", "failed", "killed"}

\* Others write or delete a target, or something beside the Skills of a root.
Touch(t) ==
  /\ phase \notin Ended /\ changes < MaxChanges /\ changes' = changes + 1
  /\ \E c \in {"none", "foreign"} \ {disk[t]} : disk' = [disk EXCEPT ![t] = c]
  /\ UNCHANGED <<others, staging, backup, recovery, seen, journal, phase, step, at, trouble, reported, taken, broken, buried>>

Meddle(r) ==
  /\ phase \notin Ended /\ changes < MaxChanges /\ changes' = changes + 1
  /\ others' = others \cup {r}
  /\ UNCHANGED <<fileVars, staging, seen, journal, phase, step, at, trouble, reported, broken, buried>>

\* A signal or a crash: no handler runs.
Killed ==
  /\ phase \notin Ended /\ phase' = "killed"
  /\ UNCHANGED <<fileVars, others, staging, seen, journal, step, at, trouble, reported, broken, buried, changes>>

Next ==
  \/ Preflight \/ Validate \/ Stage \/ ApplyFails \/ MoveAway \/ Put \/ PutFails \/ Applied \/ Verify
  \/ Look \/ Save \/ Discard \/ Return \/ SaveFails \/ DiscardFails \/ ReturnFails \/ Conclude
  \/ \E t \in Targets : Touch(t)
  \/ \E s \in Skills : Meddle(Root[s])
  \/ Killed

Spec == Init /\ [][Next]_vars

-----------------------------------------------------------------------------
(* Properties.                                                             *)

\* Moved away and still away.  Two Skills' old ones are left out, whose fate the
\* result does not tell: one whose move to the backup broke off before it was
\* journalled, so that the rollback knows nothing of it and deletes the copy, and
\* one that went back into a directory others had made there since the check.
\* BuriedReported and TornReported are about these two.
Away(t) == taken[t] # "none" /\ t \notin broken \cup buried

\* Whatever fails, and wherever the process is killed, what was moved away is
\* somewhere whole until the commit, or back.
OriginalsKept ==
  phase # "committed" => \A t \in Targets : Away(t) => taken[t] \in {disk[t], backup[t], recovery[t]}

\* Put there by this synchronization and still there.
Ours(t) == disk[t] = "new" /\ \E e \in Range(journal) :
             e.target = t /\ e.installed /\ (e.backed => Away(t))

\* The result tells the truth.  "Restored" means that nothing is away and nothing
\* of ours is left; what else ends leaves nothing away whose place is not
\* reported, unless the move that failed had copied it on already; and without
\* a failure what stays of ours are Skills in whose root something else was
\* changed, by others or by putting back another Skill.
RollbackTruthful ==
  /\ phase = "restored" => \A t \in Targets : ~Away(t) /\ ~Ours(t)
  /\ phase \in {"kept", "failed"} =>
       \A t \in Targets : Away(t) =>
         \/ <<t, "backup">> \in reported /\ backup[t] = taken[t]
         \/ <<t, "recovery">> \in reported /\ recovery[t] = taken[t]
         \/ backup[t] = "torn" /\ recovery[t] = taken[t]
  /\ phase = "kept" =>
       \A t \in Targets : Ours(t) =>
         /\ t \in Skills
         /\ \/ Root[t] \in others
            \/ \E s \in Skills \ {t} : Root[s] = Root[t] /\ s \in {e.target : e \in Range(journal)}

\* A rollback that reports success has put back every Skill it took away whole
\* (the code does not: a Skill goes into a directory that came up meanwhile).
BuriedReported == phase = "restored" => \A t \in Targets \ broken : taken[t] = "none"

\* ... and left none in pieces (the code does: one whose move broke off).
TornReported == phase = "restored" => broken = {}

\* A change of others is reported only when others changed something (the code
\* reports one when it has put back another Skill of the same directory).
OthersBlamedRightly == phase = "kept" => changes > 0

\* No staging directory outlives a synchronization that did not fail, and the
\* journal names every target once, all but the last installed.
TypeOK ==
  /\ disk \in [Targets -> Content] /\ backup \in [Targets -> Content]
  /\ recovery \in [Targets -> Content] /\ staging \subseteq Range(Root) /\ others \subseteq Range(Root)
  /\ at \in 0..(Len(Order) + 1) /\ changes \in 0..MaxChanges
  /\ \A i, j \in DOMAIN journal : journal[i].target = journal[j].target => i = j
  /\ \A i \in 1..(Len(journal) - 1) : journal[i].installed
  /\ phase \in {"verify", "committed", "restored", "kept"} => staging = {}
=============================================================================
