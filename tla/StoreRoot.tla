----------------------------- MODULE StoreRoot ------------------------------
(***************************************************************************)
(* The store from its first hook to its purge (internal/store Open,        *)
(* createExclusive; internal/purge Build, Execute; cmd/rashomon purge.go): *)
(* many first hooks make the install's key and identity at once, on a file *)
(* system with links or without, while a purge removes what it planned,    *)
(* the two anchors last, so that an interrupted one can be run again.      *)
(*                                                                         *)
(* The root holds install.key, install.json and one run of one file.  What *)
(* is not rashomon's, the temporary names and the directories above the    *)
(* root are left out.                                                      *)
(***************************************************************************)
EXTENDS Integers, FiniteSets, Sequences

CONSTANTS
  Hooks,     \* hook invocations, one append each
  Purges,    \* runs of purge
  First,     \* the hook that made the store before all of them
  Absent,    \* a file that does not exist
  MaxKills   \* bound: processes killed

VARIABLES
  links,     \* whether the file system has link(2)
  root,      \* whether the root exists
  anchor,    \* install.key and install.json: [by, whole], or Absent
  run,       \* which of the run's directory and its file exist
  hook,      \* where each hook is, and the identity it opened with
  purge,     \* where each purge is, its plan, and what it could not remove
  detached,  \* whether the hooks are out of settings.json
  kills,     \* how many processes were killed
  cleared,   \* history: the anchors a purge removed
  late       \* history: the paths hooks made since the last plan

history == <<cleared, late>>
vars == <<links, root, anchor, run, hook, purge, detached, kills, history>>

Anchors == {"key", "meta"}
Run == {"dir", "records"}
Whole(by) == [by |-> by, whole |-> TRUE]
Part(by) == [by |-> by, whole |-> FALSE]
Left == root /\ (run # {} \/ \E f \in Anchors : anchor[f] # Absent)

AnchorFiles == {Absent} \cup [by : Hooks \cup {First}, whole : BOOLEAN]
HookPlaces ==
  {"idle", "key", "meta", "make", "fill", "opened", "append", "done", "failed", "killed"}
HookStates == [at : HookPlaces, f : Anchors, id : [Anchors -> Hooks \cup {First, Absent}]]
PurgePlaces ==
  {"idle", "planned", "remove", "meta", "key", "root", "done", "refused", "killed"}
Plans == {<<"records", "dir">>, <<"dir">>, <<>>}
PurgeStates ==
  [at : PurgePlaces, plan : Plans, planned : SUBSET Run, left : SUBSET Run,
   said : {"", "complete", "remaining", "stranded"}]

TypeOK ==
  /\ links \in BOOLEAN /\ root \in BOOLEAN /\ detached \in BOOLEAN
  /\ anchor \in [Anchors -> AnchorFiles]
  /\ run \in {{}, {"dir"}, Run} /\ (run # {} => root)
  /\ hook \in [Hooks -> HookStates]
  /\ purge \in [Purges -> PurgeStates]
  /\ kills \in 0..MaxKills /\ cleared \subseteq Anchors /\ late \subseteq Run

Init ==
  /\ links \in BOOLEAN
  /\ \/ root = FALSE /\ anchor = [f \in Anchors |-> Absent] /\ run = {}
     \/ root = TRUE /\ anchor = [f \in Anchors |-> Whole(First)] /\ run \in {{}, Run}
  /\ hook = [h \in Hooks |-> [at |-> "idle", f |-> "key", id |-> [f \in Anchors |-> Absent]]]
  /\ purge = [p \in Purges |-> [at |-> "idle", plan |-> <<>>, planned |-> {}, left |-> {}, said |-> ""]]
  /\ detached = FALSE /\ kills = 0 /\ cleared = {} /\ late = {}

-----------------------------------------------------------------------------
\* Open: the key, and then the identity.
At(h, where) == hook[h].at = where
Following(f) == IF f = "key" THEN "meta" ELSE "opened"

MakeRoot(h) ==
  /\ At(h, "idle") /\ ~detached
  /\ root' = TRUE
  /\ hook' = [hook EXCEPT ![h].at = "key"]
  /\ UNCHANGED <<links, anchor, run, purge, detached, kills, history>>

\* A whole file is read; a missing one is made.
Load(h, f) ==
  /\ At(h, f)
  /\ \/ /\ anchor[f] # Absent /\ anchor[f].whole
        /\ hook' = [hook EXCEPT ![h].id[f] = anchor[f].by, ![h].at = Following(f)]
     \/ /\ anchor[f] = Absent
        /\ hook' = [hook EXCEPT ![h].at = "make", ![h].f = f]
  /\ UNCHANGED <<links, root, anchor, run, purge, detached, kills, history>>

\* A file that stays in part is reported as malformed, after a few waits.
GiveUp(h, f) ==
  /\ At(h, f)
  /\ anchor[f] # Absent /\ ~anchor[f].whole
  /\ hook' = [hook EXCEPT ![h].at = "failed"]
  /\ UNCHANGED <<links, root, anchor, run, purge, detached, kills, history>>

\* (broken: the name is taken whoever has it, as a rename would)
PublishOver(h) ==
  /\ At(h, "make") /\ root
  /\ anchor' = [anchor EXCEPT ![hook[h].f] = Whole(h)]
  /\ hook' = [hook EXCEPT ![h].id[hook[h].f] = h, ![h].at = Following(hook[h].f)]
  /\ UNCHANGED <<links, root, run, purge, detached, kills, history>>

\* createExclusive: a whole file is linked into place, or, where there are no
\* links, the name is taken first and written after. Who finds the name taken
\* reads again.
Publish(h) ==
  LET f == hook[h].f IN
  /\ At(h, "make") /\ root
  /\ IF anchor[f] # Absent
     THEN hook' = [hook EXCEPT ![h].at = f] /\ UNCHANGED anchor
     ELSE /\ anchor' = [anchor EXCEPT ![f] = IF links THEN Whole(h) ELSE Part(h)]
          /\ hook' = IF links THEN [hook EXCEPT ![h].id[f] = h, ![h].at = Following(f)]
                     ELSE [hook EXCEPT ![h].at = "fill"]
  /\ UNCHANGED <<links, root, run, purge, detached, kills, history>>

\* The write goes to the file the hook has open, which may have no name now.
Fill(h) ==
  LET f == hook[h].f IN
  /\ At(h, "fill")
  /\ anchor' = IF anchor[f] = Part(h) THEN [anchor EXCEPT ![f] = Whole(h)] ELSE anchor
  /\ hook' = [hook EXCEPT ![h].id[f] = h, ![h].at = Following(f)]
  /\ UNCHANGED <<links, root, run, purge, detached, kills, history>>

NoRoot(h) ==
  /\ At(h, "make") /\ ~root
  /\ hook' = [hook EXCEPT ![h].at = "failed"]
  /\ UNCHANGED <<links, root, anchor, run, purge, detached, kills, history>>

\* appendOrdered makes the run's directory, the root with it if it is gone.
MakeRun(h) ==
  /\ At(h, "opened")
  /\ root' = TRUE /\ run' = run \cup {"dir"}
  /\ late' = late \cup ({"dir"} \ run)
  /\ hook' = [hook EXCEPT ![h].at = "append"]
  /\ UNCHANGED <<links, anchor, purge, detached, kills, cleared>>

AppendRecord(h) ==
  /\ At(h, "append")
  /\ IF "dir" \in run
     THEN /\ run' = Run
          /\ late' = late \cup (Run \ run)
          /\ hook' = [hook EXCEPT ![h].at = "done"]
     ELSE hook' = [hook EXCEPT ![h].at = "failed"] /\ UNCHANGED <<run, late>>
  /\ UNCHANGED <<links, root, anchor, purge, detached, kills, cleared>>

KillHook(h) ==
  /\ hook[h].at \in {"key", "meta", "make", "fill", "opened", "append"} /\ kills < MaxKills
  /\ hook' = [hook EXCEPT ![h].at = "killed"]
  /\ kills' = kills + 1
  /\ UNCHANGED <<links, root, anchor, run, purge, detached, history>>

-----------------------------------------------------------------------------
Going(p) == purge[p].at \in {"planned", "remove", "meta", "key", "root"}

Accepted == root /\ anchor["key"] # Absent /\ anchor["meta"] # Absent /\ anchor["meta"].whole

\* resolvePurgeTarget and Build: a root without its anchors is refused; the
\* plan is what the root holds, deepest first.
Plan(p) ==
  /\ purge[p].at = "idle" /\ \A q \in Purges : ~Going(q)
  /\ IF Accepted
     THEN /\ purge' = [purge EXCEPT ![p] =
               [@ EXCEPT !.at = "planned", !.planned = run,
                         !.plan = IF run = Run THEN <<"records", "dir">>
                                  ELSE IF run = {"dir"} THEN <<"dir">> ELSE <<>>]]
          /\ late' = {}
     ELSE purge' = [purge EXCEPT ![p].at = "refused"] /\ UNCHANGED late
  /\ UNCHANGED <<links, root, anchor, run, hook, detached, kills, cleared>>

\* The person agrees, and the hooks leave settings.json.
Detach(p) ==
  /\ purge[p].at = "planned"
  /\ detached' = TRUE
  /\ purge' = [purge EXCEPT ![p].at = "remove"]
  /\ UNCHANGED <<links, root, anchor, run, hook, kills, history>>

\* One planned path goes, or a hook has written in it since the plan.
RemoveNext(p) ==
  /\ purge[p].at = "remove" /\ purge[p].plan # <<>>
  /\ LET path == Head(purge[p].plan)
         full == path = "dir" /\ "records" \in run
     IN /\ run' = IF full THEN run ELSE run \ {path}
        /\ purge' = [purge EXCEPT ![p].plan = Tail(@), ![p].left = IF full THEN @ \cup {path} ELSE @]
  /\ UNCHANGED <<links, root, anchor, hook, detached, kills, history>>

\* (broken: the anchors go whatever is left)
KeepNothing(p) ==
  /\ purge[p].at = "remove" /\ purge[p].plan = <<>>
  /\ purge' = [purge EXCEPT ![p].at = "meta"]
  /\ UNCHANGED <<links, root, anchor, run, hook, detached, kills, history>>

\* With a path left, the anchors and the root stay.
KeepAnchors(p) ==
  /\ purge[p].at = "remove" /\ purge[p].plan = <<>>
  /\ purge' = IF purge[p].left = {} THEN [purge EXCEPT ![p].at = "meta"]
              ELSE [purge EXCEPT ![p].at = "done", ![p].said = "remaining"]
  /\ UNCHANGED <<links, root, anchor, run, hook, detached, kills, history>>

RemoveAnchor(p, f) ==
  /\ purge[p].at = f
  /\ anchor' = [anchor EXCEPT ![f] = Absent]
  /\ cleared' = cleared \cup {f}
  /\ purge' = [purge EXCEPT ![p].at = IF f = "meta" THEN "key" ELSE "root"]
  /\ UNCHANGED <<links, root, run, hook, detached, kills, late>>

\* A root that holds something stays, and the person is told which.
RemoveRoot(p) ==
  /\ purge[p].at = "root"
  /\ root' = Left
  /\ purge' = [purge EXCEPT ![p].at = "done", ![p].said = IF Left THEN "stranded" ELSE "complete"]
  /\ UNCHANGED <<links, anchor, run, hook, detached, kills, history>>

KillPurge(p) ==
  /\ Going(p) /\ kills < MaxKills
  /\ purge' = [purge EXCEPT ![p].at = "killed"]
  /\ kills' = kills + 1
  /\ UNCHANGED <<links, root, anchor, run, hook, detached, history>>

Next ==
  \/ \E h \in Hooks :
       \/ MakeRoot(h) \/ Publish(h) \/ Fill(h) \/ NoRoot(h)
       \/ MakeRun(h) \/ AppendRecord(h) \/ KillHook(h)
       \/ \E f \in Anchors : Load(h, f) \/ GiveUp(h, f)
  \/ \E p \in Purges :
       \/ Plan(p) \/ Detach(p) \/ RemoveNext(p) \/ KeepAnchors(p)
       \/ RemoveRoot(p) \/ KillPurge(p) \/ \E f \in Anchors : RemoveAnchor(p, f)

Spec == Init /\ [][Next]_vars

-----------------------------------------------------------------------------
\* However many hooks make the store at once, with links or without, every
\* hook that opened it has one key and one install id, those on the disk,
\* unless a purge removed them in between (loadOrCreateKey, createExclusive).
OneIdentity ==
  \A f \in Anchors \ cleared : \A h \in Hooks :
    hook[h].id[f] # Absent => anchor[f] = Whole(hook[h].id[f])

\* A purge that was killed or could not finish can be run again while anything
\* it planned is still there: the anchors that let the next one accept the root
\* go last (Execute). What a hook made since is not the plan's.
RerunAccepts ==
  \A p \in Purges :
    ~Going(p) /\ (purge[p].planned \cap run) \ late # {} => Accepted

=============================================================================
