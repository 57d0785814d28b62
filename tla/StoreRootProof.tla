--------------------------- MODULE StoreRootProof ---------------------------
(***************************************************************************)
(* Theorems about StoreRoot, for any hooks, any purges and any number of   *)
(* processes killed, with links or without.                                *)
(***************************************************************************)
EXTENDS StoreRoot, TLAPS

\* What the constants stand for: a file that does not exist is neither a file
\* nor a hook.
Distinct ==
  /\ MaxKills \in Nat
  /\ Absent \notin Hooks \cup {First} /\ First \notin Hooks
  /\ Absent \notin [by : Hooks \cup {First}, whole : BOOLEAN]

\* Each step of a hook or of a purge keeps every variable's type.
LEMMA TypeStep ==
  ASSUME Distinct, TypeOK, [Next]_vars
  PROVE  TypeOK'
<1>1. ASSUME NEW h \in Hooks, NEW at \in HookPlaces
      PROVE  [hook EXCEPT ![h].at = at] \in [Hooks -> HookStates]
  BY DEF TypeOK, HookStates
<1>2. ASSUME NEW h \in Hooks, NEW at \in HookPlaces, NEW f \in Anchors,
             NEW by \in Hooks \cup {First, Absent}
      PROVE  [hook EXCEPT ![h].id[f] = by, ![h].at = at] \in [Hooks -> HookStates]
  BY DEF TypeOK, HookStates
<1>3. \A h \in Hooks : hook[h].f \in Anchors /\ hook[h].f \in HookPlaces
  BY DEF TypeOK, HookStates, HookPlaces, Anchors
<1>4. \A f \in Anchors : Following(f) \in HookPlaces
  BY DEF Following, HookPlaces
<1>5. ASSUME NEW h \in Hooks, MakeRoot(h) PROVE TypeOK'
  <2>1. hook' \in [Hooks -> HookStates]
    BY <1>1, <1>5 DEF MakeRoot, HookPlaces
  <2> QED BY <1>5, <2>1 DEF TypeOK, MakeRoot, history
<1>6. ASSUME NEW h \in Hooks, Publish(h) PROVE TypeOK'
  <2>1. PICK f \in Anchors : f = hook[h].f
    BY <1>3
  <2>2. CASE anchor[f] # Absent
    BY <1>1, <1>3, <1>6, <2>1, <2>2 DEF TypeOK, Publish, history
  <2>3. CASE anchor[f] = Absent /\ links
    <3>1. /\ anchor' = [anchor EXCEPT ![f] = Whole(h)]
          /\ hook' = [hook EXCEPT ![h].id[f] = h, ![h].at = Following(f)]
          /\ UNCHANGED <<links, root, run, purge, detached, kills, history>>
      BY <1>6, <2>1, <2>3 DEF Publish
    <3>2. hook' \in [Hooks -> HookStates]
      BY <1>2, <1>4, <3>1
    <3>3. anchor' \in [Anchors -> AnchorFiles]
      BY <3>1 DEF TypeOK, AnchorFiles, Whole
    <3> QED BY <3>1, <3>2, <3>3 DEF TypeOK, history
  <2>4. CASE anchor[f] = Absent /\ ~links
    <3>1. /\ anchor' = [anchor EXCEPT ![f] = Part(h)]
          /\ hook' = [hook EXCEPT ![h].at = "fill"]
          /\ UNCHANGED <<links, root, run, purge, detached, kills, history>>
      BY <1>6, <2>1, <2>4 DEF Publish
    <3>2. hook' \in [Hooks -> HookStates]
      BY <1>1, <3>1 DEF HookPlaces
    <3>3. anchor' \in [Anchors -> AnchorFiles]
      BY <3>1 DEF TypeOK, AnchorFiles, Part
    <3> QED BY <3>1, <3>2, <3>3 DEF TypeOK, history
  <2> QED BY <2>2, <2>3, <2>4 DEF TypeOK
<1>7. ASSUME NEW h \in Hooks, Fill(h) PROVE TypeOK'
  <2>1. hook' \in [Hooks -> HookStates]
    BY <1>2, <1>3, <1>4, <1>7 DEF Fill
  <2>2. anchor' \in [Anchors -> AnchorFiles]
    BY <1>3, <1>7 DEF TypeOK, Fill, AnchorFiles, Whole
  <2> QED BY <1>7, <2>1, <2>2 DEF TypeOK, Fill, history
<1>8. ASSUME NEW h \in Hooks, NEW f \in Anchors, Load(h, f) PROVE TypeOK'
  <2>1. CASE anchor[f] # Absent /\ hook' = [hook EXCEPT ![h].id[f] = anchor[f].by, ![h].at = Following(f)]
    <3>1. anchor[f].by \in Hooks \cup {First, Absent}
      BY <2>1 DEF TypeOK, AnchorFiles
    <3>2. hook' \in [Hooks -> HookStates]
      BY <1>2, <1>4, <2>1, <3>1
    <3> QED BY <1>8, <3>2 DEF TypeOK, Load, history
  <2>2. CASE hook' = [hook EXCEPT ![h].at = "make", ![h].f = f]
    <3>1. hook' \in [Hooks -> HookStates]
      BY <2>2 DEF TypeOK, HookStates, HookPlaces
    <3> QED BY <1>8, <3>1 DEF TypeOK, Load, history
  <2> QED BY <1>8, <2>1, <2>2 DEF Load
<1>9. ASSUME NEW h \in Hooks, NoRoot(h) \/ (\E f \in Anchors : GiveUp(h, f)) \/ KillHook(h)
      PROVE  TypeOK'
  <2>1. hook' \in [Hooks -> HookStates]
    BY <1>1, <1>9, ZenonT(40) DEF NoRoot, GiveUp, KillHook, HookPlaces
  <2>2. kills' \in 0..MaxKills
    BY <1>9 DEF TypeOK, NoRoot, GiveUp, KillHook, Distinct
  <2> QED BY <1>9, <2>1, <2>2 DEF TypeOK, NoRoot, GiveUp, KillHook, history
<1>10. ASSUME NEW h \in Hooks, MakeRun(h) PROVE TypeOK'
  <2>1. hook' \in [Hooks -> HookStates]
    BY <1>1, <1>10 DEF MakeRun, HookPlaces
  <2> QED BY <1>10, <2>1 DEF TypeOK, MakeRun, Run
<1>11. ASSUME NEW h \in Hooks, AppendRecord(h) PROVE TypeOK'
  <2>1. hook' \in [Hooks -> HookStates]
    BY <1>1, <1>11, ZenonT(40) DEF AppendRecord, HookPlaces
  <2> QED BY <1>11, <2>1 DEF TypeOK, AppendRecord, Run
<1>12. ASSUME NEW p \in Purges, Plan(p) PROVE TypeOK'
  <2>1. CASE Accepted
    <3>1. PICK plan \in Plans :
            /\ purge' = [purge EXCEPT ![p] = [@ EXCEPT !.at = "planned", !.planned = run, !.plan = plan]]
            /\ late' = {}
      BY <1>12, <2>1 DEF Plan, Plans
    <3>2. purge' \in [Purges -> PurgeStates]
      BY <3>1, ZenonT(40) DEF TypeOK, PurgeStates, PurgePlaces, Run
    <3> QED BY <1>12, <3>1, <3>2 DEF TypeOK, Plan
  <2>2. CASE ~Accepted
    <3>1. purge' = [purge EXCEPT ![p].at = "refused"] /\ late' = late
      BY <1>12, <2>2 DEF Plan
    <3>2. purge' \in [Purges -> PurgeStates]
      BY <3>1 DEF TypeOK, PurgeStates, PurgePlaces
    <3> QED BY <1>12, <3>1, <3>2 DEF TypeOK, Plan
  <2> QED BY <2>1, <2>2
<1>13. ASSUME NEW p \in Purges, Detach(p) \/ KeepAnchors(p) PROVE TypeOK'
  <2>1. /\ [purge EXCEPT ![p].at = "remove"] \in [Purges -> PurgeStates]
        /\ [purge EXCEPT ![p].at = "meta"] \in [Purges -> PurgeStates]
        /\ [purge EXCEPT ![p].at = "done", ![p].said = "remaining"] \in [Purges -> PurgeStates]
    BY ZenonT(40) DEF TypeOK, PurgeStates, PurgePlaces
  <2>2. purge' \in [Purges -> PurgeStates]
    BY <1>13, <2>1 DEF Detach, KeepAnchors
  <2>3. UNCHANGED <<links, root, anchor, run, hook, kills, history>> /\ detached' \in BOOLEAN
    BY <1>13 DEF TypeOK, Detach, KeepAnchors
  <2> QED BY <2>2, <2>3 DEF TypeOK, history
<1>14. ASSUME NEW p \in Purges, RemoveNext(p) PROVE TypeOK'
  <2>1. purge[p].plan \in Plans \ {<<>>}
    BY <1>14 DEF TypeOK, RemoveNext, PurgeStates
  <2>2. Tail(purge[p].plan) \in Plans /\ Head(purge[p].plan) \in Run
    <3>1. CASE purge[p].plan = <<"records", "dir">>
      <4>1. Tail(purge[p].plan) = <<"dir">> /\ Head(purge[p].plan) = "records"
        BY <3>1
      <4> QED BY <4>1 DEF Plans, Run
    <3>2. CASE purge[p].plan = <<"dir">>
      <4>1. Tail(purge[p].plan) = <<>> /\ Head(purge[p].plan) = "dir"
        BY <3>2
      <4> QED BY <4>1 DEF Plans, Run
    <3> QED BY <2>1, <3>1, <3>2 DEF Plans
  <2>3. \A plan \in Plans, left \in SUBSET Run :
          [purge EXCEPT ![p].plan = plan, ![p].left = left] \in [Purges -> PurgeStates]
    BY DEF TypeOK, PurgeStates
  <2>4. PICK left \in SUBSET Run :
          purge' = [purge EXCEPT ![p].plan = Tail(purge[p].plan), ![p].left = left]
    <3>1. purge[p].left \in SUBSET Run
      BY DEF TypeOK, PurgeStates
    <3> QED BY <1>14, <2>2, <3>1 DEF RemoveNext
  <2>5. purge' \in [Purges -> PurgeStates]
    BY <2>2, <2>3, <2>4
  <2>6. run' \in {{}, {"dir"}, Run} /\ run' \subseteq run
    BY <1>14, <2>2 DEF TypeOK, RemoveNext, Run
  <2> QED BY <1>14, <2>5, <2>6 DEF TypeOK, RemoveNext, history
<1>15. ASSUME NEW p \in Purges, NEW f \in Anchors, RemoveAnchor(p, f) PROVE TypeOK'
  <2>1. purge' \in [Purges -> PurgeStates]
    BY <1>15, ZenonT(40) DEF TypeOK, RemoveAnchor, PurgeStates, PurgePlaces
  <2> QED BY <1>15, <2>1 DEF TypeOK, RemoveAnchor, AnchorFiles
<1>16. ASSUME NEW p \in Purges, RemoveRoot(p) PROVE TypeOK'
  <2>1. \A said \in {"complete", "stranded"} :
          [purge EXCEPT ![p].at = "done", ![p].said = said] \in [Purges -> PurgeStates]
    BY ZenonT(40) DEF TypeOK, PurgeStates, PurgePlaces
  <2>2. purge' \in [Purges -> PurgeStates]
    BY <1>16, <2>1 DEF RemoveRoot
  <2> QED BY <1>16, <2>2 DEF TypeOK, RemoveRoot, Left, history
<1>17. ASSUME NEW p \in Purges, KillPurge(p) PROVE TypeOK'
  <2>1. purge' \in [Purges -> PurgeStates]
    BY <1>17 DEF TypeOK, KillPurge, PurgeStates, PurgePlaces
  <2> QED BY <1>17, <2>1 DEF TypeOK, KillPurge, Distinct, history
<1>18. CASE UNCHANGED vars
  BY <1>18 DEF TypeOK, vars, history
<1> QED
  BY <1>5, <1>6, <1>7, <1>8, <1>9, <1>10, <1>11, <1>12, <1>13, <1>14, <1>15, <1>16,
     <1>17, <1>18 DEF Next

\* The root starts with each of its types.
LEMMA InitType ==
  ASSUME Distinct, Init
  PROVE  TypeOK
<1>1. hook \in [Hooks -> HookStates]
  BY DEF Init, HookStates, HookPlaces, Anchors
<1>2. purge \in [Purges -> PurgeStates]
  BY DEF Init, PurgeStates, PurgePlaces, Plans
<1>3. anchor \in [Anchors -> AnchorFiles]
  <2>1. anchor = [f \in Anchors |-> Absent] \/ anchor = [f \in Anchors |-> Whole(First)]
    BY DEF Init
  <2>2. Absent \in AnchorFiles /\ Whole(First) \in AnchorFiles
    BY DEF AnchorFiles, Whole
  <2> QED BY <2>1, <2>2
<1>4. run \in {{}, {"dir"}, Run} /\ (run # {} => root)
  <2>1. run \in {{}, Run} /\ (root = TRUE \/ run = {})
    BY DEF Init
  <2> QED BY <2>1
<1>5. links \in BOOLEAN /\ root \in BOOLEAN /\ detached \in BOOLEAN
  BY DEF Init
<1>6. kills \in 0..MaxKills /\ cleared \subseteq Anchors /\ late \subseteq Run
  <2>1. kills = 0 /\ cleared = {} /\ late = {}
    BY DEF Init
  <2> QED BY <2>1 DEF Distinct
<1> QED BY <1>1, <1>2, <1>3, <1>4, <1>5, <1>6 DEF TypeOK

\* Whatever is killed, and wherever a purge stops, the root's files and the
\* processes stay of their types (Open, Execute).
THEOREM TypeCorrect == ASSUME Distinct PROVE Spec => []TypeOK
<1>1. Init => TypeOK
  BY InitType
<1>2. TypeOK /\ [Next]_vars => TypeOK'
  BY TypeStep
<1> QED
  BY <1>1, <1>2, PTL DEF Spec

-----------------------------------------------------------------------------
(* One key and one identity.                                               *)

\* Where there are no links, the name a hook took is its own until it has
\* written the file, or a purge removed it.
FillOwns ==
  \A h \in Hooks : hook[h].at = "fill" =>
    hook[h].f \in cleared \/ anchor[hook[h].f] = Part(h)

IdentityInv == FillOwns /\ OneIdentity

\* A step that leaves the anchors as they are, and gives no hook an identity or
\* a name to fill, keeps the invariant.
LEMMA QuietStep ==
  ASSUME IdentityInv, anchor' = anchor, cleared' = cleared,
         \A h \in Hooks : /\ hook'[h].id = hook[h].id
                          /\ hook'[h].at = "fill" =>
                               hook[h].at = "fill" /\ hook'[h].f = hook[h].f
  PROVE  IdentityInv'
BY DEF IdentityInv, FillOwns, OneIdentity, Part, Whole

\* What a hook does with one place of its own.
LEMMA MoveFact ==
  ASSUME TypeOK, NEW h \in Hooks, NEW at \in HookPlaces, NEW f \in Anchors, NEW by
  PROVE  /\ hook' = [hook EXCEPT ![h].at = at] =>
              /\ hook'[h].at = at /\ hook'[h].f = hook[h].f /\ hook'[h].id = hook[h].id
              /\ \A g \in Hooks \ {h} : hook'[g] = hook[g]
         /\ hook' = [hook EXCEPT ![h].id[f] = by, ![h].at = at] =>
              /\ hook'[h].at = at /\ hook'[h].f = hook[h].f
              /\ hook'[h].id = [hook[h].id EXCEPT ![f] = by]
              /\ \A g \in Hooks \ {h} : hook'[g] = hook[g]
BY DEF TypeOK, HookStates

\* A hook that learns who made a whole anchor keeps the invariant.
LEMMA LearnStep ==
  ASSUME TypeOK, IdentityInv, NEW h \in Hooks, NEW f \in Anchors, NEW by,
         hook' = [hook EXCEPT ![h].id[f] = by, ![h].at = Following(f)],
         cleared' = cleared,
         f \notin cleared => anchor'[f] = Whole(by),
         \A g \in Anchors \ {f} : anchor'[g] = anchor[g],
         f \notin cleared => \/ anchor'[f] = anchor[f]
                             \/ anchor[f] = Absent
                             \/ anchor[f] = Part(h) /\ hook[h].at = "fill" /\ hook[h].f = f,
         Distinct
  PROVE  IdentityInv'
<1>1. Following(f) \in HookPlaces /\ Following(f) # "fill"
  BY DEF Following, HookPlaces
<1>2. /\ hook'[h].at = Following(f) /\ hook'[h].f = hook[h].f
      /\ hook'[h].id = [hook[h].id EXCEPT ![f] = by]
      /\ \A g \in Hooks \ {h} : hook'[g] = hook[g]
  BY <1>1, MoveFact
<1>3. \A g \in Hooks : hook[g].id \in [Anchors -> Hooks \cup {First, Absent}] /\ hook[g].f \in Anchors
  BY DEF TypeOK, HookStates
<1>4. \A g \in Hooks : Part(g) # Absent /\ \A b : Whole(b) # Part(g)
  <2>1. ASSUME NEW g \in Hooks PROVE Part(g) \in [by : Hooks \cup {First}, whole : BOOLEAN]
    BY DEF Part
  <2>2. ASSUME NEW g \in Hooks, NEW b PROVE Whole(b) # Part(g)
    <3>1. Whole(b).whole = TRUE /\ Part(g).whole = FALSE
      BY DEF Whole, Part
    <3> QED BY <3>1
  <2> QED BY <2>1, <2>2 DEF Distinct
<1>5. FillOwns'
  <2> SUFFICES ASSUME NEW g \in Hooks, hook'[g].at = "fill", hook'[g].f \notin cleared
               PROVE  anchor'[hook'[g].f] = Part(g)
    BY DEF FillOwns, Part
  <2>1. g # h /\ hook'[g] = hook[g]
    BY <1>1, <1>2
  <2>2. anchor[hook[g].f] = Part(g)
    BY <2>1 DEF IdentityInv, FillOwns
  <2>3. CASE hook[g].f # f
    BY <1>3, <2>1, <2>2, <2>3
  <2>4. CASE hook[g].f = f
    <3>1. Part(g) # Part(h)
      <4>1. Part(g).by = g /\ Part(h).by = h
        BY DEF Part
      <4> QED BY <2>1, <4>1
    <3> QED BY <1>4, <2>1, <2>2, <2>4, <3>1
  <2> QED BY <2>3, <2>4
<1>6. OneIdentity'
  <2> SUFFICES ASSUME NEW e \in Anchors \ cleared, NEW g \in Hooks, hook'[g].id[e] # Absent
               PROVE  anchor'[e] = Whole(hook'[g].id[e])
    BY DEF OneIdentity, Whole
  <2>1. CASE g = h /\ e = f
    BY <1>2, <1>3, <2>1
  <2>2. CASE ~(g = h /\ e = f)
    <3>1. hook'[g].id[e] = hook[g].id[e]
      <4>1. CASE g # h
        BY <1>2, <4>1
      <4>2. CASE g = h /\ e # f
        BY <1>2, <1>3, <4>2
      <4> QED BY <2>2, <4>1, <4>2
    <3>2. anchor[e] = Whole(hook[g].id[e])
      BY <3>1 DEF IdentityInv, OneIdentity
    <3>3. anchor[e] # Absent /\ anchor[e] # Part(h)
      <4>1. hook[g].id[e] \in Hooks \cup {First}
        BY <1>3, <3>1
      <4>2. Whole(hook[g].id[e]) \in [by : Hooks \cup {First}, whole : BOOLEAN]
        BY <4>1 DEF Whole
      <4> QED BY <1>4, <3>2, <4>2 DEF Distinct
    <3> QED BY <3>1, <3>2, <3>3
  <2> QED BY <2>1, <2>2
<1> QED BY <1>5, <1>6 DEF IdentityInv

\* Every step keeps the invariant.
LEMMA IdentityStep ==
  ASSUME Distinct, TypeOK, IdentityInv, [Next]_vars
  PROVE  IdentityInv'
<1>1. ASSUME NEW h \in Hooks,
             MakeRoot(h) \/ NoRoot(h) \/ (\E f \in Anchors : GiveUp(h, f)) \/ KillHook(h)
               \/ MakeRun(h) \/ AppendRecord(h)
      PROVE  IdentityInv'
  <2>1. PICK at \in HookPlaces \ {"fill"} : hook' = [hook EXCEPT ![h].at = at]
    BY <1>1 DEF MakeRoot, NoRoot, GiveUp, KillHook, MakeRun, AppendRecord, HookPlaces
  <2>2. UNCHANGED <<anchor, cleared>>
    BY <1>1 DEF MakeRoot, NoRoot, GiveUp, KillHook, MakeRun, AppendRecord, history
  <2> QED BY <2>1, <2>2, MoveFact, QuietStep
<1>2. ASSUME NEW h \in Hooks, NEW f \in Anchors, Load(h, f) PROVE IdentityInv'
  <2>1. UNCHANGED <<anchor, cleared>>
    BY <1>2 DEF Load, history
  <2>2. CASE /\ anchor[f] # Absent /\ anchor[f].whole
             /\ hook' = [hook EXCEPT ![h].id[f] = anchor[f].by, ![h].at = Following(f)]
    <3>1. anchor[f] = Whole(anchor[f].by)
      BY <2>2 DEF TypeOK, AnchorFiles, Whole
    <3> QED BY <2>1, <2>2, <3>1, LearnStep
  <2>3. CASE hook' = [hook EXCEPT ![h].at = "make", ![h].f = f]
    BY <2>1, <2>3, QuietStep DEF TypeOK, HookStates
  <2> QED BY <1>2, <2>2, <2>3 DEF Load
<1>3. ASSUME NEW h \in Hooks, Publish(h) PROVE IdentityInv'
  <2>1. PICK f \in Anchors : f = hook[h].f
    BY DEF TypeOK, HookStates
  <2>2. cleared' = cleared
    BY <1>3 DEF Publish, history
  <2>3. CASE anchor[f] # Absent
    <3>1. anchor' = anchor /\ hook' = [hook EXCEPT ![h].at = f] /\ f \in HookPlaces \ {"fill"}
      BY <1>3, <2>1, <2>3 DEF Publish, Anchors, HookPlaces
    <3> QED BY <2>2, <3>1, MoveFact, QuietStep
  <2>4. CASE anchor[f] = Absent /\ links
    <3>1. /\ anchor' = [anchor EXCEPT ![f] = Whole(h)]
          /\ hook' = [hook EXCEPT ![h].id[f] = h, ![h].at = Following(f)]
      BY <1>3, <2>1, <2>4 DEF Publish
    <3> QED BY <2>2, <2>4, <3>1, LearnStep DEF TypeOK
  <2>5. CASE anchor[f] = Absent /\ ~links
    <3>1. /\ anchor' = [anchor EXCEPT ![f] = Part(h)]
          /\ hook' = [hook EXCEPT ![h].at = "fill"]
      BY <1>3, <2>1, <2>5 DEF Publish
    <3>2. /\ hook'[h].f = f /\ hook'[h].id = hook[h].id
          /\ \A g \in Hooks \ {h} : hook'[g] = hook[g]
      BY <2>1, <3>1, MoveFact DEF HookPlaces
    <3>3. anchor'[f] = Part(h) /\ \A e \in Anchors \ {f} : anchor'[e] = anchor[e]
      BY <3>1 DEF TypeOK
    <3>4. \A g \in Hooks : /\ hook[g].at = "fill" /\ hook[g].f = f => f \in cleared
                           /\ f \notin cleared => hook[g].id[f] = Absent
      <4>1. ASSUME NEW g \in Hooks PROVE Part(g) # Absent
        <5>1. Part(g) \in [by : Hooks \cup {First}, whole : BOOLEAN]
          BY DEF Part
        <5> QED BY <5>1 DEF Distinct
      <4>2. ASSUME NEW g \in Hooks, hook[g].id[f] # Absent PROVE Whole(hook[g].id[f]) # Absent
        <5>1. hook[g].id[f] \in Hooks \cup {First}
          BY <4>2 DEF TypeOK, HookStates
        <5>2. Whole(hook[g].id[f]) \in [by : Hooks \cup {First}, whole : BOOLEAN]
          BY <5>1 DEF Whole
        <5> QED BY <5>2 DEF Distinct
      <4> QED BY <2>5, <4>1, <4>2 DEF IdentityInv, FillOwns, OneIdentity
    <3>5. \A g \in Hooks : hook[g].f \in Anchors
      BY DEF TypeOK, HookStates
    <3>6. FillOwns'
      <4> SUFFICES ASSUME NEW g \in Hooks, hook'[g].at = "fill", hook'[g].f \notin cleared
                   PROVE  anchor'[hook'[g].f] = Part(g)
        BY <2>2 DEF FillOwns, Part
      <4>1. CASE g = h
        BY <3>2, <3>3, <4>1
      <4>2. CASE g # h
        BY <3>2, <3>3, <3>4, <3>5, <4>2 DEF IdentityInv, FillOwns
      <4> QED BY <4>1, <4>2
    <3>7. OneIdentity'
      <4>1. \A g \in Hooks : hook'[g].id = hook[g].id
        BY <3>2
      <4> QED BY <2>2, <3>3, <3>4, <4>1 DEF IdentityInv, OneIdentity, Whole
    <3> QED BY <3>6, <3>7 DEF IdentityInv
  <2> QED BY <2>3, <2>4, <2>5 DEF TypeOK
<1>4. ASSUME NEW h \in Hooks, Fill(h) PROVE IdentityInv'
  <2>1. PICK f \in Anchors : f = hook[h].f
    BY DEF TypeOK, HookStates
  <2>2. /\ hook' = [hook EXCEPT ![h].id[f] = h, ![h].at = Following(f)]
        /\ cleared' = cleared /\ hook[h].at = "fill"
        /\ anchor' = IF anchor[f] = Part(h) THEN [anchor EXCEPT ![f] = Whole(h)] ELSE anchor
    BY <1>4, <2>1 DEF Fill, At, history
  <2>3. f \notin cleared => anchor[f] = Part(h)
    BY <2>1, <2>2 DEF IdentityInv, FillOwns
  <2>4. /\ f \notin cleared => anchor'[f] = Whole(h)
        /\ \A g \in Anchors \ {f} : anchor'[g] = anchor[g]
    BY <2>2, <2>3 DEF TypeOK
  <2> QED BY <2>1, <2>2, <2>3, <2>4, LearnStep, ZenonT(40)
<1>5. ASSUME NEW p \in Purges,
             Plan(p) \/ Detach(p) \/ RemoveNext(p) \/ KeepAnchors(p) \/ RemoveRoot(p) \/ KillPurge(p)
      PROVE  IdentityInv'
  <2>1. UNCHANGED <<anchor, cleared, hook>>
    BY <1>5 DEF Plan, Detach, RemoveNext, KeepAnchors, RemoveRoot, KillPurge, history
  <2> QED BY <2>1, QuietStep
<1>6. ASSUME NEW p \in Purges, NEW f \in Anchors, RemoveAnchor(p, f) PROVE IdentityInv'
  <2>1. /\ hook' = hook /\ cleared' = cleared \cup {f}
        /\ \A e \in Anchors \ {f} : anchor'[e] = anchor[e]
    BY <1>6 DEF RemoveAnchor, TypeOK
  <2>2. \A h \in Hooks : hook[h].f \in Anchors
    BY DEF TypeOK, HookStates
  <2> QED BY <2>1, <2>2 DEF IdentityInv, FillOwns, OneIdentity, Part, Whole
<1>7. CASE UNCHANGED vars
  BY <1>7, QuietStep DEF vars, history
<1> QED
  BY <1>1, <1>2, <1>3, <1>4, <1>5, <1>6, <1>7 DEF Next

\* However many hooks make the store at once, with links or without, and
\* whichever of them is killed, those that opened it have one key and one
\* install id, the ones on the disk, until a purge removes them (createExclusive).
THEOREM IdentityStaysOne == ASSUME Distinct PROVE Spec => []OneIdentity
<1>1. Init => IdentityInv
  <2>1. ASSUME Init PROVE \A h \in Hooks : hook[h].at = "idle" /\ \A f \in Anchors : hook[h].id[f] = Absent
    BY <2>1 DEF Init
  <2> QED BY <2>1 DEF IdentityInv, FillOwns, OneIdentity
<1>2. TypeOK /\ IdentityInv /\ [Next]_vars => IdentityInv'
  BY IdentityStep
<1>3. IdentityInv => OneIdentity
  BY DEF IdentityInv
<1> QED
  BY <1>1, <1>2, <1>3, TypeCorrect, PTL DEF Spec

-----------------------------------------------------------------------------
(* A purge that stopped can be run again.                                  *)

\* What was planned and is still there: no hook has made it since.
Remaining == run \ late

InPlan(p) == {purge[p].plan[i] : i \in DOMAIN purge[p].plan}

OnePurge == \A p, q \in Purges : Going(p) /\ Going(q) => p = q

\* A purge still has in its plan, or has listed as left, what is still there;
\* it is past its plan only with nothing left.
PlanCovers ==
  \A p \in Purges :
    /\ purge[p].at \in {"planned", "remove"} =>
         Accepted /\ Remaining \subseteq InPlan(p) \cup purge[p].left
    /\ purge[p].at \in {"meta", "key", "root"} => Remaining = {}

\* Once there has been a plan, the anchors stand while anything remains.
AnchorsLast ==
  (\E p \in Purges : purge[p].planned # {}) => Accepted \/ Remaining = {}

RerunInv == OnePurge /\ PlanCovers /\ AnchorsLast

\* A step of a hook takes no anchor away, and what it makes is late.
LEMMA HookStep ==
  ASSUME RerunInv, purge' = purge, Accepted => Accepted', Remaining' \subseteq Remaining
  PROVE  RerunInv'
<1>1. OnePurge'
  BY DEF RerunInv, OnePurge, Going
<1>2. \A p \in Purges : InPlan(p)' = InPlan(p)
  BY DEF InPlan
<1>3. PlanCovers'
  BY <1>2 DEF RerunInv, PlanCovers
<1>4. AnchorsLast'
  BY DEF RerunInv, AnchorsLast
<1> QED BY <1>1, <1>3, <1>4 DEF RerunInv

\* A step that ends a purge, or leaves it where it was.
LEMMA StopStep ==
  ASSUME TypeOK, RerunInv, NEW p \in Purges,
         \A q \in Purges \ {p} : purge'[q] = purge[q],
         purge'[p].planned = purge[p].planned,
         purge'[p].at \notin {"planned", "remove", "meta", "key", "root"},
         Accepted => Accepted', Remaining' = Remaining
  PROVE  RerunInv'
<1>1. OnePurge'
  BY DEF RerunInv, OnePurge, Going
<1>2. \A q \in Purges \ {p} : InPlan(q)' = InPlan(q)
  BY DEF InPlan
<1> QED BY <1>1, <1>2 DEF RerunInv, PlanCovers, AnchorsLast

\* Each step keeps every root one that a purge may be run on again.
LEMMA RerunStep ==
  ASSUME Distinct, TypeOK, RerunInv, [Next]_vars
  PROVE  RerunInv'
<1>1. ASSUME NEW h \in Hooks,
             MakeRoot(h) \/ NoRoot(h) \/ (\E f \in Anchors : Load(h, f) \/ GiveUp(h, f))
               \/ KillHook(h)
      PROVE  RerunInv'
  <2>1. /\ UNCHANGED <<anchor, run, late, purge>>
        /\ root => root'
    BY <1>1 DEF TypeOK, MakeRoot, NoRoot, Load, GiveUp, KillHook, history
  <2> QED BY <2>1, HookStep DEF Accepted, Remaining
<1>2. ASSUME NEW h \in Hooks, Publish(h) \/ Fill(h) PROVE RerunInv'
  <2>1. UNCHANGED <<root, run, late, purge>>
    BY <1>2 DEF Publish, Fill, history
  <2>2. PICK g \in Anchors : g = hook[h].f
    BY DEF TypeOK, HookStates
  <2>3. CASE anchor' = anchor
    BY <2>1, <2>3, HookStep DEF Accepted, Remaining
  <2>4. CASE anchor' = [anchor EXCEPT ![g] = Whole(h)]
    <3>1. Whole(h) # Absent /\ Whole(h).whole
      <4>1. Whole(h) \in [by : Hooks \cup {First}, whole : BOOLEAN]
        BY DEF Whole
      <4> QED BY <4>1 DEF Distinct, Whole
    <3>2. Accepted => Accepted'
      BY <2>1, <2>4, <3>1 DEF TypeOK, Accepted, Anchors
    <3> QED BY <2>1, <3>2, HookStep DEF Remaining
  <2>5. CASE anchor' = [anchor EXCEPT ![g] = Part(h)] /\ anchor[g] = Absent
    <3>1. Accepted => FALSE
      BY <2>5 DEF Accepted, Anchors
    <3>2. UNCHANGED Remaining
      BY <2>1 DEF Remaining
    <3> QED BY <2>1, <3>1, <3>2, HookStep
  <2> QED BY <1>2, <2>2, <2>3, <2>4, <2>5 DEF Publish, Fill
<1>3. ASSUME NEW h \in Hooks, MakeRun(h) \/ AppendRecord(h) PROVE RerunInv'
  <2>1. UNCHANGED <<anchor, purge>> /\ (root => root')
    BY <1>3 DEF TypeOK, MakeRun, AppendRecord
  <2>2. Remaining' \subseteq Remaining
    BY <1>3 DEF MakeRun, AppendRecord, Remaining, Run
  <2> QED BY <2>1, <2>2, HookStep DEF Accepted
<1>4. ASSUME NEW p \in Purges, Plan(p) PROVE RerunInv'
  <2>1. \A q \in Purges : ~Going(q)
    BY <1>4 DEF Plan
  <2>2. UNCHANGED <<root, anchor, run>>
    BY <1>4 DEF Plan
  <2>3. CASE ~Accepted
    <3>1. purge' = [purge EXCEPT ![p].at = "refused"] /\ late' = late
      BY <1>4, <2>3 DEF Plan
    <3> QED BY <2>2, <3>1, StopStep DEF TypeOK, PurgeStates, Accepted, Remaining
  <2>4. CASE Accepted
    <3>1. PICK plan \in Plans :
            /\ purge' = [purge EXCEPT ![p] = [@ EXCEPT !.at = "planned", !.planned = run, !.plan = plan]]
            /\ late' = {}
            /\ plan = IF run = Run THEN <<"records", "dir">>
                      ELSE IF run = {"dir"} THEN <<"dir">> ELSE <<>>
      BY <1>4, <2>4 DEF Plan, Plans
    <3>2. /\ purge'[p].at = "planned" /\ purge'[p].plan = plan
          /\ \A q \in Purges \ {p} : purge'[q] = purge[q]
      BY <3>1 DEF TypeOK, PurgeStates
    <3>3. OnePurge'
      BY <2>1, <3>2 DEF OnePurge, Going
    <3>4. Accepted'
      BY <2>2, <2>4 DEF Accepted
    <3>5. run \subseteq {plan[i] : i \in DOMAIN plan}
      <4>1. CASE run = Run
        <5>1. plan = <<"records", "dir">>
          BY <3>1, <4>1
        <5>2. 1 \in DOMAIN plan /\ 2 \in DOMAIN plan /\ plan[1] = "records" /\ plan[2] = "dir"
          BY <5>1
        <5> QED BY <4>1, <5>2 DEF Run
      <4>2. CASE run = {"dir"}
        <5>1. plan = <<"dir">>
          BY <3>1, <4>2 DEF Run
        <5>2. 1 \in DOMAIN plan /\ plan[1] = "dir"
          BY <5>1
        <5> QED BY <4>2, <5>2
      <4> QED BY <4>1, <4>2 DEF TypeOK
    <3>6. Remaining' \subseteq InPlan(p)'
      BY <2>2, <3>2, <3>5 DEF Remaining, InPlan
    <3>7. PlanCovers'
      BY <2>1, <3>2, <3>4, <3>6 DEF PlanCovers, Going
    <3> QED BY <3>3, <3>4, <3>7 DEF RerunInv, AnchorsLast
  <2> QED BY <2>3, <2>4
<1>5. ASSUME NEW p \in Purges, Detach(p) PROVE RerunInv'
  <2>1. /\ purge[p].at = "planned" /\ purge' = [purge EXCEPT ![p].at = "remove"]
        /\ UNCHANGED <<root, anchor, run, late>>
    BY <1>5 DEF Detach, history
  <2>2. /\ purge'[p].at = "remove" /\ purge'[p].plan = purge[p].plan
        /\ purge'[p].left = purge[p].left /\ purge'[p].planned = purge[p].planned
        /\ \A q \in Purges \ {p} : purge'[q] = purge[q]
    BY <2>1 DEF TypeOK, PurgeStates
  <2>3. Accepted' = Accepted /\ Remaining' = Remaining /\ \A q \in Purges : InPlan(q)' = InPlan(q)
    BY <2>1, <2>2 DEF Accepted, Remaining, InPlan
  <2> QED BY <2>1, <2>2, <2>3 DEF RerunInv, OnePurge, PlanCovers, AnchorsLast, Going
<1>6. ASSUME NEW p \in Purges, RemoveNext(p) PROVE RerunInv'
  <2> DEFINE path == Head(purge[p].plan)
             full == path = "dir" /\ "records" \in run
  <2>1. /\ purge[p].at = "remove" /\ purge[p].plan \in Plans \ {<<>>}
        /\ UNCHANGED <<root, anchor, late>>
    BY <1>6 DEF TypeOK, RemoveNext, PurgeStates, history
  <2>2. /\ run' = IF full THEN run ELSE run \ {path}
        /\ purge' = [purge EXCEPT ![p].plan = Tail(@), ![p].left = IF full THEN @ \cup {path} ELSE @]
    BY <1>6 DEF RemoveNext
  <2>3. /\ purge'[p].at = "remove" /\ purge'[p].plan = Tail(purge[p].plan)
        /\ purge'[p].left = (IF full THEN purge[p].left \cup {path} ELSE purge[p].left)
        /\ purge'[p].planned = purge[p].planned
        /\ \A q \in Purges \ {p} : purge'[q] = purge[q]
    BY <2>1, <2>2 DEF TypeOK, PurgeStates
  <2>4. InPlan(p) \subseteq {path} \cup InPlan(p)'
    <3>1. CASE purge[p].plan = <<"records", "dir">>
      <4>1. /\ path = "records" /\ purge'[p].plan = <<"dir">> /\ DOMAIN purge[p].plan = {1, 2}
            /\ purge[p].plan[1] = "records" /\ purge[p].plan[2] = "dir"
        BY <2>3, <3>1
      <4>2. "dir" \in InPlan(p)'
        <5>1. 1 \in DOMAIN purge'[p].plan /\ purge'[p].plan[1] = "dir"
          BY <4>1
        <5> QED BY <5>1 DEF InPlan
      <4> QED BY <4>1, <4>2 DEF InPlan
    <3>2. CASE purge[p].plan = <<"dir">>
      <4>1. path = "dir" /\ DOMAIN purge[p].plan = {1} /\ purge[p].plan[1] = "dir"
        BY <3>2
      <4> QED BY <4>1 DEF InPlan
    <3> QED BY <2>1, <3>1, <3>2 DEF Plans
  <2>5. /\ Accepted' = Accepted /\ Remaining' \subseteq Remaining
        /\ (~full => path \notin Remaining')
    BY <2>1, <2>2 DEF Accepted, Remaining
  <2>6. \A q \in Purges : Going(q) => q = p
    BY <2>1 DEF RerunInv, OnePurge, Going
  <2>7. Remaining' \subseteq InPlan(p)' \cup purge'[p].left
    <3>1. Remaining \subseteq InPlan(p) \cup purge[p].left
      BY <2>1 DEF RerunInv, PlanCovers
    <3>2. CASE full
      BY <2>3, <2>4, <2>5, <3>1, <3>2
    <3>3. CASE ~full
      BY <2>3, <2>4, <2>5, <3>1, <3>3
    <3> QED BY <3>2, <3>3
  <2>8. OnePurge'
    BY <2>1, <2>3 DEF RerunInv, OnePurge, Going
  <2>9. PlanCovers'
    BY <2>1, <2>3, <2>5, <2>6, <2>7 DEF RerunInv, PlanCovers, Going
  <2>10. AnchorsLast'
    BY <2>3, <2>5 DEF RerunInv, AnchorsLast
  <2> QED BY <2>8, <2>9, <2>10 DEF RerunInv
<1>7. ASSUME NEW p \in Purges, KeepAnchors(p) PROVE RerunInv'
  <2>1. /\ purge[p].at = "remove" /\ purge[p].plan = <<>>
        /\ UNCHANGED <<root, anchor, run, late>>
    BY <1>7 DEF KeepAnchors, history
  <2>2. Accepted' = Accepted /\ Remaining' = Remaining
    BY <2>1 DEF Accepted, Remaining
  <2>3. CASE purge[p].left = {}
    <3>1. /\ purge'[p].at = "meta" /\ purge'[p].planned = purge[p].planned
          /\ \A q \in Purges \ {p} : purge'[q] = purge[q]
      BY <1>7, <2>3 DEF KeepAnchors, TypeOK, PurgeStates
    <3>2. Remaining = {}
      <4>1. InPlan(p) = {}
        BY <2>1 DEF InPlan
      <4> QED BY <2>1, <2>3, <4>1 DEF RerunInv, PlanCovers
    <3>3. \A q \in Purges : Going(q) => q = p
      BY <2>1 DEF RerunInv, OnePurge, Going
    <3> QED BY <2>1, <2>2, <3>1, <3>2, <3>3 DEF RerunInv, OnePurge, PlanCovers, AnchorsLast, Going
  <2>4. CASE purge[p].left # {}
    <3>1. /\ purge'[p].at = "done" /\ purge'[p].planned = purge[p].planned
          /\ \A q \in Purges \ {p} : purge'[q] = purge[q]
      BY <1>7, <2>4 DEF KeepAnchors, TypeOK, PurgeStates
    <3> QED BY <2>2, <3>1, StopStep
  <2> QED BY <2>3, <2>4
<1>8. ASSUME NEW p \in Purges, NEW f \in Anchors, RemoveAnchor(p, f) PROVE RerunInv'
  <2>1. purge[p].at \in {"meta", "key"} /\ UNCHANGED <<run, late>>
    BY <1>8 DEF RemoveAnchor, Anchors
  <2>2. /\ purge'[p].at \in {"key", "root"} /\ purge'[p].planned = purge[p].planned
        /\ \A q \in Purges \ {p} : purge'[q] = purge[q]
    BY <1>8 DEF RemoveAnchor, TypeOK, PurgeStates
  <2>3. \A q \in Purges : Going(q) => q = p
    BY <2>1 DEF RerunInv, OnePurge, Going
  <2>4. Remaining = {} /\ Remaining' = Remaining
    BY <2>1 DEF RerunInv, PlanCovers, Remaining
  <2> QED BY <2>1, <2>2, <2>3, <2>4 DEF RerunInv, OnePurge, PlanCovers, AnchorsLast, Going
<1>9. ASSUME NEW p \in Purges, RemoveRoot(p) PROVE RerunInv'
  <2>1. /\ UNCHANGED <<anchor, run, late>> /\ root' = Left
    BY <1>9 DEF RemoveRoot, history
  <2>2. Accepted => Accepted'
    BY <2>1 DEF Accepted, Left, Anchors
  <2>3. Remaining' = Remaining
    BY <2>1 DEF Remaining
  <2>4. /\ purge'[p].at = "done" /\ purge'[p].planned = purge[p].planned
        /\ \A q \in Purges \ {p} : purge'[q] = purge[q]
    BY <1>9 DEF RemoveRoot, TypeOK, PurgeStates
  <2> QED BY <2>2, <2>3, <2>4, StopStep
<1>10. ASSUME NEW p \in Purges, KillPurge(p) PROVE RerunInv'
  <2>1. UNCHANGED <<anchor, run, late, root>>
    BY <1>10 DEF KillPurge, history
  <2>2. /\ purge'[p].at = "killed" /\ purge'[p].planned = purge[p].planned
        /\ \A q \in Purges \ {p} : purge'[q] = purge[q]
    BY <1>10 DEF KillPurge, TypeOK, PurgeStates
  <2> QED BY <2>1, <2>2, StopStep DEF Accepted, Remaining
<1>11. CASE UNCHANGED vars
  BY <1>11, HookStep DEF vars, history, Accepted, Remaining
<1> QED
  BY <1>1, <1>2, <1>3, <1>4, <1>5, <1>6, <1>7, <1>8, <1>9, <1>10, <1>11 DEF Next

\* A purge that was killed or could not finish can be run again while anything
\* that a purge planned, and no hook has made since, is still there (Execute,
\* resolvePurgeTarget), for any number of purges and of hooks beside them.
THEOREM RerunStaysPossible == ASSUME Distinct PROVE Spec => []RerunAccepts
<1>1. Init => RerunInv
  <2>1. ASSUME Init PROVE \A p \in Purges : purge[p].at = "idle" /\ purge[p].planned = {}
    BY <2>1 DEF Init
  <2> QED BY <2>1 DEF RerunInv, OnePurge, PlanCovers, AnchorsLast, Going
<1>2. TypeOK /\ RerunInv /\ [Next]_vars => RerunInv'
  BY RerunStep
<1>3. RerunInv => RerunAccepts
  BY DEF RerunInv, AnchorsLast, RerunAccepts, Remaining
<1> QED
  BY <1>1, <1>2, <1>3, TypeCorrect, PTL DEF Spec

=============================================================================
