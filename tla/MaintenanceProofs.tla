------------------------- MODULE MaintenanceProofs -------------------------
(***************************************************************************)
(* Proofs about the rule engine: that the report of an execution accounts  *)
(* for every file that its rule has matched, while users change the files  *)
(* under it; about the list of installed programs, which is complete while *)
(* installers add to it; and about the cleaners, whose reports count every *)
(* byte once.                                                              *)
(***************************************************************************)
EXTENDS Rules, Uninstall, Cleaners, FiniteSetTheorems, SequenceTheorems, WellFoundedInduction, TLAPS

\* What a path may hold, and what the walk notes of it.
Contents == [size : FileSizes \cup {FirstSize[p] : p \in RulePaths}, old : BOOLEAN] \cup {None}
Entry    == [path : RulePaths, seen : Contents, unread : BOOLEAN]

\* Executions with this rule, this size and this sum of sizes, which may be
\* anything.
ExecutionOf(rule, size, reclaimed) ==
    [pc : {"idle", "walk", "measure", "act", "done"}, rule : {rule},
     dryRun : BOOLEAN, quarantine : BOOLEAN, journal : BOOLEAN,
     todo : SUBSET RulePaths, ec : BOOLEAN, matched : Seq(Entry), nth : Nat \ {0},
     size : {size}, acted : Nat, reclaimed : {reclaimed}, errors : SUBSET RulePaths]

RulesType ==
    /\ files \in [RulePaths -> Contents]
    /\ runs \in Nat
    /\ exec \in ExecutionOf(exec.rule, exec.size, exec.reclaimed)

PathsOf(matched, n) == {matched[i].path : i \in 1 .. n}

\* A path is noted once, and only if it met the rule.
Fits(rule, m) ==
    /\ m.path \in rule.extensions
    /\ m.unread \/ SizeFits(rule, m.seen.size)
    /\ rule.minAge > 0 => m.seen.old

Noted(e) ==
    /\ \A i, j \in 1 .. Len(e.matched) : e.matched[i].path = e.matched[j].path => i = j
    /\ \A i \in 1 .. Len(e.matched) : e.matched[i].path \notin e.todo /\ Fits(e.rule, e.matched[i])
    /\ IsFiniteSet(PathsOf(e.matched, Len(e.matched)))
    /\ Cardinality(PathsOf(e.matched, Len(e.matched))) = Len(e.matched)

\* The paths before the next one have been acted on or are errors.
Tallied(e) ==
    /\ e.nth <= Len(e.matched) + 1
    /\ e.pc = "act" => e.nth <= Len(e.matched)
    /\ e.pc = "done" => e.nth = Len(e.matched) + 1
    /\ IsFiniteSet(e.errors) /\ e.errors \subseteq PathsOf(e.matched, e.nth - 1)
    /\ e.acted + Cardinality(e.errors) = e.nth - 1

Mine == {k \in kept : k.run = runs}

\* What this execution moved and listed is what it acted on.
Taken ==
    /\ \A k \in kept : k.run \in Nat /\ k.run <= runs
    /\ IF Captures THEN {k.path : k \in {l \in Mine : l.listed}} = PathsOf(exec.matched, exec.nth - 1) \ exec.errors
                   ELSE Mine = {}
    /\ \A k \in Mine : /\ \E i \in 1 .. Len(exec.matched) : k.was = exec.matched[i]
                       /\ k.path = k.was.path

IInv == RulesType /\ Noted(exec) /\ Tallied(exec) /\ Taken
-----------------------------------------------------------------------------
(* Paths of the first entries                                              *)

\* One more entry adds its path.
LEMMA OneMorePath ==
    ASSUME NEW matched, NEW n \in Nat
    PROVE  PathsOf(matched, n + 1) = PathsOf(matched, n) \cup {matched[n + 1].path}
<1>1. 1 .. n + 1 = (1 .. n) \cup {n + 1}
  OBVIOUS
<1> QED
  BY <1>1 DEF PathsOf

\* No entry, no path.
LEMMA NoPaths == ASSUME NEW matched PROVE PathsOf(matched, 0) = {}
<1>1. 1 .. 0 = {}
  OBVIOUS
<1> QED
  BY <1>1 DEF PathsOf

\* Before anything has been walked.
LEMMA IdleFacts ==
    /\ Idle.matched = <<>> /\ Idle.nth = 1 /\ Idle.acted = 0 /\ Idle.errors = {} /\ Idle.todo = {}
    /\ Idle \in ExecutionOf(Idle.rule, Idle.size, Idle.reclaimed)
BY DEF Idle, ExecutionOf

\* An execution that has found nothing yet has nothing to account for.
LEMMA NothingYet ==
    ASSUME NEW e, e.matched = <<>>, e.nth = 1, e.acted = 0, e.errors = {}, e.pc \in {"idle", "walk"}
    PROVE  Noted(e) /\ Tallied(e) /\ PathsOf(e.matched, e.nth - 1) = {}
<1>1. Len(e.matched) = 0 /\ 1 .. Len(e.matched) = {} /\ e.nth - 1 = 0
  OBVIOUS
<1>2. PathsOf(e.matched, Len(e.matched)) = {} /\ PathsOf(e.matched, e.nth - 1) = {}
  BY <1>1, NoPaths
<1>3. IsFiniteSet({}) /\ Cardinality({}) = 0
  BY FS_EmptySet
<1>4. Noted(e)
  BY <1>1, <1>2, <1>3 DEF Noted
<1>5. Tallied(e)
  BY <1>1, <1>2, <1>3 DEF Tallied
<1> QED
  BY <1>2, <1>4, <1>5
-----------------------------------------------------------------------------
(* The inductive invariant                                                 *)

\* Nothing has been run.
LEMMA InitInv == RulesInit => IInv
<1> SUFFICES ASSUME RulesInit PROVE IInv
  OBVIOUS
<1>1. exec = Idle /\ kept = {} /\ runs = 0
  BY DEF RulesInit
<1>2. files \in [RulePaths -> Contents]
  BY DEF RulesInit, Contents
<1>3. RulesType
  BY <1>1, <1>2, IdleFacts DEF RulesType
<1>4. exec.pc = "idle"
  BY <1>1 DEF Idle
<1>5. Noted(exec) /\ Tallied(exec) /\ PathsOf(exec.matched, exec.nth - 1) = {}
  BY <1>1, <1>4, IdleFacts, NothingYet
<1>6. Taken
  BY <1>1, <1>5 DEF Taken, Mine
<1> QED
  BY <1>3, <1>5, <1>6 DEF IInv

\* A new execution has moved nothing.
LEMMA ExecuteStep ==
    ASSUME IInv, NEW rule, NEW dryRun \in BOOLEAN, NEW quarantine \in BOOLEAN, NEW journal \in BOOLEAN,
           Execute(rule, dryRun, quarantine, journal)
    PROVE  IInv'
<1>1. PICK found \in {{}, {p \in RulePaths : files[p] # None}} :
        exec' = IF ~rule.path THEN Idle
                ELSE [Idle EXCEPT !.pc = "walk", !.rule = rule, !.dryRun = dryRun,
                                  !.quarantine = quarantine, !.journal = journal, !.todo = found]
  BY DEF Execute
<1>2. runs' = runs + 1 /\ UNCHANGED <<files, kept>> /\ runs \in Nat
  BY DEF Execute, IInv, RulesType
<1>3. /\ exec'.matched = <<>> /\ exec'.nth = 1 /\ exec'.acted = 0 /\ exec'.errors = {}
      /\ exec'.pc \in {"idle", "walk"}
  BY <1>1 DEF Idle
<1>4. RulesType'
  <2>1. found \in SUBSET RulePaths
    OBVIOUS
  <2>2. CASE ~rule.path
    BY <1>1, <2>2, <1>2, IdleFacts DEF IInv, RulesType
  <2>3. CASE rule.path
    <3>1. exec' = [Idle EXCEPT !.pc = "walk", !.rule = rule, !.dryRun = dryRun,
                               !.quarantine = quarantine, !.journal = journal, !.todo = found]
      BY <1>1, <2>3
    <3>2. exec' \in ExecutionOf(exec'.rule, exec'.size, exec'.reclaimed)
      <4>1. exec' \in ExecutionOf(rule, Idle.size, Idle.reclaimed)
        BY <2>1, <3>1, IdleFacts, ZenonT(40) DEF ExecutionOf
      <4>2. exec'.rule = rule /\ exec'.size = Idle.size /\ exec'.reclaimed = Idle.reclaimed
        BY <4>1 DEF ExecutionOf
      <4> QED
        BY <4>1, <4>2
    <3> QED
      BY <1>2, <3>2 DEF IInv, RulesType
  <2> QED
    BY <2>2, <2>3
<1>5. Noted(exec') /\ Tallied(exec') /\ PathsOf(exec'.matched, exec'.nth - 1) = {}
  BY <1>3, NothingYet
<1>6. Mine' = {}
  BY <1>2 DEF IInv, Taken, Mine
<1>7. Taken'
  BY <1>2, <1>3, <1>5, <1>6 DEF IInv, Taken
<1> QED
  BY <1>4, <1>5, <1>7 DEF IInv

\* The walk notes an entry or passes over it.
LEMMA EvaluateStep ==
    ASSUME IInv, NEW p \in RulePaths, Evaluate(p)
    PROVE  IInv'
<1>1. /\ exec.pc = "walk" /\ p \in exec.todo
      /\ UNCHANGED <<files, kept, runs>>
  BY DEF Evaluate
<1>2. /\ RulesType /\ Noted(exec) /\ Tallied(exec) /\ Taken
      /\ exec.matched \in Seq(Entry) /\ Len(exec.matched) \in Nat /\ exec.nth \in Nat \ {0}
  BY DEF IInv, RulesType, ExecutionOf
<1>3. CASE \E ec \in BOOLEAN : exec' = [exec EXCEPT !.todo = @ \ {p}, !.ec = ec]
  <2>1. PICK ec \in BOOLEAN : exec' = [exec EXCEPT !.todo = @ \ {p}, !.ec = ec]
    BY <1>3
  <2>2. RulesType'
    BY <1>1, <1>2, <2>1 DEF RulesType, ExecutionOf
  <2>3. /\ exec'.matched = exec.matched /\ exec'.nth = exec.nth /\ exec'.errors = exec.errors
        /\ exec'.acted = exec.acted /\ exec'.rule = exec.rule /\ exec'.pc = exec.pc
        /\ exec'.todo \subseteq exec.todo /\ (Captures' <=> Captures)
    BY <1>2, <2>1 DEF RulesType, ExecutionOf, Captures
  <2>4. Noted(exec') /\ Tallied(exec')
    BY <1>2, <2>3 DEF Noted, Tallied
  <2>5. Taken'
    BY <1>1, <1>2, <2>3 DEF Taken, Mine
  <2> QED
    BY <2>2, <2>4, <2>5 DEF IInv
<1>4. CASE \E m \in Entry, ec \in BOOLEAN :
             /\ m.path = p /\ Fits(exec.rule, m)
             /\ exec' = [exec EXCEPT !.todo = @ \ {p}, !.ec = ec, !.matched = Append(@, m)]
  <2>1. PICK m \in Entry, ec \in BOOLEAN :
             /\ m.path = p /\ Fits(exec.rule, m)
             /\ exec' = [exec EXCEPT !.todo = @ \ {p}, !.ec = ec, !.matched = Append(@, m)]
    BY <1>4
  <2>2. PICK n \in Nat : n = Len(exec.matched)
    BY <1>2
  <2>3. /\ Append(exec.matched, m) \in Seq(Entry) /\ Len(Append(exec.matched, m)) = n + 1
        /\ Append(exec.matched, m)[n + 1] = m
        /\ \A i \in 1 .. n : Append(exec.matched, m)[i] = exec.matched[i]
    BY <1>2, <2>2, AppendProperties
  <2>4. /\ exec'.matched = Append(exec.matched, m) /\ exec'.nth = exec.nth /\ exec'.errors = exec.errors
        /\ exec'.acted = exec.acted /\ exec'.rule = exec.rule /\ exec'.pc = exec.pc
        /\ exec'.todo = exec.todo \ {p} /\ (Captures' <=> Captures)
    BY <1>2, <2>1 DEF RulesType, ExecutionOf, Captures
  <2>5. RulesType'
    BY <1>1, <1>2, <2>1, <2>3 DEF RulesType, ExecutionOf
  <2>6. \A k \in 0 .. n : PathsOf(exec'.matched, k) = PathsOf(exec.matched, k)
    BY <2>3, <2>4 DEF PathsOf
  <2>7. PathsOf(exec'.matched, n + 1) = PathsOf(exec.matched, n) \cup {p}
    <3>1. PathsOf(exec'.matched, n + 1) = PathsOf(exec'.matched, n) \cup {exec'.matched[n + 1].path}
      BY OneMorePath
    <3>2. exec'.matched[n + 1].path = p /\ n \in 0 .. n
      BY <2>1, <2>3, <2>4
    <3> QED
      BY <2>6, <3>1, <3>2
  <2>8. p \notin PathsOf(exec.matched, n)
    BY <1>1, <1>2, <2>2 DEF Noted, PathsOf
  <2>9. /\ IsFiniteSet(PathsOf(exec'.matched, n + 1))
        /\ Cardinality(PathsOf(exec'.matched, n + 1)) = n + 1
    <3>1. PICK S : S = PathsOf(exec.matched, n)
      OBVIOUS
    <3>2. IsFiniteSet(S) /\ Cardinality(S) = n /\ p \notin S
      BY <1>2, <2>2, <2>8, <3>1 DEF Noted
    <3>3. IsFiniteSet(S \cup {p}) /\ Cardinality(S \cup {p}) = n + 1
      BY <3>2, FS_AddElement
    <3> QED
      BY <2>7, <3>1, <3>3
  <2>10. \A i \in 1 .. n + 1 : i \in 1 .. n \/ i = n + 1
    OBVIOUS
  <2>11. Noted(exec')
    <3>1. \A i \in 1 .. n + 1 : exec'.matched[i].path \notin exec'.todo /\ Fits(exec'.rule, exec'.matched[i])
      BY <1>2, <2>1, <2>2, <2>3, <2>4, <2>10 DEF Noted
    <3>2. \A i \in 1 .. n : exec'.matched[i].path \in PathsOf(exec.matched, n)
      BY <2>3, <2>4 DEF PathsOf
    <3>3. ASSUME NEW i \in 1 .. n + 1, NEW j \in 1 .. n + 1, exec'.matched[i].path = exec'.matched[j].path
          PROVE  i = j
      <4>1. CASE i \in 1 .. n /\ j \in 1 .. n
        BY <1>2, <2>2, <2>3, <2>4, <3>3, <4>1 DEF Noted
      <4> QED
        BY <2>1, <2>3, <2>4, <2>8, <2>10, <3>2, <3>3, <4>1
    <3> QED
      BY <2>3, <2>4, <2>9, <3>1, <3>3 DEF Noted
  <2>12. exec.nth - 1 \in 0 .. n /\ PathsOf(exec'.matched, exec'.nth - 1) = PathsOf(exec.matched, exec.nth - 1)
    BY <1>2, <2>2, <2>4, <2>6 DEF Tallied
  <2>13. Tallied(exec')
    BY <1>1, <1>2, <2>2, <2>3, <2>4, <2>12 DEF Tallied
  <2>14. Taken'
    <3>1. Mine' = Mine
      BY <1>1 DEF Mine
    <3>2. \A i \in 1 .. Len(exec.matched) : i \in 1 .. Len(exec'.matched) /\ exec'.matched[i] = exec.matched[i]
      BY <2>2, <2>3, <2>4
    <3> QED
      BY <1>1, <1>2, <2>4, <2>12, <3>1, <3>2 DEF Taken
  <2> QED
    BY <2>5, <2>11, <2>13, <2>14 DEF IInv
<1>5. ASSUME ~exec.ec, files[p] # None, NEW unread \in BOOLEAN, NEW dated \in {TRUE, exec.rule.minAge = 0},
             NEW size, size = IF unread THEN Huge ELSE files[p].size,
             NEW m, m = [path |-> p, seen |-> files[p], unread |-> unread],
             SizeFits(exec.rule, size), p \in exec.rule.extensions, dated, OldEnough(exec.rule, files[p])
      PROVE  m \in Entry /\ m.path = p /\ Fits(exec.rule, m)
  <2>1. m \in Entry /\ m.path = p /\ m.seen = files[p] /\ m.unread = unread
    BY <1>2, <1>5 DEF RulesType, Entry
  <2>2. m.unread \/ SizeFits(exec.rule, m.seen.size)
    BY <1>5, <2>1
  <2>3. exec.rule.minAge > 0 => m.seen.old
    BY <1>5, <2>1 DEF OldEnough
  <2> QED
    BY <1>5, <2>1, <2>2, <2>3 DEF Fits
<1> QED
  BY <1>3, <1>4, <1>5 DEF Evaluate

\* A step of execute that is done with a path: it counts it, or lists it among
\* the errors, and goes on.
LEMMA TallyStep ==
    ASSUME RulesType, Noted(exec), Tallied(exec), exec.nth <= Len(exec.matched), exec' \in {Acting, Erring}
    PROVE  /\ exec' \in ExecutionOf(exec'.rule, exec'.size, exec'.reclaimed)
           /\ Noted(exec') /\ Tallied(exec')
           /\ exec'.matched = exec.matched /\ (Captures' <=> Captures)
           /\ PathsOf(exec'.matched, exec'.nth - 1) = PathsOf(exec.matched, exec.nth - 1) \cup {Matched}
           /\ Matched \notin PathsOf(exec.matched, exec.nth - 1)
           /\ exec'.errors = IF exec' = Acting THEN exec.errors ELSE exec.errors \cup {Matched}
<1>1. /\ exec.matched \in Seq(Entry) /\ Len(exec.matched) \in Nat /\ exec.nth \in Nat \ {0}
      /\ exec.acted \in Nat /\ exec.errors \subseteq RulePaths
  BY DEF RulesType, ExecutionOf
<1>2. exec.matched[exec.nth] \in Entry /\ Matched \in RulePaths
  <2>1. exec.nth \in 1 .. Len(exec.matched)
    BY <1>1
  <2>2. exec.matched[exec.nth] \in Entry
    BY <1>1, <2>1, ElementOfSeq
  <2> QED
    BY <2>2 DEF Matched, Entry
<1>3. PICK n \in Nat : exec.nth = n + 1
  <2>1. exec.nth - 1 \in Nat /\ exec.nth = (exec.nth - 1) + 1
    BY <1>1
  <2> QED
    BY <2>1
<1>4. /\ exec'.pc = "measure" /\ exec'.rule = exec.rule /\ exec'.todo = exec.todo
      /\ exec'.matched = exec.matched /\ exec'.nth = n + 2 /\ (Captures' <=> Captures)
  <2>1. CASE exec' = Acting
    BY <2>1, <1>1, <1>3 DEF RulesType, ExecutionOf, Acting, Captures
  <2>2. CASE exec' = Erring
    BY <2>2, <1>1, <1>3 DEF RulesType, ExecutionOf, Erring, Captures
  <2> QED
    BY <2>1, <2>2
<1>5. exec.nth - 1 = n /\ exec'.nth - 1 = n + 1 /\ n + 1 <= Len(exec.matched)
  BY <1>1, <1>3, <1>4
<1>6. PathsOf(exec'.matched, exec'.nth - 1) = PathsOf(exec.matched, exec.nth - 1) \cup {Matched}
  <2>1. PathsOf(exec.matched, n + 1) = PathsOf(exec.matched, n) \cup {exec.matched[n + 1].path}
    BY OneMorePath
  <2> QED
    BY <1>3, <1>4, <1>5, <2>1 DEF Matched
<1>7. Matched \notin PathsOf(exec.matched, exec.nth - 1)
  <2>1. SUFFICES ASSUME NEW i \in 1 .. n, exec.matched[i].path = exec.matched[n + 1].path PROVE FALSE
    BY <1>3, <1>5 DEF PathsOf, Matched
  <2>2. i \in 1 .. Len(exec.matched) /\ n + 1 \in 1 .. Len(exec.matched) /\ i # n + 1
    BY <1>1, <1>5
  <2> QED
    BY <2>1, <2>2 DEF Noted
<1>8. Noted(exec')
  BY <1>4 DEF Noted
<1>9. /\ IsFiniteSet(exec.errors) /\ Matched \notin exec.errors /\ Cardinality(exec.errors) \in Nat
      /\ exec.acted + Cardinality(exec.errors) = n
  BY <1>5, <1>7, FS_CardinalityType DEF Tallied
<1>10. CASE exec' = Acting
  <2>1. exec'.errors = exec.errors /\ exec'.acted = exec.acted + 1
    BY <1>10 DEF Acting, RulesType, ExecutionOf
  <2>2. exec' \in ExecutionOf(exec'.rule, exec'.size, exec'.reclaimed)
    <3>1. PICK reclaim : reclaim = exec.reclaimed + exec.size
      OBVIOUS
    <3>2. PICK a \in Nat, m \in Nat \ {0} : a = exec.acted + 1 /\ m = exec.nth + 1
      BY <1>1
    <3>3. exec' \in ExecutionOf(exec.rule, exec.size, reclaim)
      <4>1. exec' = [exec EXCEPT !.pc = "measure", !.acted = a, !.reclaimed = reclaim, !.nth = m]
        BY <1>10, <3>1, <3>2 DEF Acting
      <4> QED
        BY <4>1 DEF RulesType, ExecutionOf
    <3>4. exec'.rule = exec.rule /\ exec'.size = exec.size /\ exec'.reclaimed = reclaim
      BY <3>3 DEF ExecutionOf
    <3> QED
      BY <3>3, <3>4
  <2>3. Tallied(exec')
    BY <1>1, <1>4, <1>5, <1>6, <1>9, <2>1 DEF Tallied
  <2> QED
    BY <1>4, <1>6, <1>7, <1>8, <1>10, <2>1, <2>2, <2>3
<1>11. CASE exec' = Erring /\ exec' # Acting
  <2>1. exec'.errors = exec.errors \cup {Matched} /\ exec'.acted = exec.acted
    BY <1>11 DEF Erring, RulesType, ExecutionOf
  <2>2. exec' \in ExecutionOf(exec'.rule, exec'.size, exec'.reclaimed)
    <3>1. exec' \in ExecutionOf(exec.rule, exec.size, exec.reclaimed)
      <4>1. PICK x \in SUBSET RulePaths : x = exec.errors \cup {Matched}
        BY <1>1, <1>2
      <4>2. PICK m \in Nat \ {0} : m = exec.nth + 1
        BY <1>1
      <4>3. exec' = [exec EXCEPT !.pc = "measure", !.errors = x, !.nth = m]
        BY <1>11, <4>1, <4>2 DEF Erring
      <4> QED
        BY <4>3 DEF RulesType, ExecutionOf
    <3>2. exec'.rule = exec.rule /\ exec'.size = exec.size /\ exec'.reclaimed = exec.reclaimed
      BY <3>1 DEF ExecutionOf
    <3> QED
      BY <3>1, <3>2
  <2>3. IsFiniteSet(exec'.errors) /\ Cardinality(exec'.errors) = Cardinality(exec.errors) + 1
    BY <1>9, <2>1, FS_AddElement
  <2>4. Tallied(exec')
    BY <1>1, <1>4, <1>5, <1>6, <1>9, <2>1, <2>3 DEF Tallied
  <2> QED
    BY <1>4, <1>6, <1>7, <1>8, <1>11, <2>1, <2>2, <2>4
<1> QED
  BY <1>10, <1>11

\* file_size fails, or the path is next to be acted on.
LEMMA MeasureStep == ASSUME IInv, Measure PROVE IInv'
<1>1. /\ RulesType /\ Noted(exec) /\ Tallied(exec) /\ Taken /\ exec.nth <= Len(exec.matched)
      /\ UNCHANGED <<files, kept, runs>>
  BY DEF IInv, Measure
<1>2. CASE exec' = Erring
  <2>1. exec' \in {Acting, Erring}
    BY <1>2
  <2>2. exec' # Acting
    <3>1. exec'.acted = exec.acted /\ exec.acted \in Nat
      BY <1>1, <1>2 DEF Erring, RulesType, ExecutionOf
    <3>2. Acting.acted = exec.acted + 1
      BY <1>1 DEF Acting, RulesType, ExecutionOf
    <3> QED
      BY <3>1, <3>2
  <2>3. /\ exec' \in ExecutionOf(exec'.rule, exec'.size, exec'.reclaimed)
        /\ Noted(exec') /\ Tallied(exec')
        /\ exec'.matched = exec.matched /\ (Captures' <=> Captures)
        /\ PathsOf(exec'.matched, exec'.nth - 1) \ exec'.errors = PathsOf(exec.matched, exec.nth - 1) \ exec.errors
    BY <1>1, <2>1, <2>2, TallyStep
  <2>4. Taken'
    BY <1>1, <2>3 DEF Taken, Mine
  <2> QED
    BY <1>1, <2>3, <2>4 DEF IInv, RulesType
<1>3. CASE exec' = [exec EXCEPT !.pc = "act", !.size = files[Matched].size]
  <2>1. exec' \in ExecutionOf(exec.rule, files[Matched].size, exec.reclaimed)
    BY <1>1, <1>3 DEF RulesType, ExecutionOf
  <2>2. /\ exec'.rule = exec.rule /\ exec'.size = files[Matched].size /\ exec'.reclaimed = exec.reclaimed
        /\ exec'.matched = exec.matched /\ exec'.nth = exec.nth /\ exec'.errors = exec.errors
        /\ exec'.acted = exec.acted /\ exec'.todo = exec.todo /\ exec'.pc = "act" /\ (Captures' <=> Captures)
    BY <1>1, <1>3 DEF RulesType, ExecutionOf, Captures
  <2>3. RulesType'
    BY <1>1, <2>1, <2>2 DEF RulesType
  <2>4. Noted(exec') /\ Tallied(exec')
    BY <1>1, <2>2 DEF Noted, Tallied
  <2>5. Taken'
    BY <1>1, <2>2 DEF Taken, Mine
  <2> QED
    BY <2>3, <2>4, <2>5 DEF IInv
<1> QED
  BY <1>2, <1>3 DEF Measure

\* A path that is counted only.
LEMMA CountOnlyStep == ASSUME IInv, CountOnly PROVE IInv'
<1>1. /\ RulesType /\ Noted(exec) /\ Tallied(exec) /\ Taken /\ exec.nth <= Len(exec.matched)
      /\ UNCHANGED <<files, kept, runs>> /\ exec' = Acting /\ ~Captures
  BY DEF IInv, CountOnly, Tallied
<1>2. /\ exec' \in ExecutionOf(exec'.rule, exec'.size, exec'.reclaimed)
      /\ Noted(exec') /\ Tallied(exec') /\ ~Captures'
  BY <1>1, TallyStep
<1>3. Mine' = {}
  BY <1>1 DEF Taken, Mine
<1>4. Taken'
  BY <1>1, <1>2, <1>3 DEF Taken
<1> QED
  BY <1>1, <1>2, <1>4 DEF IInv, RulesType

\* A capture moves the file and lists it, or does not list it, or fails.
LEMMA CaptureStep == ASSUME IInv, Capture PROVE IInv'
<1>1. /\ RulesType /\ Noted(exec) /\ Tallied(exec) /\ Taken /\ exec.nth <= Len(exec.matched)
      /\ runs' = runs /\ Captures /\ exec' \in {Acting, Erring}
  BY DEF IInv, Capture, Tallied, AfterFailedCapture
<1>2. /\ exec' \in ExecutionOf(exec'.rule, exec'.size, exec'.reclaimed)
      /\ Noted(exec') /\ Tallied(exec') /\ exec'.matched = exec.matched /\ Captures'
      /\ PathsOf(exec'.matched, exec'.nth - 1) = PathsOf(exec.matched, exec.nth - 1) \cup {Matched}
      /\ Matched \notin PathsOf(exec.matched, exec.nth - 1)
      /\ exec'.errors = IF exec' = Acting THEN exec.errors ELSE exec.errors \cup {Matched}
  BY <1>1, TallyStep
<1>3. Acting # Erring
  <2>1. Acting.acted = exec.acted + 1 /\ Erring.acted = exec.acted /\ exec.acted \in Nat
    BY <1>1 DEF Acting, Erring, RulesType, ExecutionOf
  <2> QED
    BY <2>1
<1>4. exec.errors \subseteq PathsOf(exec.matched, exec.nth - 1)
  BY <1>1 DEF Tallied
<1>5. CASE exec' = Erring /\ UNCHANGED <<files, kept>>
  <2>1. PathsOf(exec'.matched, exec'.nth - 1) \ exec'.errors = PathsOf(exec.matched, exec.nth - 1) \ exec.errors
    BY <1>2, <1>3, <1>5
  <2>2. Taken'
    BY <1>1, <1>2, <1>5, <2>1 DEF Taken, Mine
  <2> QED
    BY <1>1, <1>2, <1>5, <2>2 DEF IInv, RulesType
<1>6. ASSUME NEW listed \in BOOLEAN, files' = [files EXCEPT ![Matched] = None],
             kept' = kept \cup {[path |-> Matched, was |-> exec.matched[exec.nth], run |-> runs, listed |-> listed]},
             exec' = IF listed THEN Acting ELSE Erring
      PROVE  IInv'
  <2>1. PICK new : new = [path |-> Matched, was |-> exec.matched[exec.nth], run |-> runs, listed |-> listed]
    OBVIOUS
  <2>2. /\ new.path = Matched /\ new.was = exec.matched[exec.nth] /\ new.run = runs /\ new.listed = listed
        /\ new.path = new.was.path
    BY <2>1 DEF Matched
  <2>3. kept' = kept \cup {new}
    BY <1>6, <2>1
  <2>4. Mine' = Mine \cup {new}
    BY <1>1, <2>2, <2>3 DEF Mine
  <2>5. {k.path : k \in {l \in Mine : l.listed}} = PathsOf(exec.matched, exec.nth - 1) \ exec.errors
    BY <1>1 DEF Taken
  <2>6. {k.path : k \in {l \in Mine' : l.listed}} = PathsOf(exec'.matched, exec'.nth - 1) \ exec'.errors
    <3>1. CASE listed
      <4>1. {l \in Mine' : l.listed} = {l \in Mine : l.listed} \cup {new}
        BY <2>2, <2>4, <3>1
      <4>2. {k.path : k \in {l \in Mine' : l.listed}} = {k.path : k \in {l \in Mine : l.listed}} \cup {Matched}
        BY <2>2, <4>1
      <4>3. exec'.errors = exec.errors
        BY <1>2, <1>6, <3>1
      <4> QED
        BY <1>2, <1>4, <2>5, <4>2, <4>3
    <3>2. CASE ~listed
      <4>1. {l \in Mine' : l.listed} = {l \in Mine : l.listed}
        BY <2>2, <2>4, <3>2
      <4>2. exec'.errors = exec.errors \cup {Matched}
        BY <1>2, <1>3, <1>6, <3>2
      <4> QED
        BY <1>2, <2>5, <4>1, <4>2
    <3> QED
      BY <3>1, <3>2
  <2>7. \A k \in Mine' : /\ \E i \in 1 .. Len(exec'.matched) : k.was = exec'.matched[i]
                         /\ k.path = k.was.path
    <3>1. exec.nth \in 1 .. Len(exec.matched)
      BY <1>1 DEF RulesType, ExecutionOf
    <3> QED
      BY <1>1, <1>2, <2>2, <2>4, <3>1 DEF Taken
  <2>8. \A k \in kept' : k.run \in Nat /\ k.run <= runs'
    BY <1>1, <2>2, <2>3 DEF Taken, RulesType
  <2>9. Taken'
    BY <1>2, <2>6, <2>7, <2>8 DEF Taken
  <2>10. files' \in [RulePaths -> Contents]
    BY <1>1, <1>6 DEF RulesType, Contents
  <2> QED
    BY <1>1, <1>2, <2>9, <2>10 DEF IInv, RulesType
<1> QED
  BY <1>5, <1>6 DEF Capture, AfterFailedCapture

\* A step that leaves the execution and what was moved keeps it.
LEMMA OtherStep ==
    ASSUME IInv, files' \in [RulePaths -> Contents], UNCHANGED <<kept, exec, runs>>
    PROVE  IInv'
BY DEF IInv, RulesType, Taken, Mine, Captures

\* The end of the walk, and of the execution.
LEMMA TurnStep ==
    ASSUME IInv, EvaluateEnds \/ ExecuteReturns
    PROVE  IInv'
<1>1. /\ RulesType /\ Noted(exec) /\ Tallied(exec) /\ Taken /\ UNCHANGED <<files, kept, runs>>
      /\ \/ exec' = [exec EXCEPT !.pc = "measure"]
         \/ exec' = [exec EXCEPT !.pc = "done"] /\ exec.nth > Len(exec.matched)
  BY DEF IInv, EvaluateEnds, ExecuteReturns
<1>2. exec' \in ExecutionOf(exec.rule, exec.size, exec.reclaimed)
  BY <1>1 DEF RulesType, ExecutionOf
<1>3. /\ exec'.rule = exec.rule /\ exec'.size = exec.size /\ exec'.reclaimed = exec.reclaimed
      /\ exec'.matched = exec.matched /\ exec'.nth = exec.nth /\ exec'.errors = exec.errors
      /\ exec'.acted = exec.acted /\ exec'.todo = exec.todo /\ (Captures' <=> Captures)
      /\ exec'.pc = "measure" \/ (exec'.pc = "done" /\ exec.nth > Len(exec.matched))
  BY <1>1 DEF RulesType, ExecutionOf, Captures
<1>4. RulesType'
  BY <1>1, <1>2, <1>3 DEF RulesType
<1>5. Noted(exec')
  BY <1>1, <1>3 DEF Noted
<1>6. exec.nth \in Nat /\ Len(exec.matched) \in Nat
  BY <1>1 DEF RulesType, ExecutionOf
<1>7. Tallied(exec')
  BY <1>1, <1>3, <1>6 DEF Tallied
<1>8. Taken'
  BY <1>1, <1>3 DEF Taken, Mine
<1> QED
  BY <1>4, <1>5, <1>7, <1>8 DEF IInv

\* Every step of the engine, of the application and of the user keeps it.
LEMMA NextInv == IInv /\ [RulesNext]_<<ruleVars, journalVars>> => IInv'
<1> SUFFICES ASSUME IInv, [RulesNext]_<<ruleVars, journalVars>> PROVE IInv'
  OBVIOUS
<1>1. files \in [RulePaths -> Contents]
  BY DEF IInv, RulesType
<1>2. ASSUME NEW d \in Documents, WriteRules(d) PROVE IInv'
  BY <1>1, <1>2, OtherStep DEF WriteRules
<1>3. ASSUME NEW id, NEW dryRun \in BOOLEAN, RulesCommand(id, dryRun) PROVE IInv'
  BY <1>3, ExecuteStep DEF RulesCommand
<1>4. ASSUME NEW id, NEW dryRun \in BOOLEAN, ExecuteRule(id, dryRun) PROVE IInv'
  BY <1>4, ExecuteStep DEF ExecuteRule
<1>5. ASSUME NEW rule, NEW dryRun \in BOOLEAN, Execute(rule, dryRun, TRUE, TRUE) PROVE IInv'
  BY <1>5, ExecuteStep
<1>6. CASE Reload
  BY <1>1, <1>6, OtherStep DEF Reload
<1>7. CASE EvaluateEnds \/ ExecuteReturns
  BY <1>7, TurnStep
<1>8. CASE Measure
  BY <1>8, MeasureStep
<1>9. CASE CountOnly
  BY <1>9, CountOnlyStep
<1>10. CASE Capture
  BY <1>10, CaptureStep
<1>11. CASE JournalSteps
  BY <1>1, <1>11, OtherStep DEF JournalSteps, ruleVars
<1>12. ASSUME NEW p \in RulePaths, Evaluate(p) PROVE IInv'
  BY <1>12, EvaluateStep
<1>13. ASSUME NEW p \in RulePaths, UserEdits(p) PROVE IInv'
  <2>1. PICK f \in {None} \cup [size : FileSizes, old : {FALSE}] : files' = [files EXCEPT ![p] = f]
    BY <1>13 DEF UserEdits
  <2>2. f \in Contents
    BY DEF Contents
  <2>3. files' \in [RulePaths -> Contents]
    BY <1>1, <2>1, <2>2
  <2> QED
    BY <1>13, <2>3, OtherStep DEF UserEdits
<1>14. CASE UNCHANGED <<ruleVars, journalVars>>
  BY <1>1, <1>14, OtherStep DEF ruleVars
<1> QED
  BY <1>2, <1>3, <1>4, <1>5, <1>6, <1>7, <1>8, <1>9, <1>10, <1>11, <1>12, <1>13, <1>14 DEF RulesNext

\* The report of an execution accounts for the files its rule matched, for any
\* rules and files, and however often they change while it runs.
THEOREM ReportsAreTrue == RulesSpec => []RunAccounts
<1>1. IInv => RunAccounts
  <2> SUFFICES ASSUME IInv, exec.pc = "done" PROVE RunAccounts
    BY DEF RunAccounts
  <2>1. exec.matched \in Seq(Entry) /\ Len(exec.matched) \in Nat /\ DOMAIN exec.matched = 1 .. Len(exec.matched)
    BY DEF IInv, RulesType, ExecutionOf
  <2>2. exec.nth - 1 = Len(exec.matched)
    BY <2>1 DEF IInv, Tallied
  <2>3. {m.path : m \in Range(exec.matched)} = PathsOf(exec.matched, exec.nth - 1)
    BY <2>1, <2>2 DEF PathsOf, Range
  <2>4. exec.acted + Cardinality(exec.errors) = Cardinality({m.path : m \in Range(exec.matched)})
    BY <2>2, <2>3 DEF IInv, Tallied, Noted
  <2>5. ASSUME NEW k \in Mine
        PROVE  /\ k.path \in exec.rule.extensions
               /\ k.was.unread \/ SizeFits(exec.rule, k.was.seen.size)
               /\ exec.rule.minAge > 0 => k.was.seen.old
    <3>1. PICK i \in 1 .. Len(exec.matched) : k.was = exec.matched[i] /\ k.path = k.was.path
      BY DEF IInv, Taken
    <3>2. Fits(exec.rule, exec.matched[i])
      BY DEF IInv, Noted
    <3> QED
      BY <3>1, <3>2 DEF Fits
  <2>6. IF Captures THEN {k.path : k \in {l \in Mine : l.listed}} = {m.path : m \in Range(exec.matched)} \ exec.errors
                    ELSE Mine = {}
    BY <2>3 DEF IInv, Taken
  <2> QED
    BY <2>4, <2>5, <2>6 DEF RunAccounts, Mine
<1> QED  BY <1>1, InitInv, NextInv, PTL DEF RulesSpec

-----------------------------------------------------------------------------
(* The list of installed programs                                          *)

\* A set of naturals that is not empty has a least element.
LEMMA LeastNumber ==
    ASSUME NEW S \in SUBSET Nat, S # {}
    PROVE  \E x \in S : \A y \in S : x <= y
<1>1. IsWellFoundedOn(OpToRel(<, Nat), Nat)
  BY NatLessThanWellFounded
<1>2. PICK x \in S : \A y \in S : ~(<<y, x>> \in OpToRel(<, Nat))
  BY <1>1, WFMin
<1>3. \A y \in S : ~(y < x)
  BY <1>2 DEF OpToRel
<1> QED
  BY <1>3

\* A key has a position below the number of keys, and the order of positions
\* is that of the keys.
LEMMA Positions ==
    ASSUME NEW S \in SUBSET Nat, IsFiniteSet(S)
    PROVE  /\ Cardinality(S) \in Nat
           /\ \A k \in S : Position(S, k) \in Nat /\ Position(S, k) < Cardinality(S)
           /\ \A j, k \in S : j < k => Position(S, j) < Position(S, k)
<1> DEFINE Before(k) == {j \in S : j < k}
<1>1. \A k : IsFiniteSet(Before(k)) /\ Cardinality(Before(k)) \in Nat /\ Position(S, k) = Cardinality(Before(k))
  <2>1. \A k : Before(k) \subseteq S
    OBVIOUS
  <2> QED
    BY <2>1, FS_Subset, FS_CardinalityType DEF Position
<1>2. Cardinality(S) \in Nat
  BY FS_CardinalityType
<1>3. ASSUME NEW k \in S, NEW B, B \subseteq S, IsFiniteSet(B), Before(k) \subseteq B, k \in B
      PROVE  Cardinality(Before(k)) < Cardinality(B)
  <2>1. PICK A : A = Before(k) \cup {k}
    OBVIOUS
  <2>2. k \notin Before(k)
    OBVIOUS
  <2>3. Cardinality(A) = Cardinality(Before(k)) + 1
    BY <1>1, <2>1, <2>2, FS_AddElement
  <2>4. A \subseteq B
    BY <1>3, <2>1
  <2>5. Cardinality(A) <= Cardinality(B) /\ Cardinality(B) \in Nat
    BY <1>3, <2>4, FS_Subset, FS_CardinalityType
  <2> QED
    BY <1>1, <2>3, <2>5
<1>4. ASSUME NEW k \in S PROVE Position(S, k) < Cardinality(S)
  <2>1. Before(k) \subseteq S
    OBVIOUS
  <2> QED
    BY <1>1, <1>3, <2>1
<1>5. ASSUME NEW j \in S, NEW k \in S, j < k PROVE Position(S, j) < Position(S, k)
  <2>1. \A i \in S : i < j => i < k
    <3> SUFFICES ASSUME NEW i \in S, i < j PROVE i < k
      OBVIOUS
    <3>1. i \in Nat /\ j \in Nat /\ k \in Nat
      OBVIOUS
    <3> QED
      BY <1>5, <3>1
  <2>2. Before(j) \subseteq Before(k) /\ j \in Before(k) /\ Before(k) \subseteq S
    BY <1>5, <2>1
  <2> QED
    BY <1>1, <1>3, <2>2
<1> QED
  BY <1>1, <1>2, <1>4, <1>5

\* The position of a key does not go down when keys are added.
LEMMA PositionGrows ==
    ASSUME NEW S, NEW T, IsFiniteSet(T), S \subseteq T, NEW k
    PROVE  /\ Position(S, k) \in Nat /\ Position(T, k) \in Nat
           /\ Position(S, k) <= Position(T, k)
<1>1. PICK A, B : A = {j \in S : j < k} /\ B = {j \in T : j < k}
  OBVIOUS
<1>2. A \subseteq B /\ B \subseteq T
  BY <1>1
<1>3. IsFiniteSet(B) /\ IsFiniteSet(A) /\ Cardinality(A) <= Cardinality(B)
  BY <1>2, FS_Subset
<1> QED
  BY <1>1, <1>3, FS_CardinalityType DEF Position

\* A function on 1 .. n is a sequence of its values.
LEMMA ItsOwnValues ==
    ASSUME NEW n \in Nat, NEW f, f = [i \in 1 .. n |-> f[i]]
    PROVE  /\ f \in Seq(Range(f)) /\ Len(f) = n
           /\ \A x \in Range(f) : \E i \in 1 .. n : x = f[i]
           /\ \A i \in 1 .. n : f[i] \in Range(f)
<1>1. Range(f) = {f[i] : i \in 1 .. n}
  BY DEF Range
<1>2. f \in [1 .. n -> Range(f)]
  BY <1>1
<1>3. f \in Seq(Range(f)) /\ Len(f) = n
  BY <1>2
<1> QED
  BY <1>1, <1>3

\* std::sort rearranges, and puts in order.
LEMMA SortKeeps ==
    ASSUME NEW s, s \in Seq(Range(s)), NEW column, NEW down, NEW t \in Sorts(s, column, down)
    PROVE  /\ t \in Seq(Range(t)) /\ Len(t) = Len(s) /\ Range(t) = Range(s)
           /\ \A i, j \in 1 .. Len(t) : i < j => IF down THEN t[i][column] >= t[j][column]
                                                       ELSE t[i][column] <= t[j][column]
<1>1. PICK n \in Nat : n = Len(s) /\ DOMAIN s = 1 .. n
  OBVIOUS
<1>2. PICK p \in [1 .. n -> 1 .. n] :
        /\ Range(p) = 1 .. n /\ t = [i \in 1 .. n |-> s[p[i]]]
        /\ \A i, j \in 1 .. n : i < j => IF down THEN t[i][column] >= t[j][column]
                                               ELSE t[i][column] <= t[j][column]
  BY <1>1 DEF Sorts
<1>3. t \in Seq(Range(t)) /\ Len(t) = n
  BY <1>2, ItsOwnValues
<1>4. \A x : x \in Range(t) <=> x \in Range(s)
  <2>1. ASSUME NEW x \in Range(s) PROVE x \in Range(t)
    <3>1. PICK i \in 1 .. n : x = s[i]
      BY <1>1, <2>1 DEF Range
    <3>2. PICK j \in 1 .. n : p[j] = i
      BY <1>2, <3>1 DEF Range
    <3> QED
      BY <1>2, <3>1, <3>2 DEF Range
  <2>2. ASSUME NEW x \in Range(t) PROVE x \in Range(s)
    <3>1. PICK j \in 1 .. n : x = s[p[j]]
      BY <1>2, <2>2 DEF Range
    <3> QED
      BY <1>1, <1>2, <3>1 DEF Range
  <2> QED
    BY <2>1, <2>2
<1> QED
  BY <1>1, <1>2, <1>3, <1>4

\* std::unique leaves somebody of every identifier: going back from an element
\* over equals one comes to a kept one.
LEMMA UniqueKeeps ==
    ASSUME NEW s, s \in Seq(Range(s))
    PROVE  /\ Unique(s) \in Seq(Range(Unique(s)))
           /\ \A a \in Range(s) : \E b \in Range(Unique(s)) : b.id = a.id
<1>1. PICK n \in Nat : n = Len(s) /\ DOMAIN s = 1 .. n
  OBVIOUS
<1>2. PICK left : left = Kept(s)
  OBVIOUS
<1>3. left \in SUBSET Nat /\ IsFiniteSet(left) /\ Cardinality(left) \in Nat
  <2>1. IsFiniteSet(1 .. n) /\ left \subseteq 1 .. n
    BY <1>1, <1>2, FS_Interval DEF Kept
  <2>2. 1 .. n \subseteq Nat
    OBVIOUS
  <2>3. IsFiniteSet(left)
    BY <2>1, FS_Subset
  <2> QED
    BY <2>1, <2>2, <2>3, FS_CardinalityType
<1>4. PICK u : u = [m \in 1 .. Cardinality(left) |-> s[At(left, m - 1)]] /\ u = Unique(s)
  BY <1>2 DEF Unique
<1>5. u \in Seq(Range(u))
  BY <1>3, <1>4, ItsOwnValues
<1>6. ASSUME NEW i \in left PROVE s[i] \in Range(u)
  <2>1. PICK m \in Nat : m = Position(left, i) /\ m + 1 \in 1 .. Cardinality(left)
    BY <1>3, Positions
  <2>2. \A j \in left : Position(left, j) = m => j = i
    <3> SUFFICES ASSUME NEW j \in left, Position(left, j) = m PROVE j = i
      OBVIOUS
    <3>1. i \in Nat /\ j \in Nat /\ ~(i < j) /\ ~(j < i)
      BY <1>3, <2>1, Positions
    <3> QED
      BY <3>1
  <2>3. At(left, m) = i
    BY <2>1, <2>2, Zenon DEF At
  <2>4. (m + 1) - 1 = m
    OBVIOUS
  <2>5. u[m + 1] = s[i] /\ m + 1 \in DOMAIN u
    BY <1>4, <2>1, <2>3, <2>4
  <2> QED
    BY <2>5 DEF Range
<1>7. ASSUME NEW a \in Range(s), \A b \in Range(u) : b.id # a.id PROVE FALSE
  <2>1. PICK bad : bad = {i \in 1 .. n : s[i].id = a.id}
    OBVIOUS
  <2>2. bad \in SUBSET Nat /\ bad # {}
    BY <1>1, <1>7, <2>1 DEF Range
  <2>3. PICK i \in bad : \A j \in bad : i <= j
    BY <2>2, LeastNumber
  <2>4. i \in 1 .. n /\ s[i].id = a.id /\ i \notin left
    BY <1>6, <1>7, <2>1, <2>3
  <2>5. i > 1 /\ Same(s[i - 1], s[i])
    BY <1>1, <1>2, <2>4 DEF Kept
  <2>6. i - 1 \in bad
    BY <2>1, <2>4, <2>5 DEF Same
  <2> QED
    BY <2>3, <2>4, <2>6
<1> QED
  BY <1>4, <1>5, <1>7

\* The enumeration has still to come to the key of a program.
Waiting(a) ==
    \E v \in 1 .. Views : \E k \in registry[v] :
      /\ Program[v][k] = a
      /\ v > view \/ (v = view /\ Position(registry[v], k) >= index)

\* Until a key is lost, what was there at the start is read or waits.
NobodyPassed == view # 0 /\ ~disturbed => \A a \in since : a.name > 0 => a \in Range(out) \/ Waiting(a)

UninstallInv ==
    /\ registry \in [1 .. Views -> SUBSET Keys]
    /\ view \in 0 .. Views + 1 /\ index \in Nat
    /\ since \subseteq Application
    /\ out \in Seq(Range(out)) /\ allApps \in Seq(Range(allApps))
    /\ view # 0 => step = "none"
    /\ NobodyPassed
    /\ ListIsComplete

\* A key of a view has a position, which no other key has.
LEMMA KeysStand ==
    ASSUME UninstallInv, NEW v \in 1 .. Views
    PROVE  /\ Cardinality(registry[v]) \in Nat
           /\ \A k \in registry[v] : /\ Program[v][k] \in Application
                                     /\ Position(registry[v], k) \in Nat
                                     /\ Position(registry[v], k) < Cardinality(registry[v])
           /\ \A j, k \in registry[v] : Position(registry[v], j) = Position(registry[v], k) => j = k
<1>1. registry[v] \subseteq Keys
  BY DEF UninstallInv
<1>2. registry[v] \in SUBSET Nat /\ IsFiniteSet(registry[v])
  BY <1>1, RegistryAssumption, FS_Subset
<1>3. ASSUME NEW j \in registry[v], NEW k \in registry[v],
             Position(registry[v], j) = Position(registry[v], k)
      PROVE  j = k
  <2>1. j \in Nat /\ k \in Nat
    BY <1>2
  <2>2. ~(j < k) /\ ~(k < j)
    BY <1>2, <1>3, Positions
  <2> QED
    BY <2>1, <2>2
<1>4. \A k \in registry[v] : Program[v][k] \in Application
  BY <1>1, RegistryAssumption
<1> QED
  BY <1>2, <1>3, <1>4, Positions

\* The list the page shows is a sorted copy: what Resort makes of any list.
LEMMA Resorted ==
    ASSUME NEW apps, apps \in Seq(Range(apps)), NEW key, NEW down, NEW t \in Sorts(apps, key, down)
    PROVE  /\ Range(t) = Range(apps) /\ Len(t) = Len(apps)
           /\ \A i \in 1 .. Len(t) - 1 : IF down THEN t[i][key] >= t[i + 1][key]
                                                 ELSE t[i][key] <= t[i + 1][key]
<1>1. Len(t) \in Nat /\ Len(t) = Len(apps) /\ Range(t) = Range(apps)
  BY SortKeeps
<1>2. ASSUME NEW i \in 1 .. Len(t) - 1
      PROVE  IF down THEN t[i][key] >= t[i + 1][key] ELSE t[i][key] <= t[i + 1][key]
  <2>1. PICK j \in 1 .. Len(t) : j = i + 1 /\ i < j /\ i \in 1 .. Len(t)
    BY <1>1
  <2> QED
    BY <2>1, SortKeeps
<1> QED
  BY <1>1, <1>2

\* A sequence of its own values stays one when something is appended.
LEMMA Appended ==
    ASSUME NEW s, s \in Seq(Range(s)), NEW x
    PROVE  /\ Append(s, x) \in Seq(Range(Append(s, x)))
           /\ Range(s) \subseteq Range(Append(s, x)) /\ x \in Range(Append(s, x))
<1>1. PICK n \in Nat : n = Len(s) /\ DOMAIN s = 1 .. n
  OBVIOUS
<1>2. PICK t : t = Append(s, x)
  OBVIOUS
<1>3. t \in Seq(Range(s) \cup {x}) /\ Len(t) = n + 1
      /\ (\A i \in 1 .. n : t[i] = s[i]) /\ t[n + 1] = x
  BY <1>1, <1>2
<1>4. t = [i \in 1 .. n + 1 |-> t[i]] /\ n + 1 \in Nat
  BY <1>3
<1>5. t \in Seq(Range(t)) /\ \A i \in 1 .. n + 1 : t[i] \in Range(t)
  BY <1>4, ItsOwnValues
<1>6. Range(s) \subseteq Range(t)
  <2> SUFFICES ASSUME NEW y \in Range(s) PROVE y \in Range(t)
    OBVIOUS
  <2>1. PICK i \in 1 .. n : y = s[i]
    BY <1>1 DEF Range
  <2> QED
    BY <1>3, <1>5, <2>1
<1> QED
  BY <1>2, <1>3, <1>5, <1>6

\* At the start every program waits.
LEMMA EnumerateBeginsKeeps == UninstallInv /\ EnumerateBegins => UninstallInv'
<1> SUFFICES ASSUME UninstallInv, EnumerateBegins PROVE UninstallInv'
  OBVIOUS
<1>1. /\ registry' = registry /\ view' = 1 /\ index' = 0 /\ out' = <<>> /\ step' = "none"
      /\ allApps' = allApps /\ Views \in Nat
  BY RegistryAssumption DEF EnumerateBegins, page, running
<1>2. \A a \in since' : \E v \in 1 .. Views : \E k \in registry[v] : Program[v][k] = a
  BY DEF EnumerateBegins, Installed
<1>3. since' \subseteq Application
  BY <1>2, KeysStand
<1>4. ASSUME NEW a \in since' PROVE Waiting(a)'
  <2>1. PICK v, k : v \in 1 .. Views /\ k \in registry[v] /\ Program[v][k] = a
    BY <1>2
  <2>2. v > 1 \/ (v = 1 /\ Position(registry[v], k) >= 0)
    BY <2>1, KeysStand
  <2> QED
    BY <1>1, <2>1, <2>2 DEF Waiting
<1>5. out' \in Seq(Range(out'))
  BY <1>1
<1>6. ListIsComplete'
  BY <1>1 DEF ListIsComplete
<1>7. NobodyPassed'
  BY <1>4 DEF NobodyPassed
<1> QED
  BY <1>1, <1>3, <1>5, <1>6, <1>7 DEF UninstallInv

\* The key that is read is the one at the index; the others wait on.
LEMMA EnumerateKeyKeeps == UninstallInv /\ EnumerateKey => UninstallInv'
<1> SUFFICES ASSUME UninstallInv, EnumerateKey PROVE UninstallInv'
  OBVIOUS
<1>1. /\ registry' = registry /\ view' = view /\ view \in 1 .. Views /\ index' = index + 1 /\ index \in Nat
      /\ since' = since /\ step' = step /\ allApps' = allApps
  BY DEF EnumerateKey, page, running, UninstallInv
<1>2. PICK k \in registry[view] :
        /\ Position(registry[view], k) = index
        /\ \/ /\ out' = IF Program[view][k].name = 0 THEN out ELSE Append(out, Program[view][k])
              /\ disturbed' = disturbed
           \/ out' = out /\ disturbed' = TRUE
  BY DEF EnumerateKey
<1>3. out \in Seq(Range(out))
  BY DEF UninstallInv
<1>4. PICK p \in Application : p = Program[view][k]
  BY <1>1, <1>2, KeysStand
<1>5. /\ Append(out, p) \in Seq(Range(Append(out, p)))
      /\ Range(out) \subseteq Range(Append(out, p)) /\ p \in Range(Append(out, p))
  BY <1>3, Appended
<1>6. out' \in Seq(Range(out')) /\ Range(out) \subseteq Range(out')
      /\ (~disturbed' => ~disturbed /\ (p.name = 0 \/ p \in Range(out')))
  <2>1. CASE out' = out /\ disturbed' = TRUE
    BY <1>3, <2>1
  <2>2. CASE out' = out /\ p.name = 0 /\ disturbed' = disturbed
    BY <1>3, <2>2
  <2>3. CASE out' = Append(out, p) /\ disturbed' = disturbed
    BY <1>5, <2>3
  <2> QED
    BY <1>2, <1>4, <2>1, <2>2, <2>3
<1>7. ASSUME ~disturbed', NEW a \in since, a.name > 0 PROVE a \in Range(out') \/ Waiting(a)'
  <2>1. CASE a \in Range(out)
    BY <1>6, <2>1
  <2>2. CASE a \notin Range(out)
    <3>1. PICK v, j :
            /\ v \in 1 .. Views /\ j \in registry[v]
            /\ Program[v][j] = a
            /\ v > view \/ (v = view /\ Position(registry[v], j) >= index)
      BY <1>1, <1>6, <1>7, <2>2 DEF UninstallInv, NobodyPassed, Waiting
    <3>2. CASE v > view \/ (v = view /\ Position(registry[v], j) # index)
      <4>1. Position(registry[v], j) \in Nat
        BY <3>1, KeysStand
      <4>2. v > view \/ (v = view /\ Position(registry[v], j) >= index + 1)
        BY <1>1, <3>1, <3>2, <4>1
      <4> QED
        BY <1>1, <3>1, <4>2 DEF Waiting
    <3>3. CASE v = view /\ Position(registry[v], j) = index
      <4>1. j = k
        BY <1>1, <1>2, <3>1, <3>3, KeysStand
      <4>2. a = p /\ p.name # 0
        BY <1>4, <1>7, <3>1, <3>3, <4>1
      <4> QED
        BY <1>6, <1>7, <4>2
    <3> QED
      BY <3>1, <3>2, <3>3
  <2> QED
    BY <2>1, <2>2
<1>8. NobodyPassed'
  BY <1>1, <1>7 DEF NobodyPassed
<1>9. ListIsComplete'
  BY <1>1 DEF ListIsComplete
<1> QED
  BY <1>1, <1>6, <1>8, <1>9 DEF UninstallInv

\* Positions are below the number of keys: nobody waits in the view that ends.
LEMMA EnumerateViewKeeps == UninstallInv /\ EnumerateView => UninstallInv'
<1> SUFFICES ASSUME UninstallInv, EnumerateView PROVE UninstallInv'
  OBVIOUS
<1>1. /\ registry' = registry /\ view' = view + 1 /\ view \in 1 .. Views /\ index' = 0
      /\ index >= Cardinality(registry[view]) /\ index \in Nat /\ out' = out /\ disturbed' = disturbed
      /\ since' = since /\ step' = step /\ allApps' = allApps /\ Views \in Nat
  BY RegistryAssumption DEF EnumerateView, page, running, UninstallInv
<1>2. ASSUME NEW a, Waiting(a) PROVE Waiting(a)'
  <2>1. PICK v, k :
          /\ v \in 1 .. Views /\ k \in registry[v]
          /\ Program[v][k] = a
          /\ v > view \/ (v = view /\ Position(registry[v], k) >= index)
    BY <1>2 DEF Waiting
  <2>2. Cardinality(registry[v]) \in Nat /\ Position(registry[v], k) \in Nat
        /\ Position(registry[v], k) < Cardinality(registry[v])
    BY <2>1, KeysStand
  <2>3. v > view
    BY <1>1, <2>1, <2>2
  <2>4. v > view + 1 \/ (v = view + 1 /\ Position(registry[v], k) >= 0)
    BY <1>1, <2>1, <2>2, <2>3
  <2> QED
    BY <1>1, <2>1, <2>4 DEF Waiting
<1>3. NobodyPassed'
  BY <1>1, <1>2 DEF NobodyPassed, UninstallInv
<1>4. ListIsComplete'
  BY <1>1 DEF ListIsComplete
<1> QED
  BY <1>1, <1>3, <1>4 DEF UninstallInv

\* After the last view nobody waits; sorting and joining lose no identifier.
LEMMA EnumerateEndsKeeps == UninstallInv /\ EnumerateEnds => UninstallInv'
<1> SUFFICES ASSUME UninstallInv, EnumerateEnds PROVE UninstallInv'
  OBVIOUS
<1>1. /\ registry' = registry /\ view' = 0 /\ view = Views + 1 /\ index' = index /\ out' = out
      /\ since' = since /\ disturbed' = disturbed /\ sortKey' = sortKey /\ descending' = descending
      /\ visibleApps' \in Sorts(allApps', sortKey', descending') /\ Views \in Nat
  BY RegistryAssumption DEF EnumerateEnds, Resort
<1>2. PICK sorted \in Sorts(out, "name", FALSE) : allApps' = Unique(sorted)
  BY DEF EnumerateEnds
<1>3. sorted \in Seq(Range(sorted)) /\ Range(sorted) = Range(out)
  BY <1>2, SortKeeps DEF UninstallInv
<1>4. /\ allApps' \in Seq(Range(allApps'))
      /\ \A a \in Range(out) : \E b \in Range(allApps') : b.id = a.id
  BY <1>2, <1>3, UniqueKeeps
<1>5. /\ Range(visibleApps') = Range(allApps') /\ Len(visibleApps') = Len(allApps')
      /\ \A i \in 1 .. Len(visibleApps') - 1 :
           IF descending' THEN visibleApps'[i][sortKey'] >= visibleApps'[i + 1][sortKey']
                          ELSE visibleApps'[i][sortKey'] <= visibleApps'[i + 1][sortKey']
  BY <1>1, <1>4, Resorted
<1>6. \A a : ~Waiting(a)
  BY <1>1 DEF Waiting
<1>7. ~disturbed => \A a \in since : a.name > 0 => a \in Range(out)
  BY <1>1, <1>6 DEF UninstallInv, NobodyPassed
<1>8. ~disturbed' => {a.id : a \in {b \in since' : b.name > 0}} \subseteq {a.id : a \in Range(visibleApps')}
  <2> SUFFICES ASSUME ~disturbed, NEW a \in since, a.name > 0
               PROVE  \E b \in Range(visibleApps') : a.id = b.id
    BY <1>1
  <2> QED
    BY <1>4, <1>5, <1>7
<1>9. ListIsComplete'
  BY <1>5, <1>8 DEF ListIsComplete
<1>10. NobodyPassed'
  BY <1>1 DEF NobodyPassed
<1> QED
  BY <1>1, <1>4, <1>9, <1>10 DEF UninstallInv

\* A new order shows the same programs.
LEMMA SetSortKeeps ==
    ASSUME UninstallInv, NEW key, NEW down, SetSort(key, down)
    PROVE  UninstallInv'
<1>1. /\ registry' = registry /\ view' = view /\ view = 0 /\ index' = index /\ out' = out
      /\ since' = since /\ disturbed' = disturbed /\ allApps' = allApps
      /\ visibleApps' \in Sorts(allApps, sortKey', descending')
  BY DEF SetSort, Resort, listing, running
<1>2. /\ Range(visibleApps') = Range(allApps) /\ Len(visibleApps') = Len(allApps)
      /\ \A i \in 1 .. Len(visibleApps') - 1 :
           IF descending' THEN visibleApps'[i][sortKey'] >= visibleApps'[i + 1][sortKey']
                          ELSE visibleApps'[i][sortKey'] <= visibleApps'[i + 1][sortKey']
  BY <1>1, Resorted DEF UninstallInv
<1>3. Range(visibleApps) = Range(visibleApps')
  BY <1>1, <1>2 DEF UninstallInv, ListIsComplete
<1>4. ListIsComplete'
  BY <1>1, <1>2, <1>3 DEF ListIsComplete, UninstallInv
<1>5. NobodyPassed'
  BY <1>1 DEF NobodyPassed
<1> QED
  BY <1>1, <1>4, <1>5 DEF UninstallInv

\* A key that is added moves others up, never below the index.
LEMMA KeyAppearsKeeps ==
    ASSUME UninstallInv, NEW v \in 1 .. Views, NEW k \in Keys, KeyAppears(v, k)
    PROVE  UninstallInv'
<1>1. /\ registry' = [registry EXCEPT ![v] = @ \cup {k}]
      /\ view' = view /\ index' = index /\ out' = out /\ since' = since /\ disturbed' = disturbed
      /\ allApps' = allApps /\ visibleApps' = visibleApps /\ sortKey' = sortKey
      /\ descending' = descending /\ step' = step
  BY DEF KeyAppears, listing, page, running
<1>2. registry' \in [1 .. Views -> SUBSET Keys]
  BY <1>1 DEF UninstallInv
<1>3. \A w \in 1 .. Views : registry[w] \subseteq registry'[w]
  BY <1>1 DEF UninstallInv
<1>4. ASSUME NEW a, Waiting(a) PROVE Waiting(a)'
  <2>1. PICK w, j :
          /\ w \in 1 .. Views /\ j \in registry[w]
          /\ Program[w][j] = a
          /\ w > view \/ (w = view /\ Position(registry[w], j) >= index)
    BY <1>4 DEF Waiting
  <2>2. IsFiniteSet(registry'[w])
    BY <1>2, <2>1, RegistryAssumption, FS_Subset
  <2>3. /\ Position(registry[w], j) \in Nat /\ Position(registry'[w], j) \in Nat
        /\ Position(registry[w], j) <= Position(registry'[w], j)
    BY <1>3, <2>1, <2>2, PositionGrows
  <2>4. w > view \/ (w = view /\ Position(registry'[w], j) >= index)
    BY <2>1, <2>3 DEF UninstallInv
  <2>5. j \in registry'[w]
    BY <1>3, <2>1
  <2> QED
    BY <1>1, <2>1, <2>4, <2>5 DEF Waiting
<1>5. NobodyPassed'
  BY <1>1, <1>4 DEF NobodyPassed, UninstallInv
<1>6. ListIsComplete'
  BY <1>1 DEF ListIsComplete, UninstallInv
<1> QED
  BY <1>1, <1>2, <1>5, <1>6 DEF UninstallInv

\* Every program that was there when the enumeration began is shown, unless a
\* key went away or could not be read meanwhile; and what is shown is the
\* list, in the order the user asked for. Installers may add keys to any view
\* between any two calls of RegEnumKeyEx.
THEOREM ListsAreComplete == UninstallSpec => []ListIsComplete
<1>1. UninstallInit => UninstallInv
  <2> SUFFICES ASSUME UninstallInit PROVE UninstallInv
    OBVIOUS
  <2>1. registry \in [1 .. Views -> SUBSET Keys] /\ Views \in Nat
    BY RegistryAssumption DEF UninstallInit
  <2>2. out \in Seq(Range(out)) /\ allApps \in Seq(Range(allApps))
    BY DEF UninstallInit
  <2>3. ListIsComplete
    BY DEF UninstallInit, ListIsComplete
  <2> QED
    BY <2>1, <2>2, <2>3 DEF UninstallInit, UninstallInv, NobodyPassed
<1>2. UninstallInv /\ [UninstallNext]_<<uninstallVars, journalVars>> => UninstallInv'
  <2> SUFFICES ASSUME UninstallInv, [UninstallNext]_<<uninstallVars, journalVars>> PROVE UninstallInv'
    OBVIOUS
  <2>1. CASE UNCHANGED uninstallVars
    BY <2>1 DEF uninstallVars, UninstallInv, NobodyPassed, Waiting, ListIsComplete
  <2>2. CASE view = 0 /\ view' = 0 /\ UNCHANGED <<index, out, since, page>>
             /\ UNCHANGED disturbed /\ registry' \in [1 .. Views -> SUBSET Keys]
    <3>1. ListIsComplete'
      BY <2>2 DEF page, UninstallInv, ListIsComplete
    <3> QED
      BY <2>2, <3>1 DEF page, UninstallInv, NobodyPassed
  <2>3. ASSUME NEW v \in 1 .. Views, NEW k \in Keys, KeyDisappears(v, k) PROVE UninstallInv'
    BY <2>3 DEF KeyDisappears, page, running, UninstallInv, NobodyPassed, ListIsComplete
  <2>4. ASSUME NEW app, NEW force, Perform(app, force) PROVE UninstallInv'
    BY <2>2, <2>4 DEF Perform, listing, UninstallInv
  <2>5. CASE Invoke \/ UninstallReturns
    BY <2>2, <2>5 DEF Invoke, UninstallReturns, listing, UninstallInv
  <2>6. ASSUME NEW v \in 1 .. Views, NEW k \in Keys, Uninstalls(v, k) PROVE UninstallInv'
    BY <2>2, <2>6 DEF Uninstalls, listing, running, UninstallInv
  <2> QED
    BY <2>1, <2>3, <2>4, <2>5, <2>6, EnumerateBeginsKeeps, EnumerateKeyKeeps, EnumerateViewKeeps,
       EnumerateEndsKeeps, SetSortKeeps, KeyAppearsKeeps DEF UninstallNext, uninstallVars
<1>3. UninstallInv => ListIsComplete
  BY DEF UninstallInv
<1> QED
  BY <1>1, <1>2, <1>3, PTL DEF UninstallSpec

-----------------------------------------------------------------------------
(* The report of a cleaner                                                 *)

\* A path lies at or below another if it begins with it.
LEMMA Begins ==
    ASSUME NEW s \in Seq(STRING), NEW t \in Seq(STRING)
    PROVE  IsPrefix(s, t) <=> Len(s) <= Len(t) /\ \A i \in 1 .. Len(s) : s[i] = t[i]
<1>1. Len(s) \in Nat /\ Len(t) \in Nat
  OBVIOUS
<1>2. PICK a : a = SubSeq(s, 1, Len(s)) /\ a = [i \in 1 .. Len(s) |-> s[i]]
  OBVIOUS
<1>3. ASSUME Len(s) <= Len(t)
      PROVE  SubSeq(t, 1, Len(s)) = [i \in 1 .. Len(s) |-> t[i]]
  BY <1>1, <1>3
<1>4. CASE Len(s) <= Len(t)
  <2>1. PICK b : b = SubSeq(t, 1, Len(s)) /\ b = [i \in 1 .. Len(s) |-> t[i]]
    BY <1>3, <1>4
  <2>2. a = b <=> \A i \in 1 .. Len(s) : s[i] = t[i]
    BY <1>2, <2>1
  <2> QED
    BY <1>2, <1>4, <2>1, <2>2 DEF IsPrefix
<1>5. CASE ~(Len(s) <= Len(t))
  BY <1>5 DEF IsPrefix
<1> QED
  BY <1>4, <1>5

LEMMA BeginsItself == ASSUME NEW s \in Seq(STRING) PROVE IsPrefix(s, s)
  BY DEF IsPrefix

LEMMA BeginsThrough ==
    ASSUME NEW s \in Seq(STRING), NEW t \in Seq(STRING), NEW u \in Seq(STRING),
           IsPrefix(s, t), IsPrefix(t, u)
    PROVE  IsPrefix(s, u)
<1>1. Len(s) <= Len(t) /\ \A i \in 1 .. Len(s) : s[i] = t[i]
  BY Begins
<1>2. Len(t) <= Len(u) /\ \A i \in 1 .. Len(t) : t[i] = u[i]
  BY Begins
<1>3. Len(s) <= Len(u) /\ \A i \in 1 .. Len(s) : s[i] = u[i]
  BY <1>1, <1>2
<1> QED
  BY <1>3, Begins

\* Of two paths that another begins with, one begins with the other.
LEMMA BothBegin ==
    ASSUME NEW s \in Seq(STRING), NEW t \in Seq(STRING), NEW u \in Seq(STRING),
           IsPrefix(s, u), IsPrefix(t, u)
    PROVE  IsPrefix(s, t) \/ IsPrefix(t, s)
<1>1. Len(s) <= Len(u) /\ \A i \in 1 .. Len(s) : s[i] = u[i]
  BY Begins
<1>2. Len(t) <= Len(u) /\ \A i \in 1 .. Len(t) : t[i] = u[i]
  BY Begins
<1>3. CASE Len(s) <= Len(t)
  <2>1. \A i \in 1 .. Len(s) : s[i] = t[i]
    BY <1>1, <1>2, <1>3
  <2> QED
    BY <1>3, <2>1, Begins
<1>4. CASE Len(t) <= Len(s)
  <2>1. \A i \in 1 .. Len(t) : t[i] = s[i]
    BY <1>1, <1>2, <1>4
  <2> QED
    BY <1>4, <2>1, Begins
<1> QED
  BY <1>3, <1>4

LEMMA BeginsAlike ==
    ASSUME NEW s \in Seq(STRING), NEW t \in Seq(STRING), IsPrefix(s, t),
           IsPrefix(t, s) \/ Len(s) = Len(t)
    PROVE  s = t
<1>1. Len(s) <= Len(t) /\ \A i \in 1 .. Len(s) : s[i] = t[i]
  BY Begins
<1>2. Len(t) = Len(s)
  BY <1>1, Begins
<1> QED
  BY <1>1, <1>2

\* Counting modulo 2^64 as one goes is counting modulo 2^64 in the end.
LEMMA AddsUp ==
    ASSUME NEW a \in Nat, NEW b \in Nat
    PROVE  ((a % Modulus) + b) % Modulus = (a + b) % Modulus
<1>1. Modulus \in Nat \ {0}
  BY TreeAssumption
<1>2. \A x \in Nat : /\ x \div Modulus \in Nat /\ x % Modulus \in 0 .. Modulus - 1
                     /\ x = (x \div Modulus) * Modulus + (x % Modulus)
  BY <1>1
<1>3. \A h \in Nat, m \in 0 .. Modulus - 1 : (h * Modulus + m) % Modulus = m
  BY <1>1
<1>4. \A x \in Nat : \E q \in Nat, r \in 0 .. Modulus - 1 : r = x % Modulus /\ x = q * Modulus + r
  BY <1>2, Zenon
<1>5. PICK q \in Nat, r \in 0 .. Modulus - 1 : r = a % Modulus /\ a = q * Modulus + r
  BY <1>4, Zenon
<1>6. PICK c \in Nat : c = r + b
  BY <1>1
<1>6a. PICK p \in Nat, m \in 0 .. Modulus - 1 : m = c % Modulus /\ c = p * Modulus + m
  BY <1>4, Zenon
<1>7. a + b = (q + p) * Modulus + m
  <2>1. PICK M \in Nat : M = Modulus
    BY <1>1
  <2>2. (q + p) * M = q * M + p * M
    BY SMT
  <2>3. PICK x \in Nat, y \in Nat : x = q * M /\ y = p * M
    BY SMT
  <2>4. a = x + r /\ r + b = y + m /\ (q + p) * Modulus = x + y
    BY <1>5, <1>6, <1>6a, <2>1, <2>2, <2>3
  <2> QED
    BY <1>1, <2>4
<1>8. q + p \in Nat
  OBVIOUS
<1>9. (a + b) % Modulus = m
  BY <1>3, <1>7, <1>8
<1> QED
  BY <1>5, <1>6, <1>9, <1>6a

LEMMA SmallNumber ==
    ASSUME NEW a \in Nat, a < Modulus
    PROVE  a % Modulus = a
  BY TreeAssumption

LEMMA OnePart ==
    ASSUME NEW x, NEW n \in Nat
    PROVE  IsFiniteSet({x} \X (1 .. n)) /\ Cardinality({x} \X (1 .. n)) = n
<1>1. IsFiniteSet({x}) /\ Cardinality({x}) = 1
  BY FS_Singleton
<1>2. IsFiniteSet(1 .. n) /\ Cardinality(1 .. n) = n
  <2>1. 1 \in Int /\ n \in Int
    OBVIOUS
  <2>2. IsFiniteSet(1 .. n) /\ Cardinality(1 .. n) = IF 1 > n THEN 0 ELSE n - 1 + 1
    BY <2>1, FS_Interval
  <2> QED
    BY <2>2
<1>3. IsFiniteSet({x} \X (1 .. n)) /\ Cardinality({x} \X (1 .. n)) = Cardinality({x}) * Cardinality(1 .. n)
  BY <1>1, <1>2, FS_Product
<1>4. PICK c, d, e : c = Cardinality({x}) /\ d = Cardinality(1 .. n) /\ e = Cardinality({x} \X (1 .. n))
  OBVIOUS
<1>5. e = 1 * n
  BY <1>1, <1>2, <1>3, <1>4, Zenon
<1>6. e = n
  BY <1>5
<1> QED
  BY <1>3, <1>4, <1>6

\* One part more.
LEMMA OneMore ==
    ASSUME NEW A, IsFiniteSet(A), NEW x, NEW n \in Nat, A \cap ({x} \X (1 .. n)) = {}
    PROVE  Cardinality(A \cup ({x} \X (1 .. n))) = Cardinality(A) + n
<1>1. PICK B : B = {x} \X (1 .. n)
  OBVIOUS
<1>2. IsFiniteSet(B) /\ Cardinality(B) = n
  BY <1>1, OnePart
<1>3. Cardinality(A) \in Nat /\ Cardinality(A \cap B) = 0
  BY <1>1, FS_CardinalityType, FS_EmptySet
<1>4. Cardinality(A \cup B) = Cardinality(A) + Cardinality(B) - Cardinality(A \cap B)
  BY <1>2, FS_Union
<1>5. Cardinality(A \cup B) = Cardinality(A) + n
  BY <1>2, <1>3, <1>4
<1> QED
  BY <1>1, <1>5

\* The bytes of some things, each with as many as a function says.
Parts(S, n) == UNION {{x} \X (1 .. n[x]) : x \in S}

LEMMA PartOf ==
    ASSUME NEW S, NEW n, NEW x \in S, NEW y, y \in {x} \X (1 .. n[x])
    PROVE  y \in Parts(S, n)
  BY DEF Parts

LEMMA PartIn ==
    ASSUME NEW S, NEW n, NEW y \in Parts(S, n)
    PROVE  \E x \in S : y \in {x} \X (1 .. n[x])
  BY DEF Parts

LEMMA PartsAreFinite ==
    ASSUME NEW S, IsFiniteSet(S), NEW n, \A x \in S : n[x] \in Nat
    PROVE  IsFiniteSet(Parts(S, n)) /\ Cardinality(Parts(S, n)) \in Nat
<1>1. PICK parts : parts = {{x} \X (1 .. n[x]) : x \in S}
  OBVIOUS
<1>2. PICK g : g = [x \in S |-> {x} \X (1 .. n[x])]
  OBVIOUS
<1>3. g \in Surjection(S, parts)
  BY <1>1, <1>2 DEF Surjection
<1>4. IsFiniteSet(parts)
  BY <1>3, FS_Surjection
<1>5. \A x \in S : IsFiniteSet({x} \X (1 .. n[x]))
  BY OnePart
<1>6. IsFiniteSet(UNION parts)
  BY <1>1, <1>4, <1>5, FS_UNION
<1> QED
  BY <1>1, <1>6, FS_CardinalityType DEF Parts

LEMMA OnePartMore ==
    ASSUME NEW S, IsFiniteSet(S), NEW n, \A z \in S : n[z] \in Nat, NEW x, x \notin S, n[x] \in Nat
    PROVE  Cardinality(Parts(S \cup {x}, n)) = Cardinality(Parts(S, n)) + n[x]
<1>1. PICK A, B : A = Parts(S, n) /\ B = {x} \X (1 .. n[x])
  OBVIOUS
<1>2. A \cap B = {}
  BY <1>1, PartIn
<1>3. Parts(S \cup {x}, n) = A \cup B
  BY <1>1 DEF Parts
<1>4. IsFiniteSet(A)
  BY <1>1, PartsAreFinite
<1>5. Cardinality(A \cup B) = Cardinality(A) + n[x]
  BY <1>1, <1>2, <1>4, OneMore
<1> QED
  BY <1>1, <1>3, <1>5

LEMMA NoParts == ASSUME NEW n PROVE Cardinality(Parts({}, n)) = 0
<1>1. Parts({}, n) = {}
  BY DEF Parts
<1> QED
  BY <1>1, FS_EmptySet

\* Counting bytes is to count parts.
LEMMA BytesAreParts == ASSUME NEW S PROVE BytesOf(S) = Cardinality(Parts(S, SizeOf))
  BY DEF BytesOf, Parts

LEMMA FilesAreFinite ==
    ASSUME NEW S \in SUBSET Regular
    PROVE  IsFiniteSet(S) /\ \A f \in S : SizeOf[f] \in Nat
  BY TreeAssumption, FS_Subset

LEMMA BytesFit ==
    ASSUME NEW S \in SUBSET Regular
    PROVE  BytesOf(S) \in Nat /\ BytesOf(S) < Modulus
<1>1. IsFiniteSet(Parts(S, SizeOf)) /\ BytesOf(S) \in Nat
  BY FilesAreFinite, PartsAreFinite, BytesAreParts
<1>2. IsFiniteSet(Parts(Regular, SizeOf)) /\ BytesOf(Regular) \in Nat
  BY FilesAreFinite, PartsAreFinite, BytesAreParts
<1>3. Parts(S, SizeOf) \subseteq Parts(Regular, SizeOf)
  BY DEF Parts
<1>4. BytesOf(S) <= BytesOf(Regular)
  BY <1>2, <1>3, FS_Subset, BytesAreParts
<1> QED
  BY <1>1, <1>2, <1>4, TreeAssumption

LEMMA BytesOfOneMore ==
    ASSUME NEW S \in SUBSET Regular, NEW f \in Regular, f \notin S
    PROVE  BytesOf(S \cup {f}) = BytesOf(S) + SizeOf[f]
<1>1. IsFiniteSet(S) /\ (\A g \in S : SizeOf[g] \in Nat) /\ SizeOf[f] \in Nat
  BY FilesAreFinite, TreeAssumption
<1> QED
  BY <1>1, OnePartMore, BytesAreParts

LEMMA BytesOfNone == BytesOf({}) = 0
  BY NoParts, BytesAreParts

LEMMA BytesOfOne == ASSUME NEW f \in Regular PROVE BytesOf({f}) = SizeOf[f]
<1>1. BytesOf({} \cup {f}) = BytesOf({}) + SizeOf[f]
  BY BytesOfOneMore
<1>2. SizeOf[f] \in Nat /\ {} \cup {f} = {f}
  BY TreeAssumption
<1> QED
  BY <1>1, <1>2, BytesOfNone

LEMMA NotNoBytes ==
    ASSUME NEW S \in SUBSET Regular, NEW f \in S, SizeOf[f] > 0
    PROVE  BytesOf(S) # 0
<1>1. SizeOf[f] \in Nat
  BY TreeAssumption
<1>2. <<f, 1>> \in {f} \X (1 .. SizeOf[f])
  BY <1>1
<1>3. <<f, 1>> \in Parts(S, SizeOf)
  BY <1>2, PartOf
<1>4. IsFiniteSet(Parts(S, SizeOf))
  BY FilesAreFinite, PartsAreFinite
<1> QED
  BY <1>3, <1>4, FS_EmptySet, BytesAreParts

-----------------------------------------------------------------------------
Candidate == [root : Nat, path : Seq(STRING), bytes : Nat]
ItsBytes  == [c \in Candidate |-> c.bytes]

\* A report that counts nothing twice for one root, and whose total is the bytes of its
\* candidates; with true sizes, when nothing has failed.
Adds(rep, true) ==
    /\ rep = [candidates |-> rep.candidates, total |-> rep.total]
    /\ rep.candidates \subseteq Candidate /\ IsFiniteSet(rep.candidates)
    /\ rep.total \in Nat
    /\ rep.total = Cardinality(Parts(rep.candidates, ItsBytes)) % Modulus
    /\ \A c, d \in rep.candidates : c # d /\ c.root = d.root => ~IsPrefix(c.path, d.path)
    /\ true => \A c \in rep.candidates : c.bytes = BytesOf(FilesOf(c.path))

\* The entries of a root that a cleaner looks for.
Wants(w, r) == {e \in Below(r) : w.deep \/ Len(e) = Len(r) + 1} \cap w.wanted

\* File f is one that cleaner w is for, on account of its n-th root.
MeantBy(w, n, f) ==
    \/ f = RootsOf[w.id][n] /\ w = CrashDump
    \/ \E e \in Wants(w, RootsOf[w.id][n]) : IsPrefix(e, f)

Covers(rep, n, f) == \E c \in rep.candidates : c.root = n /\ IsPrefix(c.path, f)

CleanersType ==
    /\ stage \in {"idle", "roots", "walk", "done", "threw"}
    /\ which \in BuiltIn \cup {ResidueScan}
    /\ nth \in 0 .. Len(RootsOf[which.id])
    /\ todo \in SUBSET Tree /\ errored \in BOOLEAN /\ failed \in BOOLEAN
    /\ sum \in Nat

Walking ==
    /\ errored => failed
    /\ stage \in {"roots", "done"} => todo = {}
    /\ stage = "done" => nth = Len(RootsOf[which.id])
    /\ stage = "walk" =>
         /\ nth > 0
         /\ todo \subseteq {e \in Below(RootsOf[which.id][nth]) :
                               which.deep \/ Len(e) = Len(RootsOf[which.id][nth]) + 1}

\* The roots of which something may have been reported.
Begun == IF stage = "walk" /\ which.per = "root" THEN nth - 1 ELSE nth

\* What is reported for a root is looked for there, and is not come to again in
\* the walk of that root.
Belongs ==
    /\ \A c \in report.candidates : c.root \in 1 .. Begun
    /\ \A c \in report.candidates : \A f \in FilesOf(c.path) : MeantBy(which, c.root, f)
    /\ \A c \in report.candidates, e \in todo :
         c.root = nth => ~IsPrefix(c.path, e) /\ ~IsPrefix(e, c.path)

\* The sum is that of the files the walk has come to.
Summed ==
    stage = "walk" /\ which.per = "root" =>
      /\ sum # 0 => RootsOf[which.id][nth] \notin Regular
      /\ ~failed => sum = BytesOf({f \in Regular : IsStrictPrefix(RootsOf[which.id][nth], f)} \ todo)

\* What a root has for the cleaner is reported or still to come.
ToCome(n, f) ==
    /\ stage = "walk" /\ n = nth
    /\ which.per = "root" \/ \E d \in todo \cap which.wanted : IsPrefix(d, f)

Complete ==
    ~failed => \A n \in 1 .. nth, f \in Regular :
                 MeantBy(which, n, f) /\ SizeOf[f] > 0 => Covers(report, n, f) \/ ToCome(n, f)

CleanersInv == CleanersType /\ Walking /\ Adds(report, ~failed) /\ Belongs /\ Summed /\ Complete

\* What the cleaners have in common.
LEMMA CleanerFacts ==
    ASSUME NEW w \in BuiltIn \cup {ResidueScan}
    PROVE  /\ w.wanted \subseteq Tree /\ w.per \in {"file", "root", "artifact", "entry"}
           /\ RootsOf[w.id] \in Seq(Seq(STRING)) /\ w.id \in DOMAIN RootsOf
           /\ w.per = "file" => w.wanted \subseteq Regular
           /\ w.per = "root" => w.wanted = Regular /\ w.deep
           /\ w.per = "entry" => ~w.deep
           /\ w = CrashDump => w.per = "file"
<1>1. w.id \in {c.id : c \in BuiltIn \cup {ResidueScan}}
  OBVIOUS
<1>2. RootsOf[w.id] \in Seq(Seq(STRING)) /\ w.id \in DOMAIN RootsOf
  BY <1>1, CleanersAssumption
<1>3. Regular \subseteq Tree /\ Dumps \subseteq Tree /\ Caches \subseteq Tree /\ Artifacts \subseteq Tree /\ Alike \subseteq Tree
  BY TreeAssumption, CleanersAssumption DEF Folders
<1>4. /\ w.wanted \subseteq Tree /\ w.per \in {"file", "root", "artifact", "entry"}
      /\ w.per = "file" => w.wanted \subseteq Regular
      /\ w.per = "root" => w.wanted = Regular /\ w.deep
      /\ w.per = "entry" => ~w.deep
  BY <1>3, CleanersAssumption
     DEF BuiltIn, Temp, BrowserCache, DevArtifact, RecycleBin, WindowsUpdate, ThumbnailCache, CrashDump, ResidueScan
<1>5. w = CrashDump => w.per = "file"
  BY DEF CrashDump
<1> QED
  BY <1>2, <1>4, <1>5

LEMMA RootFacts ==
    ASSUME NEW w \in BuiltIn \cup {ResidueScan}, NEW i \in 1 .. Len(RootsOf[w.id])
    PROVE  RootsOf[w.id][i] \in Seq(STRING)
<1>1. PICK q : q = RootsOf[w.id]
  OBVIOUS
<1>2. q \in Seq(Seq(STRING)) /\ i \in 1 .. Len(q)
  BY <1>1, CleanerFacts
<1>3. q[i] \in Seq(STRING)
  BY <1>2
<1> QED
  BY <1>1, <1>3

\* The files at or below a regular file are that file.
LEMMA OneFile == ASSUME NEW f \in Regular PROVE FilesOf(f) = {f}
<1>1. f \in Seq(STRING)
  BY TreeAssumption
<1>2. \A g \in Regular : IsPrefix(f, g) => g = f
  BY TreeAssumption DEF Below, IsStrictPrefix
<1> QED
  BY <1>1, <1>2, BeginsItself DEF FilesOf

\* A report stays in order when a path is added for a root, apart from the paths
\* that are there for the same root.
LEMMA OneMoreCandidate ==
    ASSUME NEW before \in BOOLEAN, NEW true \in BOOLEAN, Adds(report, before), true => before,
           NEW i \in Nat, NEW e \in Seq(STRING), NEW n \in Nat, true => n = BytesOf(FilesOf(e)),
           \A c \in report.candidates : c.root = i => ~IsPrefix(c.path, e) /\ ~IsPrefix(e, c.path)
    PROVE  Adds(Reported(i, e, n), true)
<1>1. PICK new : new = [root |-> i, path |-> e, bytes |-> n]
  OBVIOUS
<1>2. new \in Candidate /\ new.root = i /\ new.path = e /\ new.bytes = n /\ ItsBytes[new] = n
  BY <1>1 DEF Candidate, ItsBytes
<1>3. PICK C, t : C = report.candidates /\ t = report.total
  OBVIOUS
<1>4. C \subseteq Candidate /\ IsFiniteSet(C) /\ t \in Nat /\ t = Cardinality(Parts(C, ItsBytes)) % Modulus
  BY <1>3 DEF Adds
<1>5. new \notin C
  BY <1>2, <1>3, BeginsItself
<1>6. \A c \in C : ItsBytes[c] \in Nat
  BY <1>4 DEF ItsBytes, Candidate
<1>7. Cardinality(Parts(C \cup {new}, ItsBytes)) = Cardinality(Parts(C, ItsBytes)) + n
  BY <1>2, <1>4, <1>5, <1>6, OnePartMore
<1>8. Cardinality(Parts(C, ItsBytes)) \in Nat
  BY <1>4, <1>6, PartsAreFinite
<1>9. (t + n) % Modulus = Cardinality(Parts(C \cup {new}, ItsBytes)) % Modulus
  BY <1>4, <1>7, <1>8, AddsUp
<1>10. (t + n) % Modulus \in Nat
  BY <1>4, TreeAssumption
<1>11. PICK rep : rep = Reported(i, e, n)
  OBVIOUS
<1>12. rep = [candidates |-> C \cup {new}, total |-> (t + n) % Modulus]
  BY <1>1, <1>3, <1>11 DEF Reported
<1>13. rep.candidates = C \cup {new} /\ rep.total = (t + n) % Modulus
  BY <1>12
<1>14. IsFiniteSet(C \cup {new}) /\ C \cup {new} \subseteq Candidate
  BY <1>2, <1>4, FS_AddElement
<1>15. \A c, d \in C \cup {new} : c # d /\ c.root = d.root => ~IsPrefix(c.path, d.path)
  BY <1>2, <1>3 DEF Adds
<1>16. true => \A c \in C \cup {new} : c.bytes = BytesOf(FilesOf(c.path))
  BY <1>2, <1>3 DEF Adds
<1>17. Adds(rep, true)
  BY <1>9, <1>10, <1>12, <1>13, <1>14, <1>15, <1>16 DEF Adds
<1> QED
  BY <1>11, <1>17

LEMMA WhatIsReported ==
    ASSUME NEW i, NEW e, NEW n, NEW c
    PROVE  c \in Reported(i, e, n).candidates <=>
             c \in report.candidates \/ c = [root |-> i, path |-> e, bytes |-> n]
  BY DEF Reported

LEMMA CoversMore ==
    ASSUME NEW i, NEW e, NEW n, NEW m, NEW f
    PROVE  Covers(Reported(i, e, n), m, f) <=> Covers(report, m, f) \/ (m = i /\ IsPrefix(e, f))
<1>1. PICK new : new = [root |-> i, path |-> e, bytes |-> n]
  OBVIOUS
<1>2. new.root = i /\ new.path = e
  BY <1>1
<1>3. \A c : c \in Reported(i, e, n).candidates <=> c \in report.candidates \/ c = new
  BY <1>1, WhatIsReported
<1> QED
  BY <1>2, <1>3 DEF Covers

LEMMA FewerTrue ==
    ASSUME NEW rep, NEW before, NEW true, Adds(rep, before), true => before
    PROVE  Adds(rep, true)
  BY DEF Adds

\* The next entry of a walk.
LEMMA NextEntry ==
    ASSUME CleanersInv, stage = "walk", NEW e \in Frontier
    PROVE  /\ e \in todo /\ e \in Tree /\ e \in Seq(STRING) /\ nth \in 1 .. Len(RootsOf[which.id])
           /\ IsStrictPrefix(RootsOf[which.id][nth], e) /\ IsPrefix(RootsOf[which.id][nth], e)
           /\ which.deep \/ Len(e) = Len(RootsOf[which.id][nth]) + 1
           /\ \A d \in todo : d # e => ~IsPrefix(d, e)
           /\ \A c \in report.candidates : c.root = nth => ~IsPrefix(c.path, e) /\ ~IsPrefix(e, c.path)
<1>1. e \in todo /\ \A d \in todo : ~IsStrictPrefix(d, e)
  BY DEF Frontier
<1>2. todo \subseteq {d \in Below(RootsOf[which.id][nth]) : which.deep \/ Len(d) = Len(RootsOf[which.id][nth]) + 1}
  BY DEF CleanersInv, Walking
<1>3. e \in Below(RootsOf[which.id][nth]) /\ (which.deep \/ Len(e) = Len(RootsOf[which.id][nth]) + 1)
  BY <1>1, <1>2
<1>4. nth \in 1 .. Len(RootsOf[which.id])
  <2>1. Len(RootsOf[which.id]) \in Nat
    BY CleanerFacts, LenProperties DEF CleanersInv, CleanersType
  <2> QED
    BY <2>1 DEF CleanersInv, CleanersType, Walking
<1> QED
  BY <1>1, <1>3, <1>4, TreeAssumption DEF CleanersInv, Belongs, Below, IsStrictPrefix

\* An entry that is looked for is reported, and nothing below it comes again.
LEMMA ReportsEntry ==
    ASSUME CleanersInv, stage = "walk", NEW e \in Frontier, e \in which.wanted, which.per # "root",
           NEW n \in Nat, report' = Reported(nth, e, n), UNCHANGED <<stage, which, nth, sum>>,
           todo' \subseteq todo \ {e}, \A d \in todo' : ~IsPrefix(e, d), \A d \in todo \ todo' : IsPrefix(e, d),
           errored' \in BOOLEAN, failed' \in BOOLEAN, errored' => failed', failed => failed',
           ~failed' => n = BytesOf(FilesOf(e))
    PROVE  CleanersInv'
<1>1. /\ e \in todo /\ e \in Tree /\ e \in Seq(STRING) /\ nth \in 1 .. Len(RootsOf[which.id])
      /\ IsStrictPrefix(RootsOf[which.id][nth], e) /\ IsPrefix(RootsOf[which.id][nth], e)
      /\ which.deep \/ Len(e) = Len(RootsOf[which.id][nth]) + 1
      /\ \A d \in todo : d # e => ~IsPrefix(d, e)
      /\ \A c \in report.candidates : c.root = nth => ~IsPrefix(c.path, e) /\ ~IsPrefix(e, c.path)
  BY NextEntry
<1>2. CleanersType' /\ Walking'
  BY DEF CleanersInv, CleanersType, Walking
<1>3. Adds(report, ~failed)'
  <2>1. PICK x \in BOOLEAN, y \in BOOLEAN : x = ~failed /\ y = ~failed'
    BY DEF CleanersInv, CleanersType
  <2>2. Adds(report, x) /\ (y => x) /\ (y => n = BytesOf(FilesOf(e)))
    BY <2>1 DEF CleanersInv
  <2>3. Adds(Reported(nth, e, n), y)
    BY <1>1, <2>2, OneMoreCandidate
  <2> QED
    BY <2>1, <2>3
<1>4. \A f \in FilesOf(e) : MeantBy(which, nth, f)
  <2>1. e \in Wants(which, RootsOf[which.id][nth])
    BY <1>1 DEF Wants, Below
  <2> QED
    BY <2>1 DEF MeantBy, FilesOf
<1>5. Belongs'
  <2>1. Begun = nth /\ Begun' = nth
    BY DEF Begun
  <2>2. \A c \in report.candidates' : c \in report.candidates \/ (c.root = nth /\ c.path = e)
    BY WhatIsReported
  <2>3. \A c \in report.candidates' : c.root \in 1 .. nth
    BY <1>1, <2>1, <2>2 DEF CleanersInv, Belongs
  <2>4. ASSUME NEW c \in report.candidates', NEW f \in FilesOf(c.path)
        PROVE  MeantBy(which, c.root, f)
    BY <1>4, <2>2 DEF CleanersInv, Belongs
  <2>5. ASSUME NEW c \in report.candidates', NEW d \in todo', c.root = nth
        PROVE  ~IsPrefix(c.path, d) /\ ~IsPrefix(d, c.path)
    <3>1. d \in todo /\ d # e
      OBVIOUS
    <3> QED
      BY <1>1, <2>2, <2>5, <3>1 DEF CleanersInv, Belongs
  <2> QED
    BY <2>1, <2>3, <2>4, <2>5 DEF Belongs
<1>6. Summed'
  BY DEF Summed
<1>7. Complete'
  <2> SUFFICES ASSUME ~failed', NEW m \in 1 .. nth, NEW f \in Regular, MeantBy(which, m, f), SizeOf[f] > 0
               PROVE  Covers(report', m, f) \/ ToCome(m, f)'
    BY DEF Complete
  <2>1. Covers(report, m, f) \/ ToCome(m, f)
    BY DEF CleanersInv, Complete
  <2>2. CASE Covers(report, m, f)
    BY <2>2, CoversMore
  <2>3. CASE ToCome(m, f)
    <3>1. m = nth
      BY <2>3 DEF ToCome
    <3>2. PICK d \in todo \cap which.wanted : IsPrefix(d, f)
      BY <2>3 DEF ToCome
    <3>3. CASE d \in todo'
      BY <3>1, <3>2, <3>3 DEF ToCome
    <3>4. CASE d \notin todo'
      <4>1. IsPrefix(e, d)
        BY <3>2, <3>4
      <4>2. d \in Seq(STRING) /\ f \in Seq(STRING)
        BY <3>2, TreeAssumption DEF CleanersInv, CleanersType
      <4>3. IsPrefix(e, f)
        BY <1>1, <3>2, <4>1, <4>2, BeginsThrough
      <4> QED
        BY <3>1, <4>3, CoversMore
    <3> QED
      BY <3>3, <3>4
  <2> QED
    BY <2>1, <2>2, <2>3
<1> QED
  BY <1>2, <1>3, <1>5, <1>6, <1>7 DEF CleanersInv

\* An entry is left out that holds nothing for the cleaner, or not on purpose.
LEMMA LeavesOut ==
    ASSUME CleanersInv, stage = "walk", NEW e \in Frontier,
           UNCHANGED <<stage, which, nth, sum, report>>, todo' = todo \ {e},
           errored' \in BOOLEAN, failed' \in BOOLEAN, errored' => failed', failed => failed',
           ~failed' => \/ e \notin which.wanted
                       \/ which.per # "root" /\ \A f \in FilesOf(e) : ~(SizeOf[f] > 0)
    PROVE  CleanersInv'
<1>1. CleanersType' /\ Walking'
  BY DEF CleanersInv, CleanersType, Walking
<1>2. Adds(report, ~failed)'
  BY FewerTrue DEF CleanersInv
<1>3. Belongs'
  BY DEF CleanersInv, Belongs, Begun
<1>4. Summed'
  <2> SUFFICES ASSUME which.per = "root"
               PROVE  /\ sum # 0 => RootsOf[which.id][nth] \notin Regular
                      /\ ~failed' => sum = BytesOf({f \in Regular : IsStrictPrefix(RootsOf[which.id][nth], f)} \ todo')
    BY DEF Summed
  <2>1. ~failed' => e \notin Regular
    BY CleanerFacts DEF CleanersInv, CleanersType
  <2>2. ~failed' => {f \in Regular : IsStrictPrefix(RootsOf[which.id][nth], f)} \ todo'
                      = {f \in Regular : IsStrictPrefix(RootsOf[which.id][nth], f)} \ todo
    BY <2>1
  <2> QED
    BY <2>2 DEF CleanersInv, Summed
<1>5. Complete'
  <2> SUFFICES ASSUME ~failed', NEW m \in 1 .. nth, NEW f \in Regular, MeantBy(which, m, f), SizeOf[f] > 0
               PROVE  Covers(report, m, f) \/ ToCome(m, f)'
    BY DEF Complete
  <2>1. Covers(report, m, f) \/ ToCome(m, f)
    BY DEF CleanersInv, Complete
  <2>2. ASSUME ToCome(m, f) PROVE ToCome(m, f)'
    <3>1. m = nth
      BY <2>2 DEF ToCome
    <3>2. CASE which.per = "root"
      BY <3>1, <3>2 DEF ToCome
    <3>3. CASE which.per # "root"
      <4>1. PICK d \in todo \cap which.wanted : IsPrefix(d, f)
        BY <2>2, <3>3 DEF ToCome
      <4>2. d # e
        BY <4>1 DEF FilesOf
      <4> QED
        BY <3>1, <4>1, <4>2 DEF ToCome
    <3> QED
      BY <3>2, <3>3
  <2> QED
    BY <2>1, <2>2
<1> QED
  BY <1>1, <1>2, <1>3, <1>4, <1>5 DEF CleanersInv

-----------------------------------------------------------------------------
LEMMA CleanersInitInv == CleanersInit => CleanersInv
<1> SUFFICES ASSUME CleanersInit PROVE CleanersInv
  OBVIOUS
<1>1. which \in BuiltIn \cup {ResidueScan} /\ Len(RootsOf[which.id]) \in Nat
  BY CleanerFacts, LenProperties DEF CleanersInit
<1>2. CleanersType /\ Walking
  <2>1. nth \in 0 .. Len(RootsOf[which.id]) /\ sum \in Nat
    BY <1>1 DEF CleanersInit
  <2>2. CleanersType
    BY <1>1, <2>1 DEF CleanersInit, CleanersType
  <2>3. Walking
    BY DEF CleanersInit, Walking
  <2> QED
    BY <2>2, <2>3
<1>4. Belongs /\ Summed /\ Complete
  <2>1. report.candidates = {} /\ stage = "idle" /\ 1 .. nth = {}
    BY DEF CleanersInit
  <2> QED
    BY <2>1 DEF Belongs, Summed, Complete
<1>3. Adds(report, ~failed)
  BY FS_EmptySet, NoParts, SmallNumber, TreeAssumption DEF CleanersInit, Adds
<1> QED
  BY <1>2, <1>3, <1>4 DEF CleanersInv

LEMMA ScanBeginsKeeps ==
    ASSUME CleanersInv, NEW w \in BuiltIn \cup {ResidueScan}, ScanBegins(w)
    PROVE  CleanersInv'
<1>1. which' \in BuiltIn \cup {ResidueScan} /\ Len(RootsOf[which'.id]) \in Nat
  BY CleanerFacts, LenProperties DEF ScanBegins
<1>2. CleanersType' /\ Walking'
  <2>1. nth' \in 0 .. Len(RootsOf[which'.id]) /\ sum' \in Nat
    BY <1>1 DEF ScanBegins
  <2>2. CleanersType'
    BY <1>1, <2>1 DEF ScanBegins, CleanersType
  <2>3. Walking'
    BY DEF ScanBegins, Walking
  <2> QED
    BY <2>2, <2>3
<1>4. Belongs' /\ Summed' /\ Complete'
  <2>1. report'.candidates = {} /\ stage' = "roots" /\ 1 .. nth' = {}
    BY DEF ScanBegins
  <2> QED
    BY <2>1 DEF Belongs, Summed, Complete
<1>3. Adds(report, ~failed)'
  BY FS_EmptySet, NoParts, SmallNumber, TreeAssumption DEF ScanBegins, Adds
<1> QED
  BY <1>2, <1>3, <1>4 DEF CleanersInv

LEMMA PassedOverKeeps == ASSUME CleanersInv, NEW e \in Tree, PassedOver(e) PROVE CleanersInv'
<1>1. failed
  BY DEF PassedOver, CleanersInv, Walking
<1> QED
  BY <1>1, LeavesOut DEF PassedOver, CleanersInv, CleanersType

LEMMA UnwantedKeeps == ASSUME CleanersInv, NEW e \in Tree, Unwanted(e) PROVE CleanersInv'
  BY LeavesOut DEF Unwanted, CleanersInv, CleanersType, Walking

\* In a walk of one level nothing that comes lies below another.
LEMMA OneLevel ==
    ASSUME CleanersInv, stage = "walk", ~which.deep, NEW e \in Frontier, NEW d \in todo, d # e
    PROVE  ~IsPrefix(e, d)
<1>1. Len(d) = Len(RootsOf[which.id][nth]) + 1 /\ d \in Seq(STRING)
  BY TreeAssumption DEF CleanersInv, CleanersType, Walking
<1>2. Len(e) = Len(RootsOf[which.id][nth]) + 1 /\ e \in Seq(STRING)
  BY NextEntry
<1> QED
  BY <1>1, <1>2, BeginsAlike

LEMMA TypeFailsKeeps == ASSUME CleanersInv, NEW e \in Tree, TypeFails(e) PROVE CleanersInv'
<1>1. e \in Frontier /\ stage = "walk"
  BY DEF TypeFails
<1>2. CASE which.per # "entry"
  BY <1>1, <1>2, LeavesOut DEF TypeFails
<1>3. CASE which.per = "entry"
  <2>1. ~which.deep
    BY <1>3, CleanerFacts DEF CleanersInv, CleanersType
  <2>2. \A d \in todo' : ~IsPrefix(e, d)
    BY <1>1, <2>1, OneLevel DEF TypeFails
  <2>3. \A d \in todo \ todo' : IsPrefix(e, d)
    BY <1>1, NextEntry, BeginsItself DEF TypeFails
  <2>4. 0 \in Nat /\ failed' /\ failed' \in BOOLEAN /\ e \in which.wanted /\ report' = Reported(nth, e, 0) /\ errored' \in BOOLEAN
    BY <1>3 DEF TypeFails
  <2>5. todo' \subseteq todo \ {e} /\ UNCHANGED <<stage, which, nth, sum>>
    BY DEF TypeFails
  <2> QED
    BY <1>1, <1>3, <2>2, <2>3, <2>4, <2>5, ReportsEntry
<1> QED
  BY <1>2, <1>3

\* Nothing comes below a regular file.
LEMMA NothingBelow ==
    ASSUME NEW e \in Regular, NEW d \in Tree, IsPrefix(e, d)
    PROVE  d = e
  BY TreeAssumption DEF Below, IsStrictPrefix

LEMMA FileKeeps == ASSUME CleanersInv, NEW e \in Tree, File(e) PROVE CleanersInv'
<1>1. e \in Frontier /\ stage = "walk" /\ e \in which.wanted /\ e \in Regular /\ todo' = todo \ {e}
  BY DEF File
<1>2. PICK bad \in BOOLEAN :
        /\ errored' = bad /\ failed' = (failed \/ bad)
        /\ IF which.per = "root"
           THEN sum' = (sum + Measures(e, bad)) % Modulus /\ UNCHANGED report
           ELSE report' = Reported(nth, e, Measures(e, bad)) /\ UNCHANGED sum
  BY DEF File
<1>3. PICK n : n = Measures(e, bad)
  OBVIOUS
<1>4. n \in Nat /\ SizeOf[e] \in Nat /\ (~bad => n = SizeOf[e])
  BY <1>1, <1>3, TreeAssumption DEF Measures
<1>5. failed \in BOOLEAN /\ sum \in Nat
  BY DEF CleanersInv, CleanersType
<1>6. CASE which.per # "root"
  <2>1. \A d \in todo' : ~IsPrefix(e, d)
    BY <1>1, NothingBelow DEF CleanersInv, CleanersType
  <2>2. \A d \in todo \ todo' : IsPrefix(e, d)
    BY <1>1, NextEntry, BeginsItself
  <2>3. ~failed' => n = BytesOf(FilesOf(e))
    BY <1>1, <1>2, <1>4, OneFile, BytesOfOne
  <2>4. report' = Reported(nth, e, n) /\ UNCHANGED <<stage, which, nth, sum>>
    BY <1>2, <1>3, <1>6 DEF File
  <2>5. /\ todo' \subseteq todo \ {e} /\ errored' \in BOOLEAN /\ failed' \in BOOLEAN
        /\ (errored' => failed') /\ (failed => failed')
    BY <1>1, <1>2, <1>5
  <2> QED
    BY <1>1, <1>4, <1>6, <2>1, <2>2, <2>3, <2>4, <2>5, ReportsEntry
<1>7. CASE which.per = "root"
  <2> DEFINE S == {f \in Regular : IsStrictPrefix(RootsOf[which.id][nth], f)}
  <2>1. /\ e \in todo /\ nth \in 1 .. Len(RootsOf[which.id]) /\ IsStrictPrefix(RootsOf[which.id][nth], e)
    BY <1>1, NextEntry
  <2>2. UNCHANGED <<stage, which, nth, report>> /\ sum' = (sum + n) % Modulus
    BY <1>2, <1>3, <1>7 DEF File
  <2>3. CleanersType'
    <3>1. (sum + n) % Modulus \in Nat
      BY <1>4, <1>5, TreeAssumption
    <3> QED
      BY <1>1, <1>2, <2>2, <3>1 DEF CleanersInv, CleanersType
  <2>4. Walking'
    BY <1>1, <1>2, <2>2 DEF CleanersInv, Walking
  <2>5. Adds(report, ~failed)'
    BY <1>2, <2>2, FewerTrue DEF CleanersInv
  <2>6. Belongs'
    BY <1>1, <2>2 DEF CleanersInv, Belongs, Begun
  <2>7. Summed'
    <3>1. RootsOf[which.id][nth] \notin Regular
      <4>1. e \in Below(RootsOf[which.id][nth])
        BY <2>1 DEF Below
      <4> QED
        BY <4>1, TreeAssumption
    <3>2. ASSUME ~failed' PROVE sum' = BytesOf(S \ todo')
      <4>1. ~failed /\ ~bad /\ n = SizeOf[e]
        BY <1>2, <1>4, <3>2
      <4>2. sum = BytesOf(S \ todo)
        BY <1>1, <1>7, <4>1 DEF CleanersInv, Summed
      <4>3. S \ todo' = (S \ todo) \cup {e} /\ e \notin S \ todo /\ S \ todo \in SUBSET Regular
        BY <1>1, <2>1
      <4>4. PICK A : A = S \ todo
        OBVIOUS
      <4>5. BytesOf(A \cup {e}) = sum + n /\ BytesOf(A \cup {e}) < Modulus /\ BytesOf(A \cup {e}) \in Nat
        BY <1>1, <4>1, <4>2, <4>3, <4>4, BytesOfOneMore, BytesFit
      <4> QED
        BY <2>2, <4>3, <4>4, <4>5, SmallNumber
    <3> QED
      BY <2>2, <3>1, <3>2 DEF Summed
  <2>8. Complete'
    <3> SUFFICES ASSUME ~failed', NEW m \in 1 .. nth, NEW f \in Regular, MeantBy(which, m, f), SizeOf[f] > 0
                 PROVE  Covers(report, m, f) \/ ToCome(m, f)'
      BY <2>2 DEF Complete
    <3>1. Covers(report, m, f) \/ ToCome(m, f)
      BY <1>2 DEF CleanersInv, Complete
    <3> QED
      BY <1>7, <2>2, <3>1 DEF ToCome
  <2> QED
    BY <2>3, <2>4, <2>5, <2>6, <2>7, <2>8 DEF CleanersInv
<1> QED
  BY <1>6, <1>7

\* The walk of a directory adds up the sizes below it.
LEMMA InnerSumFacts ==
    ASSUME NEW d, NEW missed \in SUBSET FilesOf(d), NEW bad \in SUBSET FilesOf(d)
    PROVE  /\ InnerSum(d, missed, bad) \in Nat
           /\ missed \cup bad = {} => InnerSum(d, missed, bad) = BytesOf(FilesOf(d))
<1>1. FilesOf(d) \in SUBSET Regular /\ bad \in SUBSET Regular /\ FilesOf(d) \ (missed \cup bad) \in SUBSET Regular
  BY DEF FilesOf
<1>2. PICK n : n = BytesOf(FilesOf(d) \ (missed \cup bad))
  OBVIOUS
<1>3. PICK m : m = Cardinality(bad)
  OBVIOUS
<1>4. n \in Nat /\ n < Modulus
  BY <1>1, <1>2, BytesFit
<1>5. m \in Nat
  BY <1>1, <1>3, FilesAreFinite, FS_CardinalityType
<1>6. InnerSum(d, missed, bad) = (n + m * (Modulus - 1)) % Modulus
  BY <1>2, <1>3 DEF InnerSum
<1>7. InnerSum(d, missed, bad) \in Nat
  <2>1. Modulus - 1 \in Nat /\ Modulus \in Nat \ {0}
    BY TreeAssumption
  <2>2. PICK k \in Nat : k = m * (Modulus - 1)
    BY <1>5, <2>1
  <2>3. (n + k) % Modulus \in Nat
    BY <1>4, <2>1
  <2> QED
    BY <1>6, <2>2, <2>3
<1>8. ASSUME missed \cup bad = {} PROVE InnerSum(d, missed, bad) = BytesOf(FilesOf(d))
  <2>1. bad = {} /\ FilesOf(d) \ (missed \cup bad) = FilesOf(d)
    BY <1>8
  <2>2. m = 0
    BY <1>3, <2>1, FS_EmptySet
  <2>3. n + m * (Modulus - 1) = n
    BY <1>4, <2>2, TreeAssumption
  <2> QED
    BY <1>2, <1>4, <1>6, <2>1, <2>3, SmallNumber
<1> QED
  BY <1>7, <1>8

LEMMA ArtifactKeeps == ASSUME CleanersInv, NEW e \in Tree, Artifact(e) PROVE CleanersInv'
<1>1. /\ e \in Frontier /\ stage = "walk" /\ e \in which.wanted /\ which.per # "root" /\ ~errored
      /\ UNCHANGED <<stage, which, nth, errored, sum>>
  BY DEF Artifact
<1>2. PICK missed, bad \in SUBSET FilesOf(e) :
         /\ failed' = (failed \/ missed \cup bad # {})
         /\ IF InnerSum(e, missed, bad) = 0
            THEN todo' = todo \ {e} /\ UNCHANGED report
            ELSE todo' = todo \ ({e} \cup NotEntered(e)) /\ report' = Reported(nth, e, InnerSum(e, missed, bad))
  BY DEF Artifact
<1>3. PICK n : n = InnerSum(e, missed, bad)
  OBVIOUS
<1>4. n \in Nat /\ (missed \cup bad = {} => n = BytesOf(FilesOf(e)))
  BY <1>3, InnerSumFacts
<1>5. /\ errored' \in BOOLEAN /\ failed' \in BOOLEAN /\ (errored' => failed') /\ (failed => failed')
      /\ ~failed' => n = BytesOf(FilesOf(e))
  BY <1>1, <1>2, <1>4 DEF CleanersInv, CleanersType
<1>6. CASE n = 0
  <2>1. ~failed' => \A f \in FilesOf(e) : ~(SizeOf[f] > 0)
    <3>1. FilesOf(e) \in SUBSET Regular
      BY DEF FilesOf
    <3> QED
      BY <1>5, <1>6, <3>1, NotNoBytes
  <2>2. todo' = todo \ {e} /\ UNCHANGED <<stage, which, nth, sum, report>>
    BY <1>1, <1>2, <1>3, <1>6
  <2> QED
    BY <1>1, <1>5, <2>1, <2>2, LeavesOut
<1>7. CASE n # 0
  <2>1. todo' = todo \ ({e} \cup Below(e)) /\ report' = Reported(nth, e, n)
    BY <1>2, <1>3, <1>7 DEF NotEntered
  <2>2. \A d \in todo' : ~IsPrefix(e, d)
    BY <2>1 DEF CleanersInv, CleanersType, Below, IsStrictPrefix
  <2>3. IsPrefix(e, e)
    BY <1>1, NextEntry, BeginsItself
  <2>4. \A d \in todo \ todo' : IsPrefix(e, d)
    BY <2>1, <2>3 DEF Below, IsStrictPrefix
  <2>5. todo' \subseteq todo \ {e} /\ UNCHANGED <<stage, which, nth, sum>>
    BY <1>1, <2>1
  <2> QED
    BY <1>1, <1>4, <1>5, <2>1, <2>2, <2>4, <2>5, ReportsEntry
<1> QED
  BY <1>6, <1>7

LEMMA ResidueDirectoryKeeps == ASSUME CleanersInv, NEW e \in Tree, ResidueDirectory(e) PROVE CleanersInv'
<1>1. /\ e \in Frontier /\ stage = "walk" /\ e \in which.wanted /\ which.per = "entry" /\ ~errored
      /\ UNCHANGED <<stage, which, nth, sum>> /\ todo' = todo \ {e}
  BY DEF ResidueDirectory
<1>2. PICK missed, bad \in SUBSET FilesOf(e) :
         /\ failed' = (failed \/ missed \cup bad # {})
         /\ errored' \in {FALSE, missed \cup bad # {}}
         /\ report' = Reported(nth, e, InnerSum(e, missed, bad))
  BY DEF ResidueDirectory
<1>3. PICK n : n = InnerSum(e, missed, bad)
  OBVIOUS
<1>4. n \in Nat /\ (missed \cup bad = {} => n = BytesOf(FilesOf(e)))
  BY <1>3, InnerSumFacts
<1>5. /\ errored' \in BOOLEAN /\ failed' \in BOOLEAN /\ (errored' => failed') /\ (failed => failed')
      /\ ~failed' => n = BytesOf(FilesOf(e))
  BY <1>2, <1>4 DEF CleanersInv, CleanersType
<1>6. ~which.deep
  BY <1>1, CleanerFacts DEF CleanersInv, CleanersType
<1>7. \A d \in todo' : ~IsPrefix(e, d)
  BY <1>1, <1>6, OneLevel
<1>8. \A d \in todo \ todo' : IsPrefix(e, d)
  BY <1>1, NextEntry, BeginsItself
<1>9. todo' \subseteq todo \ {e} /\ report' = Reported(nth, e, n) /\ which.per # "root"
  BY <1>1, <1>2, <1>3
<1> QED
  BY <1>1, <1>4, <1>5, <1>7, <1>8, <1>9, ReportsEntry

LEMMA NextRootBeginsKeeps == ASSUME CleanersInv, NextRootBegins PROVE CleanersInv'
<1>1. /\ stage = "roots" /\ nth < Len(RootsOf[which.id]) /\ nth' = nth + 1 /\ which' = which
      /\ which \in BuiltIn \cup {ResidueScan} /\ nth \in Nat /\ Len(RootsOf[which.id]) \in Nat
      /\ todo = {} /\ failed \in BOOLEAN
  BY CleanerFacts, LenProperties DEF NextRootBegins, CleanersInv, CleanersType, Walking
<1>2. PICK j \in 1 .. Len(RootsOf[which.id]) : j = nth + 1
  BY <1>1
<1>3. PICK r \in Seq(STRING) : r = RootsOf[which.id][j]
  BY <1>1, RootFacts
<1>4. PICK bad \in BOOLEAN :
        /\ failed' = (failed \/ bad) /\ errored' = FALSE /\ sum' = 0
        /\ IF r \in Regular /\ which = CrashDump
           THEN /\ report' = IF bad THEN report ELSE Reported(j, r, SizeOf[r])
                /\ UNCHANGED <<stage, todo>>
           ELSE /\ todo' = {e \in Below(r) : ~bad /\ (which.deep \/ Len(e) = Len(r) + 1)}
                /\ stage' = "walk" /\ UNCHANGED report
  BY <1>2, <1>3 DEF NextRootBegins
<1>5. Begun = nth /\ j > Begun
  BY <1>1, <1>2 DEF Begun
<1>6. \A c \in report.candidates :
         c.root \in 1 .. nth /\ c.root # j /\ \A f \in FilesOf(c.path) : MeantBy(which, c.root, f)
  <2>1. \A i \in 1 .. nth : i # j
    BY <1>1, <1>2
  <2>2. Begun = nth
    BY <1>5
  <2> QED
    BY <2>1, <2>2 DEF CleanersInv, Belongs
<1>7. 1 .. nth' = 1 .. nth \cup {j} /\ 1 .. nth \subseteq 1 .. nth'
  BY <1>1, <1>2
<1>8. ~failed => \A m \in 1 .. nth, f \in Regular : MeantBy(which, m, f) /\ SizeOf[f] > 0 => Covers(report, m, f)
  BY <1>1 DEF CleanersInv, Complete, ToCome
<1>9. CASE r \in Regular /\ which = CrashDump
  <2>1. UNCHANGED <<stage, todo>> /\ report' = IF bad THEN report ELSE Reported(j, r, SizeOf[r])
    BY <1>4, <1>9
  <2>2. CleanersType' /\ Walking'
    <3>1. nth' \in 0 .. Len(RootsOf[which'.id]) /\ sum' \in Nat
      BY <1>1, <1>4
    <3>2. CleanersType'
      BY <1>1, <1>4, <2>1, <3>1 DEF CleanersType
    <3>3. Walking'
      BY <1>1, <1>4, <2>1 DEF Walking
    <3> QED
      BY <3>2, <3>3
  <2>3. Summed' /\ Begun' = nth'
    BY <1>1, <2>1 DEF Summed, Begun
  <2>4. CASE bad
    <3>1. Adds(report, ~failed)'
      BY <1>4, <2>1, <2>4, FewerTrue DEF CleanersInv
    <3>2. Belongs'
      BY <1>1, <1>6, <1>7, <2>1, <2>3, <2>4 DEF Belongs
    <3>3. Complete'
      BY <1>4, <2>4 DEF Complete
    <3> QED
      BY <2>2, <2>3, <3>1, <3>2, <3>3 DEF CleanersInv
  <2>5. CASE ~bad
    <3>1. j \in Nat /\ \A c \in report.candidates : c.root # j
      BY <1>6
    <3>2. PICK n \in Nat : n = SizeOf[r] /\ n = BytesOf(FilesOf(r)) /\ report' = Reported(j, r, n)
      BY <1>9, <2>1, <2>5, OneFile, BytesOfOne, TreeAssumption
    <3>3. Adds(report, ~failed)'
      <4>1. PICK x \in BOOLEAN : x = ~failed /\ x = ~failed'
        BY <1>1, <1>4, <2>5
      <4>2. Adds(Reported(j, r, n), x)
        BY <3>1, <3>2, <4>1, OneMoreCandidate DEF CleanersInv
      <4> QED
        BY <3>2, <4>1, <4>2
    <3>4. \A c \in report'.candidates : c \in report.candidates \/ (c.root = j /\ c.path = r)
      BY <3>2, WhatIsReported
    <3>5. Belongs'
      <4>1. \A c \in report'.candidates : c.root \in 1 .. nth'
        BY <1>6, <1>7, <3>4
      <4>2. MeantBy(which, j, r) /\ FilesOf(r) = {r}
        BY <1>3, <1>9, OneFile DEF MeantBy
      <4>3. \A c \in report'.candidates : \A f \in FilesOf(c.path) : MeantBy(which, c.root, f)
        BY <1>6, <3>4, <4>2
      <4> QED
        BY <1>1, <2>1, <2>3, <4>1, <4>3 DEF Belongs
    <3>6. Complete'
      <4> SUFFICES ASSUME ~failed', NEW m \in 1 .. nth', NEW f \in Regular, MeantBy(which, m, f), SizeOf[f] > 0
                   PROVE  Covers(report', m, f)
        BY <1>1 DEF Complete
      <4>1. CASE m \in 1 .. nth
        BY <1>4, <1>8, <3>2, <4>1, CoversMore
      <4>2. CASE m = j
        <5>1. f = r \/ \E e \in Wants(which, r) : IsPrefix(e, f)
          BY <1>3, <4>2 DEF MeantBy
        <5>2. Wants(which, r) = {}
          BY <1>9, TreeAssumption DEF Wants
        <5> QED
          BY <3>2, <4>2, <5>1, <5>2, BeginsItself, CoversMore
      <4> QED
        BY <1>7, <4>1, <4>2
    <3> QED
      BY <2>2, <2>3, <3>3, <3>5, <3>6 DEF CleanersInv
  <2> QED
    BY <2>4, <2>5
<1>10. CASE ~(r \in Regular /\ which = CrashDump)
  <2>1. /\ todo' = {e \in Below(r) : ~bad /\ (which.deep \/ Len(e) = Len(r) + 1)}
        /\ stage' = "walk" /\ report' = report
    BY <1>4, <1>10
  <2>2. RootsOf[which.id][nth'] = r /\ nth' \in 1 .. Len(RootsOf[which.id])
    BY <1>1, <1>2, <1>3
  <2>3. CleanersType'
    <3>1. nth' \in 0 .. Len(RootsOf[which'.id]) /\ sum' \in Nat
      BY <1>1, <1>4
    <3>2. todo' \in SUBSET Tree
      BY <2>1 DEF Below
    <3> QED
      BY <1>1, <1>4, <2>1, <3>1, <3>2 DEF CleanersType
  <2>4. Walking'
    BY <1>1, <1>4, <2>1, <2>2 DEF Walking
  <2>5. Adds(report, ~failed)'
    BY <1>4, <2>1, FewerTrue DEF CleanersInv
  <2>6. Belongs'
    <3>1. 1 .. nth \subseteq 1 .. Begun'
      BY <1>1, <2>1 DEF Begun
    <3>2. \A c \in report.candidates : c.root # nth'
      BY <1>2, <1>1, <1>6
    <3> QED
      BY <1>1, <1>6, <2>1, <3>1, <3>2 DEF Belongs
  <2>7. Summed'
    <3> SUFFICES ASSUME which.per = "root", ~failed'
                 PROVE  0 = BytesOf({f \in Regular : IsStrictPrefix(r, f)} \ todo')
      BY <1>1, <1>4, <2>2 DEF Summed
    <3>1. which.deep /\ ~bad
      BY <1>1, <1>4, CleanerFacts
    <3>2. {f \in Regular : IsStrictPrefix(r, f)} \ todo' = {}
      BY <2>1, <3>1, TreeAssumption DEF Below
    <3> QED
      BY <3>2, BytesOfNone
  <2>8. Complete'
    <3> SUFFICES ASSUME ~failed', NEW m \in 1 .. nth', NEW f \in Regular, MeantBy(which, m, f), SizeOf[f] > 0
                 PROVE  Covers(report, m, f) \/ ToCome(m, f)'
      BY <1>1, <2>1 DEF Complete
    <3>1. CASE m \in 1 .. nth
      BY <1>4, <1>8, <3>1
    <3>2. CASE m = j
      <4>1. PICK e \in Wants(which, r) : IsPrefix(e, f)
        BY <1>3, <1>10, <3>2 DEF MeantBy
      <4>2. e \in todo' \cap which.wanted
        BY <1>4, <2>1, <4>1 DEF Wants
      <4> QED
        BY <1>1, <1>2, <2>1, <3>2, <4>1, <4>2 DEF ToCome
    <3> QED
      BY <1>7, <3>1, <3>2
  <2> QED
    BY <2>3, <2>4, <2>5, <2>6, <2>7, <2>8 DEF CleanersInv
<1> QED
  BY <1>9, <1>10

LEMMA RootEndsKeeps == ASSUME CleanersInv, RootEnds PROVE CleanersInv'
<1>1. /\ stage = "walk" /\ todo = {} /\ stage' = "roots" /\ UNCHANGED <<which, nth, todo, errored, sum, failed>>
      /\ which \in BuiltIn \cup {ResidueScan} /\ Len(RootsOf[which.id]) \in Nat
      /\ nth \in 1 .. Len(RootsOf[which.id]) /\ sum \in Nat /\ failed \in BOOLEAN
  <2>1. which \in BuiltIn \cup {ResidueScan} /\ Len(RootsOf[which.id]) \in Nat
    BY CleanerFacts, LenProperties DEF CleanersInv, CleanersType
  <2> QED
    BY <2>1 DEF RootEnds, CleanersInv, CleanersType, Walking
<1>2. CleanersType' /\ Walking'
  BY <1>1 DEF CleanersInv, CleanersType, Walking
<1>3. Summed' /\ Begun' = nth
  BY <1>1 DEF Summed, Begun
<1>4. PICK r \in Seq(STRING) : r = RootsOf[which.id][nth]
  BY <1>1, RootFacts
<1>5. \A c \in report.candidates : c.root \in 1 .. nth
  BY <1>1 DEF CleanersInv, Belongs, Begun
<1>6. CASE which.per = "root" /\ sum # 0
  <2>1. report' = Reported(nth, r, sum)
    BY <1>4, <1>6 DEF RootEnds
  <2>2. r \notin Regular /\ which.wanted = Regular /\ which.deep
    BY <1>1, <1>4, <1>6, CleanerFacts DEF CleanersInv, Summed
  <2>3. {f \in Regular : IsStrictPrefix(r, f)} \ todo = FilesOf(r)
    BY <1>1, <2>2 DEF FilesOf, IsStrictPrefix
  <2>4. ~failed => sum = BytesOf(FilesOf(r))
    BY <1>1, <1>4, <1>6, <2>3 DEF CleanersInv, Summed
  <2>5. nth \in Nat /\ \A c \in report.candidates : c.root # nth
    BY <1>1, <1>6 DEF Begun, CleanersInv, Belongs
  <2>6. Adds(report, ~failed)'
    <3>1. PICK x \in BOOLEAN : x = ~failed /\ x = ~failed'
      BY <1>1
    <3>2. Adds(Reported(nth, r, sum), x)
      BY <1>1, <2>4, <2>5, <3>1, OneMoreCandidate DEF CleanersInv
    <3> QED
      BY <2>1, <3>1, <3>2
  <2>7. \A f \in FilesOf(r) : MeantBy(which, nth, f)
    <3> SUFFICES ASSUME NEW f \in FilesOf(r) PROVE MeantBy(which, nth, f)
      OBVIOUS
    <3>1. f \in Wants(which, r)
      BY <2>2, TreeAssumption DEF FilesOf, Wants, Below, IsStrictPrefix
    <3>2. IsPrefix(f, f)
      BY BeginsItself, TreeAssumption DEF FilesOf
    <3> QED
      BY <1>4, <3>1, <3>2 DEF MeantBy
  <2>8. Belongs'
    <3>1. \A c \in report'.candidates : c \in report.candidates \/ (c.root = nth /\ c.path = r)
      BY <2>1, WhatIsReported
    <3>2. \A c \in report'.candidates : c.root \in 1 .. nth
      BY <1>1, <1>5, <3>1
    <3>3. \A c \in report'.candidates : \A f \in FilesOf(c.path) : MeantBy(which, c.root, f)
      BY <2>7, <3>1 DEF CleanersInv, Belongs
    <3> QED
      BY <1>1, <1>3, <3>2, <3>3 DEF Belongs
  <2>9. Complete'
    <3> SUFFICES ASSUME ~failed, NEW m \in 1 .. nth, NEW f \in Regular, MeantBy(which, m, f), SizeOf[f] > 0
                 PROVE  Covers(report', m, f)
      BY <1>1 DEF Complete
    <3>1. Covers(report, m, f) \/ m = nth
      BY DEF CleanersInv, Complete, ToCome
    <3>2. CASE Covers(report, m, f)
      BY <2>1, <3>2, CoversMore
    <3>3. CASE m = nth
      <4>1. which # CrashDump
        BY <1>1, <1>6, CleanerFacts
      <4>2. PICK e \in Wants(which, r) : IsPrefix(e, f)
        BY <1>4, <3>3, <4>1 DEF MeantBy
      <4>3. IsPrefix(r, e) /\ e \in Seq(STRING) /\ f \in Seq(STRING)
        BY <4>2, TreeAssumption DEF Wants, Below, IsStrictPrefix
      <4>4. IsPrefix(r, f)
        BY <4>2, <4>3, BeginsThrough
      <4> QED
        BY <2>1, <3>3, <4>4, CoversMore
    <3> QED
      BY <3>1, <3>2, <3>3
  <2> QED
    BY <1>2, <1>3, <2>6, <2>8, <2>9 DEF CleanersInv
<1>7. CASE ~(which.per = "root" /\ sum # 0)
  <2>1. report' = report
    BY <1>7 DEF RootEnds
  <2>2. Adds(report, ~failed)'
    BY <1>1, <2>1 DEF CleanersInv
  <2>3. Belongs'
    BY <1>1, <1>3, <1>5, <2>1 DEF CleanersInv, Belongs
  <2>4. Complete'
    <3> SUFFICES ASSUME ~failed, NEW m \in 1 .. nth, NEW f \in Regular, MeantBy(which, m, f), SizeOf[f] > 0
                 PROVE  Covers(report, m, f)
      BY <1>1, <2>1 DEF Complete
    <3>1. ASSUME ToCome(m, f) PROVE FALSE
      <4>1. m = nth /\ which.per = "root" /\ sum = 0
        BY <1>1, <1>7, <3>1 DEF ToCome
      <4>2. which # CrashDump /\ which.wanted = Regular
        BY <1>1, <4>1, CleanerFacts
      <4>3. PICK e \in Wants(which, r) : IsPrefix(e, f)
        BY <1>4, <4>1, <4>2 DEF MeantBy
      <4>4. e = f /\ IsStrictPrefix(r, f)
        BY <4>2, <4>3, NothingBelow, TreeAssumption DEF Wants, Below
      <4>5. PICK S : S = {g \in Regular : IsStrictPrefix(r, g)} \ todo
        OBVIOUS
      <4>6. f \in S /\ S \in SUBSET Regular
        BY <1>1, <4>4, <4>5
      <4>7. BytesOf(S) = 0
        BY <1>1, <1>4, <4>1, <4>5 DEF CleanersInv, Summed
      <4> QED
        BY <4>6, <4>7, NotNoBytes
    <3> QED
      BY <3>1 DEF CleanersInv, Complete
  <2> QED
    BY <1>2, <1>3, <2>2, <2>3, <2>4 DEF CleanersInv
<1> QED
  BY <1>6, <1>7

LEMMA WalkThrowsKeeps == ASSUME CleanersInv, WalkThrows PROVE CleanersInv'
<1>1. UNCHANGED <<which, nth, todo, errored, sum, report>> /\ stage' = "threw" /\ failed' = TRUE
  BY DEF WalkThrows
<1>2. CleanersType' /\ Walking' /\ Summed' /\ Complete'
  BY <1>1 DEF CleanersInv, CleanersType, Walking, Summed, Complete
<1>3. Adds(report, ~failed)'
  BY <1>1, FewerTrue DEF CleanersInv
<1>4. Belongs'
  <2>1. nth \in Int /\ Begun' = nth /\ Begun \in {nth, nth - 1}
    BY <1>1 DEF Begun, CleanersInv, CleanersType
  <2>2. 1 .. Begun \subseteq 1 .. Begun'
    BY <2>1
  <2> QED
    BY <1>1, <2>2 DEF CleanersInv, Belongs
<1> QED
  BY <1>2, <1>3, <1>4 DEF CleanersInv

LEMMA ScanReturnsKeeps == ASSUME CleanersInv, ScanReturns PROVE CleanersInv'
<1>1. UNCHANGED <<which, nth, todo, errored, sum, report, failed>> /\ stage = "roots" /\ stage' = "done"
  BY DEF ScanReturns
<1>2. CleanersType' /\ Walking'
  BY <1>1 DEF ScanReturns, CleanersInv, CleanersType, Walking
<1>3. Adds(report, ~failed)'
  BY <1>1 DEF CleanersInv
<1>4. Belongs' /\ Summed' /\ Complete'
  BY <1>1 DEF CleanersInv, Belongs, Begun, Summed, Complete, ToCome
<1> QED
  BY <1>2, <1>3, <1>4 DEF CleanersInv

LEMMA CleanersNextInv == CleanersInv /\ [CleanersNext]_cleanerVars => CleanersInv'
<1> SUFFICES ASSUME CleanersInv, [CleanersNext]_cleanerVars PROVE CleanersInv'
  OBVIOUS
<1>1. CASE UNCHANGED cleanerVars
  BY <1>1 DEF cleanerVars, CleanersInv, CleanersType, Walking, Belongs, Begun, Summed, Complete, ToCome
<1>2. CASE CleanersNext
  BY <1>2, ScanBeginsKeeps, NextRootBeginsKeeps, RootEndsKeeps, WalkThrowsKeeps, ScanReturnsKeeps,
     PassedOverKeeps, TypeFailsKeeps, UnwantedKeeps, FileKeeps, ArtifactKeeps, ResidueDirectoryKeeps
     DEF CleanersNext
<1> QED
  BY <1>1, <1>2

\* Whatever is on the disk, wherever the roots of a cleaner lie, and whichever
\* calls fail: the report that a cleaner or the residue scan returns adds up,
\* holds no file twice for one root, not even where artifacts lie in one
\* another, and is exact and complete for every root if no call failed.
THEOREM ReportsAreExact == CleanersSpec => []ReportIsExact
<1>1. CleanersInv => ReportIsExact
  <2> SUFFICES ASSUME CleanersInv, stage = "done" PROVE ReportIsExact
    BY DEF ReportIsExact
  <2>1. which \in BuiltIn \cup {ResidueScan} /\ nth = Len(RootsOf[which.id]) /\ RootsOf[which.id] \in Seq(Seq(STRING))
    BY CleanerFacts DEF CleanersInv, CleanersType, Walking
  <2>2. Adds(report, ~failed)
    BY DEF CleanersInv
  <2>3. report.total = Cardinality(UNION {{c} \X (1 .. c.bytes) : c \in report.candidates}) % Modulus
    <3>1. \A c \in report.candidates : ItsBytes[c] = c.bytes
      BY <2>2 DEF Adds, ItsBytes
    <3>2. Parts(report.candidates, ItsBytes) = UNION {{c} \X (1 .. c.bytes) : c \in report.candidates}
      BY <3>1 DEF Parts
    <3> QED
      BY <2>2, <3>2 DEF Adds
  <2>4. ASSUME NEW c \in report.candidates, NEW d \in report.candidates, c # d, c.root = d.root,
               NEW f \in FilesOf(c.path) \cap FilesOf(d.path)
        PROVE  FALSE
    <3>1. c.path \in Seq(STRING) /\ d.path \in Seq(STRING) /\ f \in Seq(STRING)
      BY <2>2, TreeAssumption DEF Adds, Candidate, FilesOf
    <3>2. ~IsPrefix(c.path, d.path) /\ ~IsPrefix(d.path, c.path)
      BY <2>2, <2>4 DEF Adds
    <3> QED
      BY <3>1, <3>2, BothBegin DEF FilesOf
  <2>5. \A n : \A f \in Regular : f \in Meant(n) <=> MeantBy(which, n, f)
    <3>1. which.wanted \subseteq Tree
      BY <2>1, CleanerFacts
    <3>2. ASSUME NEW r, NEW f
          PROVE  (\E e \in Wants(which, r) : IsPrefix(e, f)) <=>
                 (\E e \in which.wanted : /\ IsStrictPrefix(r, e) /\ (which.deep \/ Len(e) = Len(r) + 1)
                                          /\ IsPrefix(e, f))
      BY <3>1 DEF Wants, Below
    <3> QED
      BY <3>2 DEF Meant, MeantBy
  <2>6. ASSUME ~failed, NEW n \in 1 .. Len(RootsOf[which.id])
        PROVE  {f \in Meant(n) : SizeOf[f] > 0} = {f \in Listed(n) : SizeOf[f] > 0}
    <3>1. Meant(n) \subseteq Regular /\ Listed(n) \subseteq Regular
      BY DEF Meant, Listed, FilesOf
    <3>2. \A f \in Regular : f \in Listed(n) <=> Covers(report, n, f)
      BY DEF Listed, Covers, FilesOf
    <3>3. ASSUME NEW f \in Regular, SizeOf[f] > 0, f \in Meant(n) PROVE Covers(report, n, f)
      BY <2>1, <2>5, <2>6, <3>3 DEF CleanersInv, Complete, ToCome
    <3>4. ASSUME NEW f \in Regular, Covers(report, n, f) PROVE f \in Meant(n)
      BY <2>5, <3>4 DEF CleanersInv, Belongs, Covers, FilesOf
    <3> QED
      BY <3>1, <3>2, <3>3, <3>4
  <2>7. ~failed => \A c \in report.candidates : c.bytes = BytesOf(FilesOf(c.path))
    BY <2>2 DEF Adds
  <2> QED
    BY <2>3, <2>4, <2>6, <2>7 DEF ReportIsExact
<1> QED
  BY <1>1, CleanersInitInv, CleanersNextInv, PTL DEF CleanersSpec
=============================================================================
