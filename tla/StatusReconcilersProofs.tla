----------------------- MODULE StatusReconcilersProofs -----------------------
(***************************************************************************)
(* Theorems about the Atelier and FitProfile controllers, for any          *)
(* Tailorings, any specs that users write and any lag of the cache.        *)
(***************************************************************************)
EXTENDS StatusReconcilers, SequenceTheorems, FiniteSetTheorems, TLAPS

-----------------------------------------------------------------------------
(* An object as the sequence of its versions that the informer has still to
   deliver: what a write, a delivery and a restart do to it. *)

LEMMA VersionsEnds ==
    ASSUME NEW S, NEW v \in Seq(S), v # <<>>
    PROVE  Head(v) \in S /\ v[Len(v)] \in S /\ Len(v) \in Nat \ {0}
  OBVIOUS

LEMMA VersionsAppend ==
    ASSUME NEW S, NEW v \in Seq(S), NEW t \in S
    PROVE  /\ Append(v, t) \in Seq(S) /\ Append(v, t) # <<>>
           /\ Append(v, t)[Len(Append(v, t))] = t
           /\ Len(Append(v, t)) = Len(v) + 1
           /\ \A i \in 1 .. Len(Append(v, t)) :
                 Append(v, t)[i] = t \/ \E j \in 1 .. Len(v) : Append(v, t)[i] = v[j]
  OBVIOUS

LEMMA VersionsTail ==
    ASSUME NEW S, NEW v \in Seq(S), Len(v) > 1
    PROVE  /\ Tail(v) \in Seq(S) /\ Tail(v) # <<>>
           /\ Tail(v)[Len(Tail(v))] = v[Len(v)]
           /\ \A i \in 1 .. Len(Tail(v)) : Tail(v)[i] = v[i + 1] /\ i + 1 \in 1 .. Len(v)
<1> DEFINE t == Tail(v) n == Len(v)
<1>1. /\ t \in Seq(S) /\ Len(t) = n - 1
      /\ \A i \in 1 .. Len(t) : t[i] = v[i + 1]
  BY HeadTailProperties
<1>2. n \in Nat /\ n > 1 /\ Len(<<>>) = 0
  OBVIOUS
<1> HIDE DEF t
<1>3. t # <<>> /\ Len(t) \in 1 .. Len(t)
  BY <1>1, <1>2
<1>4. t[Len(t)] = v[n]
  BY <1>1, <1>2, <1>3
<1>5. \A i \in 1 .. Len(t) : t[i] = v[i + 1] /\ i + 1 \in 1 .. n
  BY <1>1, <1>2
<1>6. QED
  BY <1>1, <1>3, <1>4, <1>5 DEF t

LEMMA VersionsOne ==
    ASSUME NEW S, NEW t \in S
    PROVE  <<t>> \in Seq(S) /\ <<t>> # <<>> /\ Len(<<t>>) = 1 /\ <<t>>[1] = t
  OBVIOUS
-----------------------------------------------------------------------------
(* Type correctness. *)

LEMMA NewType ==
    \A s \in AtelierSpecs \cup FitProfileSpecs : New(s) \in Object /\ New(s).exists /\ New(s).spec = s
  BY DEF New, Object

LEMMA AbsentType == Absent \in Object /\ ~Absent.exists /\ Absent.spec = "valid"
  BY DEF Absent, New, Object, FitProfileSpecs

LEMMA SpecsOfType ==
    ASSUME NEW k PROVE SpecsOf(k) \subseteq AtelierSpecs \cup FitProfileSpecs
  BY SpecsAssumption DEF SpecsOf

LEMMA EndsType == TypeOK => Current \in Object /\ Cached \in Object
  BY VersionsEnds DEF TypeOK, Current, Cached

LEMMA ChecksType ==
    ASSUME NEW s PROVE Checks(s) \in Seq(Facts) \ {<<>>}
  BY DEF Checks, Facts, Services, Validity

LEMMA OutcomeType ==
    ASSUME TypeOK, NEW s, NEW f \in Facts PROVE Outcome(s, f) \in BOOLEAN
  BY DEF TypeOK, Outcome, Valid, Facts

LEMMA CountType == Cardinality(Counted) \in Nat
  BY TailoringsAssumption, FS_Subset, FS_CardinalityType DEF Counted

LEMMA NothingLeft == <<>> \in Seq(Facts)
  OBVIOUS

LEMMA InitType == Init => TypeOK
<1> SUFFICES ASSUME Init PROVE TypeOK
  OBVIOUS
<1>1. PICK s \in SpecsOf(kind) : versions = <<New(s)>>
  BY DEF Init
<1>2. versions \in Seq(Object) \ {<<>>}
  BY <1>1, SpecsOfType, NewType, VersionsOne
<1>3. QED
  BY <1>2, AbsentType, NothingLeft DEF Init, TypeOK

LEMMA DoneType ==
    ASSUME Done
    PROVE  /\ pc' = "idle" /\ left' \in Seq(Facts) /\ draft' \in Object /\ fresh' \in BOOLEAN
  BY AbsentType, NothingLeft DEF Done

LEMMA WriteType ==
    ASSUME TypeOK, NEW o \in Object, versions' = Append(versions, o)
    PROVE  versions' \in Seq(Object) \ {<<>>} /\ Current' = o
<1>1. versions \in Seq(Object)
  BY DEF TypeOK
<1>2. QED
  BY <1>1, VersionsAppend DEF Current

LEMMA CheckType ==
    ASSUME TypeOK, Check
    PROVE  /\ Head(left) \in Facts /\ Outcome(draft.spec, Head(left)) \in BOOLEAN
           /\ left' \in Seq(Facts) /\ (pc' = "check" => left' # <<>>)
           /\ draft' \in Object
<1>1. left \in Seq(Facts) /\ left # <<>>
  BY DEF TypeOK, Check
<1>2. Head(left) \in Facts /\ Len(left) \in Nat \ {0}
  BY <1>1
<1>3. Outcome(draft.spec, Head(left)) \in BOOLEAN
  BY <1>2, OutcomeType
<1>4. left' \in Seq(Facts) /\ (Len(left) # 1 => left' # <<>>)
  <2>1. left' = Tail(left)
    BY DEF Check
  <2>2. Tail(left) \in Seq(Facts)
    BY <1>1
  <2>3. Len(left) > 1 => Tail(left) # <<>>
    BY <1>1, VersionsTail
  <2>4. \A n \in Nat \ {0} : n # 1 => n > 1
    OBVIOUS
  <2>5. QED
    BY <1>2, <2>1, <2>2, <2>3, <2>4, Zenon
<1>5. draft' \in Object
  BY <1>2, <1>3 DEF Check, TypeOK, Object
<1>6. QED
  BY <1>2, <1>3, <1>4, <1>5 DEF Check

LEMMA TypeInvariant == TypeOK /\ [Next]_vars => TypeOK'
<1> SUFFICES ASSUME TypeOK, [Next]_vars PROVE TypeOK'
  OBVIOUS
<1>1. CASE Start
  <2>1. CASE Cached.exists
    BY <1>1, <2>1, EndsType, ChecksType DEF Start, TypeOK, world
  <2>2. CASE ~Cached.exists
    BY <1>1, <2>2 DEF Start, TypeOK, world, worker
  <2>3. QED
    BY <2>1, <2>2
<1>2. CASE Check
  BY <1>2, CheckType DEF Check, TypeOK, world
<1>3. CASE Count
  <2>1. draft' \in Object
    BY <1>3, CountType DEF Count, TypeOK, Object
  <2>2. QED
    BY <1>3, <2>1 DEF Count, TypeOK, world
<1>4. CASE CountFails
  BY <1>4 DEF CountFails, TypeOK, world
<1>5. CASE UpdateCommits
  <2>1. versions' \in Seq(Object) \ {<<>>} /\ delayed' \in BOOLEAN
    BY <1>5, WriteType DEF UpdateCommits, TypeOK, Requeued
  <2>2. QED
    BY <1>5, <2>1, DoneType DEF UpdateCommits, TypeOK, world
<1>6. CASE UpdateFails
  BY <1>6, DoneType DEF UpdateFails, TypeOK, world
<1>7. CASE Informer
  <2>1. versions' \in Seq(Object) \ {<<>>}
    BY <1>7, VersionsTail DEF Informer, TypeOK
  <2>2. QED
    BY <1>7, <2>1 DEF Informer, TypeOK, world, worker
<1>8. CASE TimerExpires \/ Resync
  BY <1>8 DEF TimerExpires, Resync, TypeOK, world, worker
<1>9. CASE Restart
  <2>1. versions' \in Seq(Object) \ {<<>>} /\ Current.exists \in BOOLEAN
    BY <1>9, EndsType, VersionsOne DEF Restart, Object
  <2>2. QED
    BY <1>9, <2>1, DoneType DEF Restart, TypeOK, world
<1>10. ASSUME NEW o \in Object, Write(o) PROVE TypeOK'
  <2>1. versions' \in Seq(Object) \ {<<>>}
    BY <1>10, WriteType DEF Write
  <2>2. QED
    BY <1>10, <2>1 DEF Write, TypeOK, world
<1>11. CASE Edit
  <2>1. PICK s \in SpecsOf(kind) : Write([Current EXCEPT !.spec = s])
    BY <1>11 DEF Edit
  <2>2. [Current EXCEPT !.spec = s] \in Object
    BY <2>1, EndsType, SpecsOfType DEF Object
  <2>3. QED
    BY <2>1, <2>2, <1>10
<1>12. CASE Delete
  BY <1>12, <1>10, AbsentType DEF Delete
<1>13. CASE Create
  BY <1>13, <1>10, NewType, SpecsOfType DEF Create
<1>14. CASE ChangeTailoring \/ ChangeService
  BY <1>14, ChangingAssumption DEF ChangeTailoring, ChangeService, TypeOK, worker
<1>15. CASE UNCHANGED vars
  BY <1>15 DEF TypeOK, vars, world, worker
<1>16. QED
  BY <1>1, <1>2, <1>3, <1>4, <1>5, <1>6, <1>7, <1>8, <1>9, <1>11, <1>12, <1>13, <1>14, <1>15
     DEF Next, Worker, Environment

\* Objects, conditions and counts are always of their types, whatever the
\* checks find and users write.
THEOREM TypeCorrect == Spec => []TypeOK
  BY InitType, TypeInvariant, PTL DEF Spec

-----------------------------------------------------------------------------
(* Nothing ends the checks of an Atelier that exists. *)

\* What the steps that move no timer and no version have in common: the worker
\* is at work.
LEMMA NotQuiet == pc # "idle" \/ queue \/ delayed => ~Quiet
  BY DEF Quiet

\* When the informer has delivered everything, Cached is Current.
LEMMA OneVersion ==
    ASSUME TypeOK, Len(versions) = 1 PROVE Cached = Current
  BY DEF TypeOK, Cached, Current

\* A write leaves a version to be delivered.
LEMMA WriteIsDelivered ==
    ASSUME TypeOK, NEW o \in Object, versions' = Append(versions, o)
    PROVE  ~Quiet'
<1>1. Len(versions') = Len(versions) + 1 /\ Len(versions) \in Nat \ {0}
  BY VersionsAppend, VersionsEnds DEF TypeOK
<1>2. QED
  BY <1>1 DEF Quiet

LEMMA EnvironmentWrites ==
    ASSUME TypeOK, Edit \/ Delete \/ Create PROVE ~Quiet' /\ UNCHANGED kind
<1>1. ASSUME NEW o \in Object, Write(o) PROVE ~Quiet' /\ UNCHANGED kind
  BY <1>1, WriteIsDelivered DEF Write, world
<1>2. CASE Edit
  <2>1. PICK s \in SpecsOf(kind) : Write([Current EXCEPT !.spec = s])
    BY <1>2 DEF Edit
  <2>2. [Current EXCEPT !.spec = s] \in Object
    BY EndsType, SpecsOfType DEF Object
  <2>3. QED
    BY <2>1, <2>2, <1>1
<1>3. CASE Delete
  BY <1>3, <1>1, AbsentType DEF Delete
<1>4. CASE Create
  BY <1>4, <1>1, NewType, SpecsOfType DEF Create
<1>5. QED
  BY <1>2, <1>3, <1>4

LEMMA ScheduledInvariant ==
    TypeOK /\ AtelierStaysScheduled /\ [Next]_vars => AtelierStaysScheduled'
<1> SUFFICES ASSUME TypeOK, AtelierStaysScheduled, [Next]_vars
             PROVE  AtelierStaysScheduled'
  OBVIOUS
<1> USE DEF AtelierStaysScheduled
<1>1. CASE Start
  <2>1. CASE Cached.exists
    BY <1>1, <2>1 DEF Start, Quiet
  <2>2. CASE ~Cached.exists
    BY <1>1, <2>2, OneVersion DEF Start, Quiet, Current
  <2>3. QED
    BY <2>1, <2>2
<1>2. CASE Check \/ Count \/ CountFails
  BY <1>2 DEF Check, Count, CountFails, Quiet
<1>3. CASE UpdateCommits
  BY <1>3 DEF UpdateCommits, Requeued, Quiet, world
<1>4. CASE UpdateFails
  BY <1>4 DEF UpdateFails, Quiet
<1>5. CASE Informer \/ TimerExpires \/ Resync
  BY <1>5 DEF Informer, TimerExpires, Resync, Quiet
<1>6. CASE Restart
  BY <1>6 DEF Restart, Quiet, Current, TypeOK
<1>7. CASE Edit \/ Delete \/ Create
  BY <1>7, EnvironmentWrites
<1>8. CASE ChangeTailoring \/ ChangeService
  BY <1>8 DEF ChangeTailoring, ChangeService, Quiet, Current, worker
<1>9. CASE UNCHANGED vars
  BY <1>9 DEF vars, world, worker, Quiet, Current
<1>10. QED
  BY <1>1, <1>2, <1>3, <1>4, <1>5, <1>6, <1>7, <1>8, <1>9 DEF Next, Worker, Environment

\* An Atelier that exists is checked again and again: no error, conflict,
\* deletion, edit or restart leaves it without an event, a timer or the worker.
THEOREM AtelierNeverForgotten == Spec => []AtelierStaysScheduled
<1>1. Init => AtelierStaysScheduled
  BY DEF Init, AtelierStaysScheduled, Quiet
<1>2. QED
  BY <1>1, InitType, TypeInvariant, ScheduledInvariant, PTL DEF Spec

-----------------------------------------------------------------------------
(* A FitProfile that nothing will come back to is judged by its own spec.  *)
(* What the worker has judged so far is tracked through Reconcile.         *)

Judged(o, f) == o.fact[f] = Valid(o.spec, f)

\* The versions are FitProfiles, and the worker's copy is one.
Profiles ==
    kind = "FitProfile" =>
        /\ \A i \in 1 .. Len(versions) : versions[i].spec \in FitProfileSpecs
        /\ draft.spec \in FitProfileSpecs

\* The verdicts that the worker's copy must hold by now.
Progress ==
    kind = "FitProfile" =>
        /\ pc = "check" =>
              \/ left = <<"StrategyValid", "ParametersValid">>
              \/ left = <<"ParametersValid">> /\ Judged(draft, "StrategyValid")
        /\ pc \in {"count", "update"} => \A f \in Validity : Judged(draft, f)

LEMMA ProfilesInit == Init => Profiles /\ Progress
<1> SUFFICES ASSUME Init PROVE Profiles /\ Progress
  OBVIOUS
<1>1. PICK s \in SpecsOf(kind) : versions = <<New(s)>>
  BY DEF Init
<1>2. kind = "FitProfile" => New(s).spec \in FitProfileSpecs
  BY <1>1 DEF SpecsOf, New
<1>3. \A i \in 1 .. Len(versions) : versions[i] = New(s)
  BY <1>1
<1>4. QED
  BY <1>2, <1>3, AbsentType DEF Init, Profiles, Progress, FitProfileSpecs

LEMMA ProfilesEnds ==
    ASSUME TypeOK, Profiles, kind = "FitProfile"
    PROVE  Cached.spec \in FitProfileSpecs /\ Current.spec \in FitProfileSpecs
<1>1. Len(versions) \in Nat \ {0} /\ Cached = versions[1]
  BY VersionsEnds DEF TypeOK, Cached
<1>2. QED
  BY <1>1 DEF Profiles, Current

\* A write of a FitProfile.
LEMMA ProfilesWrite ==
    ASSUME TypeOK, Profiles, NEW o \in Object, versions' = Append(versions, o),
           kind = "FitProfile" => o.spec \in FitProfileSpecs
    PROVE  kind = "FitProfile" => \A i \in 1 .. Len(versions') : versions'[i].spec \in FitProfileSpecs
<1>1. \A i \in 1 .. Len(versions') :
         versions'[i] = o \/ \E j \in 1 .. Len(versions) : versions'[i] = versions[j]
  BY VersionsAppend DEF TypeOK
<1>2. QED
  BY <1>1 DEF Profiles

\* A user's write, or the deletion: the worker's copy stays as it is.
LEMMA ProfilesUserWrite ==
    ASSUME TypeOK, Profiles, Progress, Edit \/ Delete \/ Create
    PROVE  Profiles' /\ Progress'
<1>1. ASSUME NEW o \in Object, Write(o), kind = "FitProfile" => o.spec \in FitProfileSpecs
      PROVE  Profiles' /\ Progress'
  <2>1. /\ versions' = Append(versions, o)
        /\ kind' = kind /\ pc' = pc /\ left' = left /\ draft' = draft
    BY <1>1 DEF Write, world
  <2>2. QED
    BY <1>1, <2>1, ProfilesWrite DEF Profiles, Progress, Judged
<1>2. \A s \in SpecsOf(kind) : kind = "FitProfile" => s \in FitProfileSpecs
  BY DEF SpecsOf
<1>3. CASE Edit
  <2>1. PICK s \in SpecsOf(kind) : Write([Current EXCEPT !.spec = s])
    BY <1>3 DEF Edit
  <2>2. [Current EXCEPT !.spec = s] \in Object /\ [Current EXCEPT !.spec = s].spec = s
    BY EndsType, SpecsOfType DEF Object
  <2>3. QED
    BY <2>1, <2>2, <1>1, <1>2
<1>4. CASE Delete
  BY <1>4, <1>1, AbsentType DEF Delete, FitProfileSpecs
<1>5. CASE Create
  BY <1>5, <1>1, <1>2, NewType, SpecsOfType DEF Create
<1>6. QED
  BY <1>3, <1>4, <1>5

\* One check: its verdict joins those that the copy holds.
LEMMA CheckProgress ==
    ASSUME TypeOK, Profiles, Progress, Check PROVE Profiles' /\ Progress'
<1>1. kind' = kind /\ versions' = versions
  BY DEF Check, world
<1>2. ASSUME kind = "FitProfile" PROVE Profiles' /\ Progress'
  <2>1. /\ draft'.spec = draft.spec
        /\ draft'.fact = [draft.fact EXCEPT ![Head(left)] = Outcome(draft.spec, Head(left))]
        /\ draft.fact \in [Facts -> BOOLEAN] /\ Validity \subseteq Facts
    BY DEF Check, TypeOK, Object, Facts
  <2>2. \A f \in Validity : Outcome(draft.spec, f) = Valid(draft.spec, f)
    BY DEF Outcome, Validity, Services
  <2>3. CASE left = <<"StrategyValid", "ParametersValid">>
    <3>1. Head(left) = "StrategyValid" /\ left' = <<"ParametersValid">> /\ Len(left) = 2
      BY <2>3 DEF Check
    <3>2. Judged(draft', "StrategyValid") /\ pc' = "check"
      BY <2>1, <2>2, <3>1 DEF Judged, Validity, Check
    <3>3. QED
      BY <1>1, <2>1, <3>1, <3>2 DEF Profiles, Progress
  <2>4. CASE left = <<"ParametersValid">> /\ Judged(draft, "StrategyValid")
    <3>1. Head(left) = "ParametersValid" /\ Len(left) = 1 /\ pc' = "count"
      BY <2>4 DEF Check
    <3>2. Judged(draft', "StrategyValid") /\ Judged(draft', "ParametersValid")
      BY <2>1, <2>2, <2>4, <3>1 DEF Judged, Validity
    <3>3. QED
      BY <1>1, <2>1, <3>1, <3>2 DEF Profiles, Progress, Validity
  <2>5. QED
    BY <1>2, <2>3, <2>4 DEF Progress, Check
<1>3. QED
  BY <1>1, <1>2 DEF Profiles, Progress

LEMMA DoneProgress ==
    ASSUME Done, kind' = kind PROVE draft'.spec \in FitProfileSpecs /\ Progress'
  BY AbsentType DEF Done, Progress, FitProfileSpecs

LEMMA ProgressInvariant ==
    TypeOK /\ Profiles /\ Progress /\ [Next]_vars => Profiles' /\ Progress'
<1> SUFFICES ASSUME TypeOK, Profiles, Progress, [Next]_vars PROVE Profiles' /\ Progress'
  OBVIOUS
<1>1. CASE Start
  <2>1. CASE Cached.exists
    <3>1. kind' = kind /\ versions' = versions /\ draft' = Cached /\ pc' = "check"
          /\ left' = Checks(Cached.spec)
      BY <1>1, <2>1 DEF Start, world
    <3>2. kind = "FitProfile" => left' = <<"StrategyValid", "ParametersValid">>
      BY <3>1, ProfilesEnds DEF Checks, FitProfileSpecs
    <3>3. QED
      BY <3>1, <3>2, ProfilesEnds DEF Profiles, Progress
  <2>2. CASE ~Cached.exists
    BY <1>1, <2>2 DEF Start, world, worker, Profiles, Progress, Judged
  <2>3. QED
    BY <2>1, <2>2
<1>2. CASE Check
  BY <1>2, CheckProgress
<1>3. CASE Count \/ CountFails
  <2>1. /\ pc = "count" /\ pc' = "update" /\ kind' = kind /\ versions' = versions
        /\ draft'.spec = draft.spec /\ draft'.fact = draft.fact
    BY <1>3 DEF Count, CountFails, world, TypeOK, Object
  <2>2. QED
    BY <2>1 DEF Profiles, Progress, Judged
<1>4. CASE UpdateCommits
  <2>1. draft'.spec \in FitProfileSpecs /\ Progress' /\ kind' = kind
    BY <1>4, DoneProgress DEF UpdateCommits, world
  <2>2. kind = "FitProfile" => \A i \in 1 .. Len(versions') : versions'[i].spec \in FitProfileSpecs
    <3>1. CASE versions' = Append(versions, draft)
      BY <3>1, ProfilesWrite DEF Profiles, TypeOK
    <3>2. CASE UNCHANGED versions
      BY <3>2 DEF Profiles
    <3>3. QED
      BY <1>4, <3>1, <3>2 DEF UpdateCommits
  <2>3. QED
    BY <2>1, <2>2 DEF Profiles
<1>5. CASE UpdateFails
  BY <1>5, DoneProgress DEF UpdateFails, world, Profiles
<1>6. CASE Informer
  <2>1. \A i \in 1 .. Len(versions') : versions'[i] = versions[i + 1] /\ i + 1 \in 1 .. Len(versions)
    BY <1>6, VersionsTail DEF Informer, TypeOK
  <2>2. QED
    BY <1>6, <2>1 DEF Informer, world, worker, Profiles, Progress, Judged
<1>7. CASE TimerExpires \/ Resync
  BY <1>7 DEF TimerExpires, Resync, world, worker, Profiles, Progress, Judged
<1>8. CASE Restart
  <2>1. kind' = kind /\ draft'.spec \in FitProfileSpecs /\ Progress'
    BY <1>8, DoneProgress DEF Restart, world
  <2>2. \A i \in 1 .. Len(versions') : versions'[i] = Current
    BY <1>8, EndsType, VersionsOne DEF Restart
  <2>3. QED
    BY <2>1, <2>2, ProfilesEnds DEF Profiles
<1>9. CASE Edit \/ Delete \/ Create
  BY <1>9, ProfilesUserWrite
<1>10. CASE ChangeTailoring \/ ChangeService
  BY <1>10 DEF ChangeTailoring, ChangeService, worker, Profiles, Progress, Judged
<1>11. CASE UNCHANGED vars
  BY <1>11 DEF vars, world, worker, Profiles, Progress, Judged
<1>12. QED
  BY <1>1, <1>2, <1>3, <1>4, <1>5, <1>6, <1>7, <1>8, <1>9, <1>10, <1>11
     DEF Next, Worker, Environment

LEMMA JudgedInvariant ==
    TypeOK /\ Profiles /\ Progress /\ QuietFitProfileIsJudged /\ [Next]_vars
      => QuietFitProfileIsJudged'
<1> SUFFICES ASSUME TypeOK, Profiles, Progress, QuietFitProfileIsJudged, [Next]_vars,
                    kind' = "FitProfile", Quiet', Current'.exists
             PROVE  \A f \in Validity : Judged(Current', f)
  BY DEF QuietFitProfileIsJudged, Judged
<1>1. CASE Start
  <2>1. ~Cached.exists
    BY <1>1 DEF Start, Quiet
  <2>2. Len(versions) = 1 /\ Current' = Current
    BY <1>1 DEF Start, Quiet, Current
  <2>3. QED
    BY <2>1, <2>2, OneVersion
<1>2. CASE Check \/ Count \/ CountFails
  BY <1>2 DEF Check, Count, CountFails, Quiet
<1>3. CASE UpdateCommits
  <2>1. kind = "FitProfile" /\ pc = "update" /\ draft \in Object
    BY <1>3 DEF UpdateCommits, world, TypeOK
  <2>2. \A f \in Validity : Judged(draft, f)
    BY <2>1 DEF Progress
  <2>3. Current' = draft
    BY <1>3, <2>1, WriteType DEF UpdateCommits, Current
  <2>4. QED
    BY <2>2, <2>3
<1>4. CASE UpdateFails \/ Informer \/ TimerExpires \/ Resync
  BY <1>4 DEF UpdateFails, Informer, TimerExpires, Resync, Quiet
<1>5. CASE Restart
  BY <1>5 DEF Restart, Quiet, Current, TypeOK
<1>6. CASE Edit \/ Delete \/ Create
  BY <1>6, EnvironmentWrites
<1>7. CASE \/ ChangeTailoring \/ ChangeService
           \/ UNCHANGED vars
  <2>1. /\ kind' = kind /\ queue' = queue /\ delayed' = delayed /\ pc' = pc
        /\ versions' = versions
    BY <1>7 DEF ChangeTailoring, ChangeService, vars, world, worker
  <2>2. QED
    BY <2>1 DEF Quiet, Current, QuietFitProfileIsJudged, Judged
<1>8. QED
  BY <1>1, <1>2, <1>3, <1>4, <1>5, <1>6, <1>7 DEF Next, Worker, Environment

\* When nothing is left to be done for a FitProfile, its status judges the spec
\* it has: no edit during a validation, lost Update or restart leaves the
\* verdict on an older spec behind.
THEOREM VerdictsAreCurrent == Spec => []QuietFitProfileIsJudged
<1>1. Init => QuietFitProfileIsJudged
  BY DEF Init, QuietFitProfileIsJudged, Quiet
<1>2. QED
  BY <1>1, InitType, TypeInvariant, ProfilesInit, ProgressInvariant, JudgedInvariant, PTL
     DEF Spec
=============================================================================
