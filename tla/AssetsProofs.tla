---------------------------- MODULE AssetsProofs ----------------------------
(***************************************************************************)
(* Theorems about Assets: types and the shape of the journal, that what    *)
(* was moved away is kept, and that the result of a rollback is true, for  *)
(* any plan, any directories and any number of changes of others.          *)
(***************************************************************************)
EXTENDS Assets, TLAPS

-----------------------------------------------------------------------------
(* The invariant.  Up to the commit the journal is the record of what was  *)
(* moved away; during a rollback it is split by the entry that is next.    *)

Entries == [target : Targets, backed : BOOLEAN, installed : BOOLEAN]
Phases == {"plan", "validate", "apply", "verify", "rollback"} \cup Ended
Steps == {"stage", "move", "put", "look", "save", "discard", "return"}
Types ==
  /\ disk \in [Targets -> Content] /\ backup \in [Targets -> Content]
  /\ recovery \in [Targets -> Content] /\ taken \in [Targets -> Content]
  /\ seen \in [Targets -> Content]
  /\ staging \subseteq Range(Root) /\ others \subseteq Range(Root)
  /\ at \in 0..(Len(Order) + 1) /\ changes \in 0..MaxChanges
  /\ phase \in Phases /\ step \in Steps
  /\ phase \in {"verify", "committed", "restored", "kept"} => staging = {}
WellFormed(J) ==
  /\ J \in Seq(Entries) /\ Len(J) <= Len(Order)
  /\ \A i, j \in DOMAIN J : J[i].target = J[j].target => i = j
  /\ \A i \in 1..(Len(J) - 1) : J[i].installed
Shape == Types /\ WellFormed(journal)

Backed(t) == \E i \in DOMAIN journal : journal[i].target = t /\ journal[i].backed
Journals(t) == \E i \in DOMAIN journal : journal[i].target = t

\* Before the end of a synchronization: what was moved away is the backup.
Recorded(t) ==
  /\ backup[t] = taken[t] /\ recovery[t] = "none"
  /\ taken[t] # "none" <=> Backed(t)

\* A target belongs to one of the two passes over the plan; the journal holds
\* those before the current one, and the current one between its two moves.
Handles(p, t) == Order[p] = t /\ (t \in Hooks <=> p > Len(Planned))
Placed ==
  /\ at >= 1 /\ step \in {"stage", "move", "put"}
  /\ at <= Len(Order) => step = "stage" \/ Handles(at, Current)
  /\ \A i \in DOMAIN journal :
       \/ journal[i].installed /\ \E p \in 1..(at - 1) : Handles(p, journal[i].target)
       \/ /\ step = "put" /\ at <= Len(Order) /\ i = Len(journal)
          /\ journal[i].target = Current /\ ~journal[i].installed
  /\ \/ Len(journal) <= at - 1
     \/ step = "put" /\ Len(journal) = at /\ journal[at].target = Current

Early ==
  /\ \A t \in Targets : Recorded(t)
  /\ broken = {} /\ buried = {} /\ trouble = {} /\ reported = {}
  /\ phase \in {"plan", "validate"} => journal = <<>> /\ at = 1 /\ step = "stage" /\ staging = {}
  /\ phase = "apply" => Placed
  /\ phase = "verify" => \A i \in DOMAIN journal : journal[i].installed

\* An entry the rollback has not come to; the one it is at; one it has left.
Waiting(e) ==
  /\ backup[e.target] = taken[e.target] /\ recovery[e.target] = "none"
  /\ taken[e.target] # "none" <=> e.backed
InHand(e) ==
  /\ step \in {"look", "save", "discard", "return"}
  /\ step = "look" => Waiting(e)
  /\ step = "save" => e.backed /\ e.installed /\ Waiting(e)
  /\ step = "discard" => e.installed /\ IF e.backed THEN recovery[e.target] = taken[e.target]
                                        ELSE taken[e.target] = "none"
  /\ step = "return" => e.backed /\ IF e.installed THEN recovery[e.target] = taken[e.target]
                                    ELSE Waiting(e)
Known(t) ==
  \/ <<t, "backup">> \in reported /\ backup[t] = taken[t]
  \/ <<t, "recovery">> \in reported /\ recovery[t] = taken[t]
  \/ backup[t] = "torn" /\ recovery[t] = taken[t]
Sibling(t) == \E i \in DOMAIN journal : journal[i].target # t /\ Root[journal[i].target] = Root[t]
Settled(e) ==
  /\ Away(e.target) => Known(e.target)
  /\ "failed" \notin trouble =>
       /\ Away(e.target) =>
            /\ "external" \in trouble
            /\ <<e.target, "backup">> \in reported /\ backup[e.target] = taken[e.target]
       /\ e.installed /\ disk[e.target] = "new" /\ (e.backed => Away(e.target)) =>
            /\ "external" \in trouble /\ e.target \in Skills
            /\ Root[e.target] \in others \/ Sibling(e.target)
Retracing ==
  /\ at <= Len(journal) /\ step \in {"look", "save", "discard", "return"}
  /\ \A i \in DOMAIN journal : i < at => Waiting(journal[i])
  /\ at > 0 => InHand(journal[at])
  /\ \A i \in DOMAIN journal : i > at => Settled(journal[i])
  /\ \A t \in Targets \ broken : taken[t] # "none" => Journals(t)
  /\ \A r \in staging : \E i \in DOMAIN journal :
       /\ r = Root[journal[i].target]
       /\ i > at \/ (i = at /\ step \in {"discard", "return"})

Traced ==
  /\ Shape
  /\ phase \in {"plan", "validate", "apply", "verify"} => Early
  /\ phase = "rollback" => Retracing
  /\ phase \in Ended => OriginalsKept /\ RollbackTruthful

-----------------------------------------------------------------------------
(* The order of the plan, and the entry of the current target.             *)

LEMMA OrderType ==
  /\ Order \in Seq(Targets) /\ Len(Order) = Len(Planned) + Len(Planned) /\ Len(Planned) \in Nat
  /\ \A p \in 1..Len(Order) : Order[p] = Planned[IF p <= Len(Planned) THEN p ELSE p - Len(Planned)]
<1>1. Planned \in Seq(Targets)
  BY AssetsAssumption DEF AssetsAssumption
<1> QED BY <1>1 DEF Order

LEMMA HandledOnce ==
  ASSUME NEW t, NEW p \in 1..Len(Order), NEW q \in 1..Len(Order), Handles(p, t), Handles(q, t)
  PROVE  p = q
<1> DEFINE n == Len(Planned)
           In(k) == IF k <= n THEN k ELSE k - n
<1>1. /\ n \in Nat /\ Len(Order) = n + n /\ DOMAIN Planned = 1..n
      /\ \A a, b \in 1..n : Planned[a] = Planned[b] => a = b
  BY OrderType, AssetsAssumption DEF AssetsAssumption, IsInjective
<1>2. Planned[In(p)] = Planned[In(q)] /\ (p > n <=> q > n)
  BY OrderType DEF Handles
<1>3. In(p) \in 1..n /\ In(q) \in 1..n
  BY <1>1
<1>4. In(p) = In(q)
  BY <1>1, <1>2, <1>3
<1> QED BY <1>1, <1>2, <1>4

\* The journal with the current target at its end, once.
LEMMA WithCurrent ==
  ASSUME Shape, Placed, at <= Len(Order), step = "put", NEW x \in BOOLEAN,
         \A t \in Targets : Recorded(t)
  PROVE  LET J == Journalled(x) IN
         /\ WellFormed(J) /\ Len(J) \in 1..at
         /\ J[Len(J)].target = Current /\ J[Len(J)].installed = x
         /\ J[Len(J)].backed <=> Backed(Current)
         /\ \A i \in 1..(Len(J) - 1) :
              i \in DOMAIN journal /\ J[i] = journal[i] /\ J[i].target # Current /\ J[i].installed
         /\ \A i \in DOMAIN journal :
              journal[i].target = Current \/ (i \in 1..(Len(J) - 1))
<1>1. Current \in Targets /\ at \in 1..Len(Order) /\ journal \in Seq(Entries) /\ Handles(at, Current)
  BY OrderType DEF Shape, Types, WellFormed, Placed, Current
<1> DEFINE n == Len(journal)
           J == Journalled(x)
<1>2. n \in Nat /\ DOMAIN journal = 1..n /\ \A i \in 1..n : journal[i] \in Entries
  BY <1>1
<1> HIDE DEF n
<1>8. at \in Nat /\ n <= at /\ (n = at => n > 0 /\ journal[n].target = Current)
  <2>1. at \in Nat
    BY <1>1, OrderType
  <2>2. n <= at - 1 \/ (n = at /\ journal[at].target = Current)
    BY DEF Placed, n
  <2> QED BY <1>1, <1>2, <2>1, <2>2
<1>3. ASSUME NEW i \in 1..n
      PROVE  IF journal[i].target = Current THEN i = n /\ ~journal[i].installed
             ELSE journal[i].installed
  <2>1. \/ journal[i].installed /\ \E p \in 1..(at - 1) : Handles(p, journal[i].target)
        \/ i = n /\ journal[i].target = Current /\ ~journal[i].installed
    BY <1>2 DEF Placed, n
  <2>2. ASSUME NEW p \in 1..(at - 1), Handles(p, Current) PROVE FALSE
    <3>1. p \in 1..Len(Order) /\ p # at
      BY <1>1, <1>8, OrderType
    <3> QED BY <1>1, <2>2, <3>1, HandledOnce
  <2> QED BY <2>1, <2>2
<1>4. \A i, j \in 1..n : journal[i].target = journal[j].target => i = j
  BY <1>2 DEF Shape, WellFormed
<1>5. CASE n > 0 /\ journal[n].target = Current
  <2> DEFINE e == [journal[n] EXCEPT !.installed = x]
             f == Front(journal)
  <2>1. J = Append(f, e)
    <3>1. journal # <<>> /\ Last(journal) = journal[n]
      BY <1>5 DEF Last, n
    <3> QED BY <1>5, <3>1, Zenon DEF Journalled
  <2>2. e \in Entries /\ e.target = Current /\ e.installed = x /\ e.backed = journal[n].backed
    BY <1>2, <1>5 DEF Entries
  <2>3. f \in Seq(Entries) /\ Len(f) = n - 1 /\ \A i \in 1..(n - 1) : f[i] = journal[i]
    BY <1>1, <1>2, <1>5 DEF Front, n
  <2> HIDE DEF e, f
  <2>4. /\ J \in Seq(Entries) /\ Len(J) = n /\ J[n] = e
        /\ \A i \in 1..(n - 1) : J[i] = journal[i]
    <3> HIDE DEF J
    <3> QED BY <1>2, <1>5, <2>1, <2>2, <2>3
  <2>5. Backed(Current) <=> journal[n].backed
    BY <1>2, <1>3, <1>5 DEF Backed
  <2>7. \A i \in 1..(n - 1) : journal[i].target # Current /\ journal[i].installed
    BY <1>2, <1>4, <1>5 DEF Shape, WellFormed, n
  <2> HIDE DEF J
  <2>8. WellFormed(J)
    BY <1>1, <1>2, <1>4, <1>5, <1>8, <2>2, <2>4, <2>7 DEF WellFormed
  <2> QED BY <1>2, <1>5, <2>2, <2>4, <2>5, <2>7, <2>8, <1>8 DEF J
<1>6. CASE ~(n > 0 /\ journal[n].target = Current)
  <2> DEFINE e == Entry(Current, FALSE, x)
  <2>1. J = Append(journal, e)
    <3>1. ~(journal # <<>> /\ Last(journal).target = Current)
      BY <1>1, <1>2, <1>6 DEF Last, n
    <3> QED BY <3>1, Zenon DEF Journalled
  <2>2. e \in Entries /\ e.target = Current /\ e.installed = x /\ e.backed = FALSE
    BY <1>1 DEF Entry, Entries
  <2> HIDE DEF e
  <2>3. /\ J \in Seq(Entries) /\ Len(J) = n + 1 /\ J[n + 1] = e
        /\ \A i \in 1..n : J[i] = journal[i]
    <3> HIDE DEF J
    <3> QED BY <1>1, <1>2, <2>1, <2>2 DEF n
  <2>4. \A i \in 1..n : journal[i].target # Current /\ journal[i].installed
    BY <1>2, <1>3, <1>6
  <2>5. ~Backed(Current)
    BY <1>2, <2>4 DEF Backed
  <2>6. n <= at - 1
    BY <1>2, <1>6, <1>8
  <2> HIDE DEF J
  <2>8. WellFormed(J)
    BY <1>1, <1>2, <1>4, <1>8, <2>2, <2>3, <2>4, <2>6 DEF WellFormed
  <2> QED BY <1>1, <1>2, <1>8, <2>2, <2>3, <2>4, <2>5, <2>6, <2>8 DEF J
<1> QED BY <1>5, <1>6

-----------------------------------------------------------------------------
(* Applying the plan.                                                      *)

LEMMA EarlyWaiting ==
  ASSUME WellFormed(journal), \A t \in Targets : Recorded(t)
  PROVE  \A i \in DOMAIN journal : journal[i].target \in Targets /\ Waiting(journal[i])
<1> TAKE i \in DOMAIN journal
<1>1. journal[i] \in Entries
  BY DEF WellFormed
<1>2. journal[i].target \in Targets
  BY <1>1 DEF Entries
<1>3. Backed(journal[i].target) <=> journal[i].backed
  BY DEF Backed, WellFormed
<1> QED BY <1>2, <1>3 DEF Recorded, Waiting

\* An exception: every entry waits for the rollback.
LEMMA UndoRetraces ==
  ASSUME NEW J, WellFormed(J), Undo(J),
         \A i \in DOMAIN J :
           /\ backup'[J[i].target] = taken'[J[i].target] /\ recovery'[J[i].target] = "none"
           /\ taken'[J[i].target] # "none" <=> J[i].backed,
         \A t \in Targets \ broken' : taken'[t] # "none" => \E i \in DOMAIN J : J[i].target = t
  PROVE  /\ Retracing' /\ WellFormed(journal)' /\ phase' = "rollback"
         /\ at' \in 0..(Len(Order) + 1) /\ step' \in Steps /\ staging' = {}
<1>1. /\ journal' = J /\ phase' = "rollback" /\ at' = Len(J) /\ step' = "look" /\ staging' = {}
  BY DEF Undo
<1>2. Len(J) \in Nat /\ DOMAIN J = 1..Len(J) /\ Len(J) <= Len(Order)
  BY DEF WellFormed
<1>3. \A i \in DOMAIN J : Waiting(journal[i])'
  BY <1>1 DEF Waiting
<1>4. WellFormed(journal)'
  BY <1>1 DEF WellFormed
<1>5. Len(J) > 0 => InHand(journal[at])'
  BY <1>1, <1>2, <1>3 DEF InHand, Waiting
<1>6. Retracing'
  BY <1>1, <1>2, <1>3, <1>5 DEF Retracing, Journals
<1> QED BY <1>1, <1>2, <1>4, <1>6, OrderType DEF Steps

\* Nothing is moved or journalled.
LEMMA UndoEarly ==
  ASSUME Traced, phase \in {"plan", "validate", "apply", "verify"}, Undo(journal),
         UNCHANGED <<disk, backup, recovery, taken, others, seen, broken, buried, changes>>
  PROVE  Traced'
<1>1. /\ WellFormed(journal) /\ Types /\ \A t \in Targets : Recorded(t)
  BY DEF Traced, Shape, Early
<1>2. \A i \in DOMAIN journal : journal[i].target \in Targets /\ Waiting(journal[i])
  BY <1>1, EarlyWaiting
<1>3. \A t \in Targets \ broken' : taken'[t] # "none" => \E i \in DOMAIN journal : journal[i].target = t
  BY <1>1 DEF Recorded, Backed
<1>4. /\ Retracing' /\ WellFormed(journal)' /\ phase' = "rollback"
      /\ at' \in 0..(Len(Order) + 1) /\ step' \in Steps /\ staging' = {}
  BY <1>1, <1>2, <1>3, UndoRetraces DEF Waiting
<1>5. Types'
  BY <1>1, <1>4 DEF Types, Phases
<1> QED BY <1>4, <1>5 DEF Traced, Shape, Ended

LEMMA TracedPreflight == ASSUME Traced, Preflight PROVE Traced'
<1>1. /\ phase' = "validate" /\ phase = "plan" /\ seen' = disk /\ others' = {}
      /\ UNCHANGED <<disk, backup, recovery, taken, staging, journal, step, at, trouble, reported,
                     broken, buried, changes>>
  BY DEF Preflight, fileVars
<1>2. Types' /\ WellFormed(journal)'
  BY <1>1 DEF Traced, Shape, Types, WellFormed, Phases
<1>3. Early'
  BY <1>1 DEF Traced, Early, Recorded, Backed
<1> QED BY <1>1, <1>2, <1>3 DEF Traced, Shape, Ended

LEMMA TracedValidate == ASSUME Traced, Validate PROVE Traced'
<1>1. /\ phase = "validate"
      /\ UNCHANGED <<disk, backup, recovery, taken, others, seen, trouble, reported, broken, buried, changes>>
  BY DEF Validate, fileVars
<1>2. CASE Undo(journal)
  BY <1>1, <1>2, UndoEarly
<1>3. CASE phase' = "apply" /\ UNCHANGED <<journal, at, step, staging>>
  <2>1. Types' /\ WellFormed(journal)'
    BY <1>1, <1>3 DEF Traced, Shape, Types, WellFormed, Phases
  <2>2. journal = <<>> /\ at = 1 /\ step = "stage"
    BY <1>1 DEF Traced, Early
  <2>3. Placed'
    BY <1>3, <2>2 DEF Placed
  <2>4. Early'
    BY <1>1, <1>3, <2>3 DEF Traced, Early, Recorded, Backed
  <2> QED BY <1>3, <2>1, <2>4 DEF Traced, Shape, Ended
<1> QED BY <1>2, <1>3 DEF Validate

LEMMA RootOfTarget == \A t \in Targets : Root[t] \in Range(Root)
  BY AssetsAssumption DEF AssetsAssumption, Range

LEMMA TracedStage == ASSUME Traced, Stage PROVE Traced'
<1>1. /\ phase = "apply" /\ at <= Len(Order) /\ step = "stage" /\ phase' = "apply"
      /\ UNCHANGED <<disk, backup, recovery, taken, others, seen, journal, trouble, reported,
                     broken, buried, changes>>
  BY DEF Stage, Applying, fileVars
<1>2. Early /\ Placed /\ Shape /\ Types /\ WellFormed(journal)
  BY <1>1 DEF Traced, Early, Shape
<1>3. at \in 1..Len(Order) /\ Current \in Targets /\ Len(journal) \in Nat /\ Len(Order) \in Nat
      /\ DOMAIN journal = 1..Len(journal)
  BY <1>1, <1>2, OrderType DEF Placed, Types, WellFormed, Current
<1>4. Len(journal) <= at - 1 /\ \A i \in DOMAIN journal :
        journal[i].installed /\ \E p \in 1..(at - 1) : Handles(p, journal[i].target)
  BY <1>1, <1>2 DEF Placed
<1>5. CASE Skipped /\ at' = at + 1 /\ UNCHANGED <<step, staging>>
  <2>1. Types' /\ WellFormed(journal)'
    BY <1>1, <1>2, <1>3, <1>5 DEF Types, WellFormed
  <2>2. Placed'
    <3>1. \A i \in DOMAIN journal' :
            journal'[i].installed /\ \E p \in 1..(at' - 1) : Handles(p, journal'[i].target)
      BY <1>1, <1>3, <1>4, <1>5
    <3> QED BY <1>1, <1>3, <1>4, <1>5, <3>1 DEF Placed, Handles
  <2>3. Early'
    BY <1>1, <1>2, <2>2 DEF Early, Recorded, Backed
  <2> QED BY <1>1, <2>1, <2>3 DEF Traced, Shape, Ended
<1>6. CASE ~Skipped /\ at' = at /\ staging' = staging \cup {Root[Current]} /\ step' \in {"put", "move"}
  <2>1. Types' /\ WellFormed(journal)'
    BY <1>1, <1>2, <1>3, <1>6, RootOfTarget DEF Types, WellFormed, Steps
  <2>2. Handles(at, Current)
    BY <1>1, <1>3, <1>6, OrderType DEF Skipped, Handles, Current
  <2>3. Placed'
    <3>1. Current' = Current /\ Handles(at, Current)'
      BY <1>6, <2>2 DEF Handles, Current
    <3>2. \A i \in DOMAIN journal' :
            journal'[i].installed /\ \E p \in 1..(at' - 1) : Handles(p, journal'[i].target)
      BY <1>1, <1>4, <1>6
    <3>3. at' >= 1 /\ step' \in {"stage", "move", "put"} /\ Len(journal') <= at' - 1
      BY <1>1, <1>3, <1>4, <1>6
    <3> QED BY <3>1, <3>2, <3>3 DEF Placed, Handles
  <2>4. Early'
    BY <1>1, <1>2, <2>3 DEF Early, Recorded, Backed
  <2> QED BY <1>1, <2>1, <2>4 DEF Traced, Shape, Ended
<1> QED BY <1>5, <1>6 DEF Stage

\* Where the apply phase stands, once for the actions that follow.
LEMMA AtCurrent ==
  ASSUME Traced, phase = "apply", at <= Len(Order)
  PROVE  /\ Early /\ Placed /\ Types /\ WellFormed(journal) /\ Shape
         /\ at \in 1..Len(Order) /\ Current \in Targets
         /\ Len(journal) \in Nat /\ Len(Order) \in Nat /\ DOMAIN journal = 1..Len(journal)
         /\ \A t \in Targets : Recorded(t)
         /\ \A i \in DOMAIN journal : journal[i] \in Entries /\ journal[i].target \in Targets
         /\ step # "put" => /\ Len(journal) <= at - 1
                            /\ ~Journals(Current) \/ step = "stage"
                            /\ \A i \in DOMAIN journal : journal[i].installed
                                 /\ \E p \in 1..(at - 1) : Handles(p, journal[i].target)
<1>1. Early /\ Placed /\ Types /\ WellFormed(journal) /\ Shape
  BY DEF Traced, Early, Shape
<1>2. /\ at \in 1..Len(Order) /\ Current \in Targets /\ Len(journal) \in Nat /\ Len(Order) \in Nat
      /\ DOMAIN journal = 1..Len(journal)
  BY <1>1, OrderType DEF Placed, Types, WellFormed, Current
<1>3. \A i \in DOMAIN journal : journal[i] \in Entries /\ journal[i].target \in Targets
  <2>1. journal \in Seq(Entries)
    BY <1>1 DEF WellFormed
  <2>2. \A i \in DOMAIN journal : journal[i] \in Entries
    BY <2>1
  <2>3. \A f \in Entries : f.target \in Targets
    BY DEF Entries
  <2> QED BY <2>2, <2>3
<1>4. ASSUME step # "put"
      PROVE  /\ Len(journal) <= at - 1
             /\ \A i \in DOMAIN journal : journal[i].installed
                  /\ \E p \in 1..(at - 1) : Handles(p, journal[i].target)
  BY <1>1, <1>4 DEF Placed
<1>5. ASSUME step # "put", step # "stage" PROVE ~Journals(Current)
  <2>1. Handles(at, Current)
    BY <1>1, <1>5 DEF Placed
  <2>2. ASSUME NEW i \in DOMAIN journal, journal[i].target = Current PROVE FALSE
    <3>1. PICK p \in 1..(at - 1) : Handles(p, Current)
      BY <1>4, <1>5, <2>2
    <3>2. p \in 1..Len(Order) /\ p # at
      BY <1>2
    <3> QED BY <1>2, <2>1, <3>1, <3>2, HandledOnce
  <2> QED BY <2>2 DEF Journals
<1> QED BY <1>1, <1>2, <1>3, <1>4, <1>5 DEF Early

LEMMA TracedApplyFails == ASSUME Traced, ApplyFails PROVE Traced'
<1>1. /\ phase = "apply" /\ at <= Len(Order) /\ Undo(journal)
      /\ UNCHANGED <<others, seen, trouble, reported, buried, changes>>
  BY DEF ApplyFails, Applying
<1>2. CASE UNCHANGED <<disk, backup, recovery, taken, broken>>
  BY <1>1, <1>2, UndoEarly
<1>3. CASE /\ step = "move" /\ disk[Current] # "none"
           /\ disk' = [disk EXCEPT ![Current] = "torn"]
           /\ backup' = [backup EXCEPT ![Current] = disk[Current]]
           /\ taken' = [taken EXCEPT ![Current] = disk[Current]]
           /\ broken' = broken \cup {Current} /\ UNCHANGED recovery
  <2>1. /\ Early /\ Types /\ WellFormed(journal) /\ Current \in Targets /\ ~Journals(Current)
        /\ \A t \in Targets : Recorded(t)
        /\ \A i \in DOMAIN journal : journal[i].target \in Targets
    BY <1>1, <1>3, AtCurrent
  <2>2. \A i \in DOMAIN journal : journal[i].target # Current /\ Waiting(journal[i])
    BY <2>1, EarlyWaiting DEF Journals
  <2>3. \A t \in Targets \ broken' :
          taken'[t] # "none" => \E i \in DOMAIN journal : journal[i].target = t
    BY <1>3, <2>1 DEF Types, Recorded, Backed
  <2>4. \A i \in DOMAIN journal :
          /\ backup'[journal[i].target] = taken'[journal[i].target]
          /\ recovery'[journal[i].target] = "none"
          /\ taken'[journal[i].target] # "none" <=> journal[i].backed
    BY <1>3, <2>1, <2>2 DEF Types, Waiting
  <2>5. /\ Retracing' /\ WellFormed(journal)' /\ phase' = "rollback"
        /\ at' \in 0..(Len(Order) + 1) /\ step' \in Steps /\ staging' = {}
    BY <1>1, <2>1, <2>3, <2>4, UndoRetraces
  <2>6. disk[Current] \in Content
    BY <2>1 DEF Types, Recorded
  <2>7. Types'
    BY <1>1, <1>3, <2>1, <2>5, <2>6 DEF Types, Phases, Content
  <2> QED BY <2>5, <2>7 DEF Traced, Shape, Ended
<1>4. \/ UNCHANGED <<disk, backup, recovery, taken, broken>>
      \/ /\ step = "move" /\ disk[Current] # "none"
         /\ disk' = [disk EXCEPT ![Current] = "torn"]
         /\ backup' = [backup EXCEPT ![Current] = disk[Current]]
         /\ taken' = [taken EXCEPT ![Current] = disk[Current]]
         /\ broken' = broken \cup {Current} /\ UNCHANGED recovery
  BY DEF ApplyFails, fileVars
<1> QED BY <1>2, <1>3, <1>4

LEMMA TracedMoveAway == ASSUME Traced, MoveAway PROVE Traced'
<1> DEFINE e == Entry(Current, TRUE, FALSE)
<1>1. /\ phase = "apply" /\ at <= Len(Order) /\ step = "move" /\ disk[Current] # "none"
      /\ disk' = [disk EXCEPT ![Current] = "none"]
      /\ backup' = [backup EXCEPT ![Current] = disk[Current]]
      /\ taken' = [taken EXCEPT ![Current] = disk[Current]]
      /\ journal' = Append(journal, e) /\ step' = "put"
      /\ UNCHANGED <<others, staging, recovery, seen, phase, at, trouble, reported, broken, buried, changes>>
  BY DEF MoveAway, Applying
<1>2. /\ Early /\ Placed /\ Types /\ WellFormed(journal) /\ Current \in Targets /\ ~Journals(Current)
      /\ at \in 1..Len(Order) /\ Len(journal) <= at - 1 /\ Len(journal) \in Nat /\ Len(Order) \in Nat
      /\ DOMAIN journal = 1..Len(journal)
      /\ \A t \in Targets : Recorded(t)
      /\ \A i \in DOMAIN journal : journal[i].installed
           /\ \E p \in 1..(at - 1) : Handles(p, journal[i].target)
  BY <1>1, AtCurrent
<1>3. e \in Entries /\ e.target = Current /\ e.backed = TRUE /\ e.installed = FALSE
  BY <1>2 DEF Entry, Entries
<1> HIDE DEF e
<1> DEFINE n == Len(journal)
<1>4. /\ journal' \in Seq(Entries) /\ Len(journal') = n + 1 /\ journal'[n + 1] = e
      /\ \A i \in 1..n : journal'[i] = journal[i]
      /\ DOMAIN journal' = 1..(n + 1)
  BY <1>1, <1>2, <1>3 DEF WellFormed
<1>5. \A i \in 1..n : journal[i].target # Current
  BY <1>2 DEF Journals
<1>6. disk[Current] \in Content \ {"none"}
  BY <1>1, <1>2 DEF Types, Recorded
<1>7. Types'
  BY <1>1, <1>2, <1>6 DEF Types, Phases, Content, Steps
<1>8. WellFormed(journal)'
  BY <1>2, <1>3, <1>4, <1>5 DEF WellFormed
<1>9. Current' = Current /\ Handles(at, Current)'
  <2>1. Handles(at, Current)
    BY <1>1, <1>2 DEF Placed
  <2> QED BY <1>1, <2>1 DEF Handles, Current
<1>10. Placed'
  <2>1. ASSUME NEW i \in 1..(n + 1)
        PROVE  \/ journal'[i].installed /\ \E p \in 1..(at' - 1) : Handles(p, journal'[i].target)
               \/ i = n + 1 /\ journal'[i].target = Current' /\ ~journal'[i].installed
    BY <1>1, <1>2, <1>3, <1>4, <1>9
  <2>2. Len(journal') <= at' - 1 \/ (Len(journal') = at' /\ journal'[at'].target = Current')
    BY <1>1, <1>2, <1>3, <1>4, <1>9
  <2> QED BY <1>1, <1>2, <1>4, <1>9, <2>1, <2>2 DEF Placed, Handles
<1>11. \A t \in Targets : Recorded(t)'
  <2> SUFFICES ASSUME NEW t \in Targets PROVE Recorded(t)'
    OBVIOUS
  <2>1. CASE t = Current
    <3>1. Backed(t)'
      BY <1>2, <1>3, <1>4, <2>1 DEF Backed
    <3> QED BY <1>1, <1>2, <1>6, <2>1, <3>1 DEF Recorded, Types
  <2>2. CASE t # Current
    <3>1. Backed(t)' <=> Backed(t)
      BY <1>2, <1>3, <1>4, <2>2 DEF Backed
    <3> QED BY <1>1, <1>2, <2>2, <3>1 DEF Recorded, Types
  <2> QED BY <2>1, <2>2
<1>12. Early'
  BY <1>1, <1>2, <1>10, <1>11 DEF Early
<1> QED BY <1>1, <1>7, <1>8, <1>12 DEF Traced, Shape, Ended

LEMMA TracedPut == ASSUME Traced, Put PROVE Traced'
<1> DEFINE J == Journalled(TRUE)
<1>1. /\ phase = "apply" /\ at <= Len(Order) /\ step = "put"
      /\ disk' = [disk EXCEPT ![Current] = "new"]
      /\ journal' = J /\ step' = "stage" /\ at' = at + 1
      /\ UNCHANGED <<others, staging, backup, recovery, seen, phase, trouble, reported, taken,
                     broken, buried, changes>>
  BY DEF Put, Applying
<1>2. /\ Early /\ Placed /\ Types /\ WellFormed(journal) /\ Shape /\ Current \in Targets
      /\ at \in 1..Len(Order) /\ Len(journal) \in Nat /\ Len(Order) \in Nat
      /\ DOMAIN journal = 1..Len(journal)
      /\ \A t \in Targets : Recorded(t)
  BY <1>1, AtCurrent
<1>3. /\ WellFormed(J) /\ Len(J) \in 1..at
      /\ J[Len(J)].target = Current /\ J[Len(J)].installed = TRUE
      /\ J[Len(J)].backed <=> Backed(Current)
      /\ \A i \in 1..(Len(J) - 1) :
           i \in DOMAIN journal /\ J[i] = journal[i] /\ J[i].target # Current /\ J[i].installed
      /\ \A i \in DOMAIN journal : journal[i].target = Current \/ (i \in 1..(Len(J) - 1))
  BY <1>1, <1>2, WithCurrent
<1>4. Len(J) \in Nat /\ DOMAIN J = 1..Len(J) /\ Len(J) >= 1
  <2>1. J \in Seq(Entries)
    BY <1>3 DEF WellFormed
  <2> HIDE DEF J
  <2>2. Len(J) \in Nat /\ DOMAIN J = 1..Len(J)
    BY <2>1
  <2> QED BY <1>3, <2>2
<1>5. Handles(at, Current)
  BY <1>1, <1>2 DEF Placed
<1> HIDE DEF J
<1>6. ASSUME NEW i \in DOMAIN J
      PROVE  J[i].installed /\ \E p \in 1..at : Handles(p, J[i].target)
  <2>1. CASE i = Len(J)
    BY <1>2, <1>3, <1>5, <2>1
  <2>2. CASE i # Len(J)
    <3>1. i \in 1..(Len(J) - 1)
      BY <1>4, <2>2
    <3>2. i \in DOMAIN journal /\ J[i] = journal[i] /\ J[i].target # Current /\ J[i].installed
      BY <1>3, <3>1
    <3>3. \E p \in 1..(at - 1) : Handles(p, journal[i].target)
      BY <1>2, <3>2 DEF Placed
    <3> QED BY <1>2, <3>2, <3>3
  <2> QED BY <2>1, <2>2
<1>7. Types'
  BY <1>1, <1>2 DEF Types, Content, Steps
<1>8. WellFormed(journal)'
  BY <1>1, <1>3 DEF WellFormed
<1>9. Placed'
  <2>1. \A i \in DOMAIN journal' :
          journal'[i].installed /\ \E p \in 1..(at' - 1) : Handles(p, journal'[i].target)
    <3>1. at' - 1 = at
      BY <1>1, <1>2
    <3> QED BY <1>1, <1>6, <3>1
  <2>2. at' >= 1 /\ step' \in {"stage", "move", "put"} /\ Len(journal') <= at' - 1
    BY <1>1, <1>2, <1>3, <1>4
  <2> QED BY <1>1, <2>1, <2>2 DEF Placed, Handles
<1>10. \A t \in Targets : Recorded(t)'
  <2> SUFFICES ASSUME NEW t \in Targets PROVE Recorded(t)'
    OBVIOUS
  <2>1. Backed(t)' <=> Backed(t)
    <3>1. CASE t = Current
      BY <1>1, <1>3, <1>4, <3>1 DEF Backed
    <3>2. CASE t # Current
      <4>1. ASSUME NEW i \in DOMAIN J, J[i].target = t, J[i].backed PROVE Backed(t)
        <5>1. i \in 1..(Len(J) - 1)
          BY <1>3, <1>4, <3>2, <4>1
        <5> QED BY <1>3, <4>1, <5>1 DEF Backed
      <4>2. ASSUME NEW i \in DOMAIN journal, journal[i].target = t, journal[i].backed
            PROVE  \E k \in DOMAIN J : J[k].target = t /\ J[k].backed
        <5>1. i \in 1..(Len(J) - 1)
          BY <1>3, <3>2, <4>2
        <5>2. i \in DOMAIN J /\ J[i] = journal[i]
          BY <1>3, <1>4, <5>1
        <5> QED BY <4>2, <5>2
      <4> QED BY <1>1, <4>1, <4>2 DEF Backed
    <3> QED BY <3>1, <3>2
  <2>2. Recorded(t)
    BY <1>2
  <2> QED BY <1>1, <1>2, <2>1, <2>2 DEF Recorded, Types
<1>11. Early'
  BY <1>1, <1>2, <1>9, <1>10 DEF Early
<1> QED BY <1>1, <1>7, <1>8, <1>11 DEF Traced, Shape, Ended

LEMMA TracedPutFails == ASSUME Traced, PutFails PROVE Traced'
<1> DEFINE J == Journalled(FALSE)
<1>1. /\ phase = "apply" /\ at <= Len(Order) /\ step = "put" /\ Undo(J)
      /\ UNCHANGED <<disk, backup, recovery, taken, others, seen, trouble, reported, broken, buried, changes>>
  BY DEF PutFails, Applying, fileVars
<1>2. /\ Early /\ Placed /\ Types /\ WellFormed(journal) /\ Shape /\ Current \in Targets
      /\ \A t \in Targets : Recorded(t)
  BY <1>1, AtCurrent
<1>3. /\ WellFormed(J) /\ Len(J) \in 1..at
      /\ J[Len(J)].target = Current /\ J[Len(J)].installed = FALSE
      /\ J[Len(J)].backed <=> Backed(Current)
      /\ \A i \in 1..(Len(J) - 1) :
           i \in DOMAIN journal /\ J[i] = journal[i] /\ J[i].target # Current /\ J[i].installed
      /\ \A i \in DOMAIN journal : journal[i].target = Current \/ (i \in 1..(Len(J) - 1))
  BY <1>1, <1>2, WithCurrent
<1>4. Len(J) \in Nat /\ DOMAIN J = 1..Len(J) /\ Len(J) >= 1
  <2>1. J \in Seq(Entries)
    BY <1>3 DEF WellFormed
  <2> HIDE DEF J
  <2>2. Len(J) \in Nat /\ DOMAIN J = 1..Len(J)
    BY <2>1
  <2> QED BY <1>3, <2>2
<1> HIDE DEF J
<1>5. \A i \in DOMAIN journal : journal[i].target \in Targets /\ Waiting(journal[i])
  BY <1>2, EarlyWaiting
<1>6. \A i \in DOMAIN J : Waiting(J[i])
  <2> SUFFICES ASSUME NEW i \in DOMAIN J PROVE Waiting(J[i])
    OBVIOUS
  <2>1. CASE i = Len(J)
    BY <1>2, <1>3, <2>1 DEF Waiting, Recorded
  <2>2. CASE i # Len(J)
    <3>1. i \in 1..(Len(J) - 1)
      BY <1>4, <2>2
    <3> QED BY <1>3, <1>5, <3>1
  <2> QED BY <2>1, <2>2
<1>7. ASSUME NEW t \in Targets, taken[t] # "none" PROVE \E i \in DOMAIN J : J[i].target = t
  <2>1. PICK i \in DOMAIN journal : journal[i].target = t
    BY <1>2, <1>7 DEF Recorded, Backed
  <2>2. CASE t = Current
    BY <1>3, <1>4, <2>2
  <2>3. CASE t # Current
    <3>1. i \in 1..(Len(J) - 1)
      BY <1>3, <2>1, <2>3
    <3> QED BY <1>3, <1>4, <2>1, <3>1
  <2> QED BY <2>2, <2>3
<1>8. /\ Retracing' /\ WellFormed(journal)' /\ phase' = "rollback"
      /\ at' \in 0..(Len(Order) + 1) /\ step' \in Steps /\ staging' = {}
  BY <1>1, <1>3, <1>6, <1>7, UndoRetraces DEF Waiting
<1>9. Types'
  BY <1>1, <1>2, <1>8 DEF Types, Phases
<1> QED BY <1>8, <1>9 DEF Traced, Shape, Ended

LEMMA TracedApplied == ASSUME Traced, Applied PROVE Traced'
<1>1. /\ phase = "apply" /\ at > Len(Order) /\ phase' = "verify" /\ staging' = {}
      /\ UNCHANGED <<disk, backup, recovery, taken, others, seen, journal, step, at, trouble,
                     reported, broken, buried, changes>>
  BY DEF Applied, fileVars
<1>2. Early /\ Placed /\ Types /\ WellFormed(journal)
  BY <1>1 DEF Traced, Shape, Early
<1>3. Len(Order) \in Nat /\ at \in Nat
  BY <1>2, OrderType DEF Types
<1>4. \A i \in DOMAIN journal : journal[i].installed
  BY <1>1, <1>2, <1>3 DEF Placed
<1>5. Types' /\ WellFormed(journal)'
  BY <1>1, <1>2 DEF Types, Phases, WellFormed
<1>6. Early'
  BY <1>1, <1>2, <1>4 DEF Early, Recorded, Backed
<1> QED BY <1>1, <1>5, <1>6 DEF Traced, Shape, Ended

LEMMA TracedVerify == ASSUME Traced, Verify PROVE Traced'
<1>1. /\ phase = "verify"
      /\ UNCHANGED <<disk, recovery, taken, others, seen, trouble, reported, broken, buried, changes>>
  BY DEF Verify
<1>2. CASE Undo(journal) /\ UNCHANGED backup
  BY <1>1, <1>2, UndoEarly
<1>3. CASE /\ phase' = "committed" /\ backup' = [t \in Targets |-> "none"]
           /\ UNCHANGED <<journal, at, step, staging>>
  <2>1. Types' /\ WellFormed(journal)'
    BY <1>1, <1>3 DEF Traced, Shape, Types, WellFormed, Phases, Ended, Content
  <2>2. OriginalsKept' /\ RollbackTruthful'
    BY <1>3 DEF OriginalsKept, RollbackTruthful
  <2> QED BY <1>3, <2>1, <2>2 DEF Traced, Shape
<1> QED BY <1>2, <1>3 DEF Verify

-----------------------------------------------------------------------------
(* Rolling back.                                                           *)

LEMMA AtUndone ==
  ASSUME Traced, phase = "rollback", at > 0
  PROVE  /\ Retracing /\ Types /\ WellFormed(journal) /\ Shape
         /\ at \in DOMAIN journal /\ at \in Nat /\ Undone \in Entries
         /\ Undone.target \in Targets /\ Undone.backed \in BOOLEAN /\ Undone.installed \in BOOLEAN
         /\ InHand(Undone) /\ DOMAIN journal = 1..Len(journal) /\ Len(journal) \in Nat
         /\ \A i \in DOMAIN journal : /\ journal[i].target \in Targets
                                      /\ i # at => journal[i].target # Undone.target
<1>1. Retracing /\ Types /\ WellFormed(journal) /\ Shape
  BY DEF Traced, Shape
<1>2. journal \in Seq(Entries) /\ Len(journal) \in Nat /\ DOMAIN journal = 1..Len(journal)
  <2>1. journal \in Seq(Entries)
    BY <1>1 DEF WellFormed
  <2> QED BY <2>1
<1>3. at \in Nat /\ at \in DOMAIN journal
  BY <1>1, <1>2, OrderType DEF Types, Retracing
<1>4. \A i \in DOMAIN journal : journal[i] \in Entries
  BY <1>2
<1>5. \A e \in Entries : e.target \in Targets /\ e.backed \in BOOLEAN /\ e.installed \in BOOLEAN
  BY DEF Entries
<1>6. Undone \in Entries /\ InHand(Undone)
  BY <1>1, <1>3, <1>4 DEF Undone, Retracing
<1>7. \A i \in DOMAIN journal : i # at => journal[i].target # Undone.target
  BY <1>1, <1>3 DEF Undone, WellFormed
<1> QED BY <1>1, <1>2, <1>3, <1>4, <1>5, <1>6, <1>7

\* What a step of the rollback leaves as it is.
Frame ==
  /\ UNCHANGED <<journal, phase, others, broken>>
  /\ buried \subseteq buried' /\ buried' \subseteq buried \cup {Undone.target}
  /\ trouble \subseteq trouble' /\ reported \subseteq reported'
  /\ \A t \in Targets \ {Undone.target} :
       disk'[t] = disk[t] /\ backup'[t] = backup[t] /\ recovery'[t] = recovery[t] /\ taken'[t] = taken[t]

LEMMA FrameKeeps ==
  ASSUME Traced, phase = "rollback", at > 0, Frame, NEW i \in DOMAIN journal, i # at
  PROVE  /\ Waiting(journal[i]) => Waiting(journal[i])'
         /\ Settled(journal[i]) => Settled(journal[i])'
<1>1. /\ journal[i].target \in Targets \ {Undone.target}
      /\ journal' = journal
  BY AtUndone DEF Frame
<1> DEFINE t == journal[i].target
<1>2. /\ disk'[t] = disk[t] /\ backup'[t] = backup[t] /\ recovery'[t] = recovery[t]
      /\ taken'[t] = taken[t] /\ others' = others /\ trouble \subseteq trouble' /\ reported \subseteq reported'
      /\ Away(t)' <=> Away(t)
  BY <1>1 DEF Frame, Away
<1>3. Waiting(journal[i]) => Waiting(journal[i])'
  BY <1>1, <1>2 DEF Waiting
<1>4. Known(t) => Known(t)'
  BY <1>1, <1>2 DEF Known
<1>5. Sibling(t) => Sibling(t)'
  BY <1>1 DEF Sibling
<1>6. Settled(journal[i]) => Settled(journal[i])'
  BY <1>1, <1>2, <1>4, <1>5 DEF Settled
<1> QED BY <1>3, <1>6

LEMMA RetraceNext ==
  ASSUME Traced, phase = "rollback", at > 0, Frame, NextEntry, NEW e, e = Undone, Settled(e)',
         staging' \subseteq staging \cup {Root[Undone.target]}
  PROVE  Retracing' /\ WellFormed(journal)' /\ at' \in 0..(Len(Order) + 1) /\ step' \in Steps
<1>1. /\ Retracing /\ Types /\ WellFormed(journal) /\ at \in DOMAIN journal /\ at \in Nat
      /\ DOMAIN journal = 1..Len(journal) /\ Len(journal) \in Nat
  BY AtUndone
<1>2. journal' = journal /\ at' = at - 1 /\ step' = "look" /\ broken' = broken
  BY DEF Frame, NextEntry
<1>3. \A i \in DOMAIN journal' : i < at => Waiting(journal[i])'
  BY <1>1, <1>2, FrameKeeps DEF Retracing
<1>4. \A i \in DOMAIN journal' : i > at' => Settled(journal[i])'
  <2> SUFFICES ASSUME NEW i \in DOMAIN journal, i > at' PROVE Settled(journal[i])'
    BY <1>2
  <2>1. CASE i = at
    <3>1. e = journal'[i]
      BY <1>2, <2>1 DEF Undone
    <3> QED BY <3>1
  <2>2. CASE i # at
    <3>1. i > at
      BY <1>1, <1>2, <2>2
    <3> QED BY <1>1, <2>2, <3>1, FrameKeeps DEF Retracing
  <2> QED BY <2>1, <2>2
<1>5. at' > 0 => InHand(journal[at])'
  <2> SUFFICES ASSUME at' > 0 PROVE InHand(journal[at])'
    OBVIOUS
  <2>1. at' \in DOMAIN journal' /\ at' < at
    BY <1>1, <1>2
  <2>2. Waiting(journal[at])'
    BY <1>3, <2>1
  <2> QED BY <1>2, <2>2 DEF InHand, Waiting
<1>6. \A t \in Targets \ broken' : taken'[t] # "none" => Journals(t)'
  <2> SUFFICES ASSUME NEW t \in Targets \ broken, taken'[t] # "none" PROVE Journals(t)'
    BY <1>2
  <2>1. CASE t = Undone.target
    BY <1>1, <1>2, <2>1 DEF Journals, Undone
  <2>2. CASE t # Undone.target
    BY <1>1, <1>2, <2>2 DEF Frame, Retracing, Journals
  <2> QED BY <2>1, <2>2
<1>7. \A r \in staging' : \E i \in DOMAIN journal' :
        /\ r = Root[journal'[i].target]
        /\ i > at' \/ (i = at' /\ step' \in {"discard", "return"})
  <2> SUFFICES ASSUME NEW r \in staging'
               PROVE  \E i \in DOMAIN journal : r = Root[journal[i].target] /\ i > at'
    BY <1>2
  <2>1. CASE r \in staging
    <3>1. PICK i \in DOMAIN journal : r = Root[journal[i].target] /\ (i > at \/ i = at)
      BY <1>1, <2>1 DEF Retracing
    <3> QED BY <1>1, <1>2, <3>1
  <2>2. CASE r = Root[Undone.target]
    BY <1>1, <1>2, <2>2 DEF Undone
  <2> QED BY <2>1, <2>2
<1>8. Retracing'
  <2>1. at' <= Len(journal') /\ step' \in {"look", "save", "discard", "return"}
    BY <1>1, <1>2
  <2>2. \A i \in DOMAIN journal' : i < at' => Waiting(journal[i])'
    BY <1>1, <1>2, <1>3
  <2> QED BY <2>1, <2>2, <1>4, <1>5, <1>6, <1>7 DEF Retracing
<1>9. WellFormed(journal)'
  BY <1>1, <1>2 DEF WellFormed
<1> QED BY <1>1, <1>2, <1>8, <1>9, OrderType DEF Types, Steps

LEMMA RetraceStay ==
  ASSUME Traced, phase = "rollback", at > 0, Frame, UNCHANGED at, NEW e, e = Undone, InHand(e)',
         \A r \in staging' : r \in staging \/ (r = Root[Undone.target] /\ step' \in {"discard", "return"}),
         step \in {"discard", "return"} => step' \in {"discard", "return"}
  PROVE  Retracing' /\ WellFormed(journal)' /\ at' \in 0..(Len(Order) + 1) /\ step' \in Steps
<1>1. /\ Retracing /\ Types /\ WellFormed(journal) /\ at \in DOMAIN journal /\ at \in Nat
      /\ DOMAIN journal = 1..Len(journal) /\ Len(journal) \in Nat
  BY AtUndone
<1>2. journal' = journal /\ at' = at /\ broken' = broken
  BY DEF Frame
<1>3. \A i \in DOMAIN journal' : i < at' => Waiting(journal[i])'
  BY <1>1, <1>2, FrameKeeps DEF Retracing
<1>4. \A i \in DOMAIN journal' : i > at' => Settled(journal[i])'
  BY <1>1, <1>2, FrameKeeps DEF Retracing
<1>5. InHand(journal[at])'
  <2>1. e = journal'[at']
    BY <1>2 DEF Undone
  <2> QED BY <2>1
<1>6. \A t \in Targets \ broken' : taken'[t] # "none" => Journals(t)'
  <2> SUFFICES ASSUME NEW t \in Targets \ broken, taken'[t] # "none" PROVE Journals(t)'
    BY <1>2
  <2>1. CASE t = Undone.target
    BY <1>1, <1>2, <2>1 DEF Journals, Undone
  <2>2. CASE t # Undone.target
    BY <1>1, <1>2, <2>2 DEF Frame, Retracing, Journals
  <2> QED BY <2>1, <2>2
<1>7. \A r \in staging' : \E i \in DOMAIN journal' :
        /\ r = Root[journal'[i].target]
        /\ i > at' \/ (i = at' /\ step' \in {"discard", "return"})
  <2> SUFFICES ASSUME NEW r \in staging'
               PROVE  \E i \in DOMAIN journal :
                        /\ r = Root[journal[i].target]
                        /\ i > at \/ (i = at /\ step' \in {"discard", "return"})
    BY <1>2
  <2>1. CASE r \in staging
    BY <1>1, <2>1 DEF Retracing
  <2>2. CASE r = Root[Undone.target] /\ step' \in {"discard", "return"}
    BY <1>1, <2>2 DEF Undone
  <2> QED BY <2>1, <2>2
<1>8. step' \in {"look", "save", "discard", "return"}
  BY <1>5 DEF InHand
<1>9. Retracing'
  <2>1. at' <= Len(journal')
    BY <1>1, <1>2
  <2> QED BY <2>1, <1>3, <1>4, <1>5, <1>6, <1>7, <1>8 DEF Retracing
<1>10. WellFormed(journal)'
  BY <1>1, <1>2 DEF WellFormed
<1> QED BY <1>1, <1>2, <1>8, <1>9, <1>10, OrderType DEF Types, Steps

\* What a rollback step must leave for the invariant.
LEMMA RolledBack ==
  ASSUME Traced, phase = "rollback", phase' = "rollback", at > 0,
         Retracing' /\ WellFormed(journal)' /\ at' \in 0..(Len(Order) + 1) /\ step' \in Steps,
         disk' \in [Targets -> Content], backup' \in [Targets -> Content],
         recovery' \in [Targets -> Content], taken' \in [Targets -> Content],
         staging' \subseteq staging \cup {Root[Undone.target]},
         UNCHANGED <<others, seen, changes>>
  PROVE  Traced'
<1>1. Types /\ Undone.target \in Targets
  BY AtUndone
<1>2. staging' \subseteq Range(Root)
  BY <1>1, RootOfTarget DEF Types
<1>3. Types'
  BY <1>1, <1>2 DEF Types, Phases
<1> QED BY <1>3 DEF Traced, Shape, Ended

LEMMA TracedLook == ASSUME Traced, Look PROVE Traced'
<1> DEFINE stays == IF Undone.installed THEN ~MatchesApplied(Undone.target)
                    ELSE Undone.backed /\ disk[Undone.target] # "none"
<1>1. /\ phase = "rollback" /\ phase' = "rollback" /\ at > 0 /\ step = "look"
      /\ UNCHANGED <<disk, backup, recovery, taken, others, staging, seen, journal, broken, buried, changes>>
  BY DEF Look, Rolling, fileVars
<1>2. /\ Retracing /\ Types /\ Undone.target \in Targets /\ Undone.backed \in BOOLEAN
      /\ Undone.installed \in BOOLEAN /\ InHand(Undone) /\ at \in DOMAIN journal /\ at \in Nat
      /\ DOMAIN journal = 1..Len(journal)
      /\ \A i \in DOMAIN journal : i # at => journal[i].target # Undone.target
  BY <1>1, AtUndone
<1>3. Waiting(Undone)
  BY <1>1, <1>2 DEF InHand
<1>4. PICK e : e = Undone
  OBVIOUS
<1>5. CASE /\ stays /\ trouble' = trouble \cup {"external"} /\ NextEntry
           /\ IF Undone.backed THEN Report("backup") ELSE UNCHANGED reported
  <2>1. Frame
    BY <1>1, <1>5 DEF Frame, Report
  <2>2. e.backed => <<e.target, "backup">> \in reported'
    BY <1>4, <1>5 DEF Report
  <2>3. ASSUME e.installed, disk[e.target] = "new"
        PROVE  e.target \in Skills /\ (Root[e.target] \in others \/ Sibling(e.target))
    <3>1. e.target \in Skills /\ Root[e.target] \in others \cup staging
      BY <1>4, <1>5, <2>3 DEF MatchesApplied, SnapshotsMatch
    <3>2. ASSUME Root[e.target] \in staging PROVE Sibling(e.target)
      <4>1. PICK i \in DOMAIN journal : Root[e.target] = Root[journal[i].target] /\ i > at
        BY <1>1, <1>2, <3>2 DEF Retracing
      <4> QED BY <1>2, <1>4, <4>1 DEF Sibling
    <3> QED BY <3>1, <3>2
  <2>4. Sibling(e.target)' <=> Sibling(e.target)
    BY <1>1 DEF Sibling
  <2>5. Away(e.target)' => e.backed /\ backup'[e.target] = taken'[e.target]
    BY <1>1, <1>3, <1>4 DEF Waiting, Away
  <2>6. Settled(e)'
    BY <1>1, <1>5, <2>2, <2>3, <2>4, <2>5 DEF Settled, Known
  <2>7. Retracing' /\ WellFormed(journal)' /\ at' \in 0..(Len(Order) + 1) /\ step' \in Steps
    BY <1>1, <1>4, <1>5, <2>1, <2>6, RetraceNext
  <2> QED BY <1>1, <1>2, <2>7, RolledBack DEF Types
<1>6. CASE /\ ~stays /\ (Undone.backed \/ Undone.installed)
           /\ step' = IF ~Undone.installed THEN "return" ELSE IF Undone.backed THEN "save" ELSE "discard"
           /\ UNCHANGED <<at, trouble, reported>>
  <2>1. Frame
    BY <1>1, <1>6 DEF Frame
  <2>2. Waiting(e)'
    BY <1>1, <1>3, <1>4 DEF Waiting
  <2>3. InHand(e)'
    BY <1>2, <1>4, <1>6, <2>2 DEF InHand, Waiting
  <2>4. Retracing' /\ WellFormed(journal)' /\ at' \in 0..(Len(Order) + 1) /\ step' \in Steps
    BY <1>1, <1>4, <1>6, <2>1, <2>3, RetraceStay
  <2> QED BY <1>1, <1>2, <2>4, RolledBack DEF Types
<1>7. CASE ~Undone.backed /\ ~Undone.installed /\ NextEntry /\ UNCHANGED <<trouble, reported>>
  <2>1. Frame
    BY <1>1, <1>7 DEF Frame
  <2>2. Settled(e)'
    BY <1>1, <1>3, <1>4, <1>7 DEF Settled, Waiting, Away
  <2>3. Retracing' /\ WellFormed(journal)' /\ at' \in 0..(Len(Order) + 1) /\ step' \in Steps
    BY <1>1, <1>4, <1>7, <2>1, <2>2, RetraceNext
  <2> QED BY <1>1, <1>2, <2>3, RolledBack DEF Types
<1>8. \/ /\ stays /\ trouble' = trouble \cup {"external"} /\ NextEntry
         /\ IF Undone.backed THEN Report("backup") ELSE UNCHANGED reported
      \/ /\ ~stays /\ (Undone.backed \/ Undone.installed)
         /\ step' = IF ~Undone.installed THEN "return" ELSE IF Undone.backed THEN "save" ELSE "discard"
         /\ UNCHANGED <<at, trouble, reported>>
      \/ ~Undone.backed /\ ~Undone.installed /\ NextEntry /\ UNCHANGED <<trouble, reported>>
  BY Zenon DEF Look
<1> QED BY <1>5, <1>6, <1>7, <1>8

LEMMA TracedSave == ASSUME Traced, Save PROVE Traced'
<1>1. /\ phase = "rollback" /\ phase' = "rollback" /\ at > 0 /\ step = "save"
      /\ staging' = staging \cup {Root[Undone.target]}
      /\ recovery' = [recovery EXCEPT ![Undone.target] = backup[Undone.target]]
      /\ backup' = [backup EXCEPT ![Undone.target] = "none"] /\ step' = "discard"
      /\ UNCHANGED <<disk, taken, others, seen, journal, at, trouble, reported, broken, buried, changes>>
  BY DEF Save, Rolling
<1>2. Types /\ Undone.target \in Targets /\ InHand(Undone)
  BY <1>1, AtUndone
<1>3. PICK e : e = Undone
  OBVIOUS
<1>4. Frame
  BY <1>1, <1>2 DEF Frame, Types
<1>5. Waiting(e) /\ e.backed /\ e.installed
  BY <1>1, <1>2, <1>3 DEF InHand
<1>6. InHand(e)'
  BY <1>1, <1>2, <1>3, <1>5 DEF InHand, Waiting, Types
<1>7. Retracing' /\ WellFormed(journal)' /\ at' \in 0..(Len(Order) + 1) /\ step' \in Steps
  BY <1>1, <1>3, <1>4, <1>6, RetraceStay
<1>8. backup' \in [Targets -> Content] /\ recovery' \in [Targets -> Content]
  BY <1>1, <1>2 DEF Types, Content
<1> QED BY <1>1, <1>2, <1>7, <1>8, RolledBack DEF Types

LEMMA TracedDiscard == ASSUME Traced, Discard PROVE Traced'
<1>1. /\ phase = "rollback" /\ phase' = "rollback" /\ at > 0 /\ step = "discard"
      /\ disk' = [disk EXCEPT ![Undone.target] = "none"]
      /\ UNCHANGED <<others, staging, backup, recovery, seen, journal, trouble, reported, taken,
                     broken, buried, changes>>
  BY DEF Discard, Rolling
<1>2. Types /\ Undone.target \in Targets /\ InHand(Undone)
  BY <1>1, AtUndone
<1>3. PICK e : e = Undone
  OBVIOUS
<1>4. Frame
  BY <1>1, <1>2 DEF Frame, Types
<1>5. e.installed /\ IF e.backed THEN recovery[e.target] = taken[e.target] ELSE taken[e.target] = "none"
  BY <1>1, <1>2, <1>3 DEF InHand
<1>6. disk' \in [Targets -> Content] /\ disk'[e.target] = "none"
  BY <1>1, <1>2, <1>3 DEF Types, Content
<1>7. CASE e.backed /\ step' = "return" /\ UNCHANGED at
  <2>1. InHand(e)'
    BY <1>1, <1>5, <1>7 DEF InHand
  <2>2. Retracing' /\ WellFormed(journal)' /\ at' \in 0..(Len(Order) + 1) /\ step' \in Steps
    BY <1>1, <1>3, <1>4, <1>7, <2>1, RetraceStay
  <2> QED BY <1>1, <1>2, <1>6, <2>2, RolledBack DEF Types
<1>8. CASE ~e.backed /\ NextEntry
  <2>1. Settled(e)'
    BY <1>1, <1>5, <1>6, <1>8 DEF Settled, Away
  <2>2. Retracing' /\ WellFormed(journal)' /\ at' \in 0..(Len(Order) + 1) /\ step' \in Steps
    BY <1>1, <1>3, <1>4, <1>8, <2>1, RetraceNext
  <2> QED BY <1>1, <1>2, <1>6, <2>2, RolledBack DEF Types
<1> QED BY <1>3, <1>7, <1>8 DEF Discard

LEMMA TracedReturn == ASSUME Traced, Return PROVE Traced'
<1> DEFINE t == Undone.target
           c == IF Copy = "recovery" THEN recovery[t] ELSE backup[t]
<1>1. /\ phase = "rollback" /\ phase' = "rollback" /\ at > 0 /\ NextEntry /\ step = "return"
      /\ recovery' = [recovery EXCEPT ![t] = "none"] /\ backup' = [backup EXCEPT ![t] = "none"]
      /\ UNCHANGED <<others, staging, seen, journal, trouble, reported, broken, changes>>
      /\ \/ buried' = buried \cup {t} /\ UNCHANGED <<disk, taken>>
         \/ /\ disk' = [disk EXCEPT ![t] = c] /\ taken' = [taken EXCEPT ![t] = "none"]
            /\ UNCHANGED buried
  BY DEF Return, Rolling
<1>2. Types /\ t \in Targets /\ InHand(Undone)
  BY <1>1, AtUndone
<1>3. PICK e : e = Undone
  OBVIOUS
<1>4. c \in Content
  BY <1>2 DEF Types
<1>5. disk' \in [Targets -> Content] /\ \A u \in Targets \ {t} : disk'[u] = disk[u]
  <2> HIDE DEF c
  <2> QED BY <1>1, <1>2, <1>4 DEF Types, Content
<1>6. /\ recovery' \in [Targets -> Content] /\ backup' \in [Targets -> Content]
      /\ taken' \in [Targets -> Content] /\ ~Away(e.target)'
  BY <1>1, <1>2, <1>3 DEF Types, Content, Away
<1>7. Frame
  <2>1. buried \subseteq buried' /\ buried' \subseteq buried \cup {t}
    BY <1>1
  <2>2. \A u \in Targets \ {t} :
          backup'[u] = backup[u] /\ recovery'[u] = recovery[u] /\ taken'[u] = taken[u]
    BY <1>1, <1>2 DEF Types
  <2> QED BY <1>1, <1>5, <2>1, <2>2 DEF Frame
<1>8. e.backed
  BY <1>1, <1>2, <1>3 DEF InHand
<1>9. Settled(e)'
  BY <1>3, <1>6, <1>8 DEF Settled
<1>10. Retracing' /\ WellFormed(journal)' /\ at' \in 0..(Len(Order) + 1) /\ step' \in Steps
  BY <1>1, <1>3, <1>7, <1>9, RetraceNext
<1> QED BY <1>1, <1>5, <1>6, <1>10, RolledBack

LEMMA TracedSaveFails == ASSUME Traced, SaveFails PROVE Traced'
<1> DEFINE t == Undone.target
<1>1. /\ phase = "rollback" /\ phase' = "rollback" /\ at > 0 /\ NextEntry /\ step = "save"
      /\ trouble' = trouble \cup {"failed"} /\ reported' = reported \cup {<<t, "backup">>}
      /\ staging' \subseteq staging \cup {Root[t]}
      /\ UNCHANGED <<disk, taken, others, seen, journal, broken, buried, changes>>
  BY DEF SaveFails, Rolling, Failing, Report
<1>2. Types /\ t \in Targets /\ InHand(Undone)
  BY <1>1, AtUndone
<1>3. PICK e : e = Undone
  OBVIOUS
<1>4. Waiting(e)
  BY <1>1, <1>2, <1>3 DEF InHand
<1>5. /\ backup' \in [Targets -> Content] /\ recovery' \in [Targets -> Content]
      /\ \A u \in Targets \ {t} : backup'[u] = backup[u] /\ recovery'[u] = recovery[u]
      /\ backup'[t] = taken[t] \/ (backup'[t] = "torn" /\ recovery'[t] = taken[t])
  <2>1. CASE UNCHANGED <<backup, recovery>>
    BY <1>2, <1>3, <1>4, <2>1 DEF Types, Waiting
  <2>2. CASE recovery' = [recovery EXCEPT ![t] = backup[t]] /\ backup' = [backup EXCEPT ![t] = "torn"]
    BY <1>2, <1>3, <1>4, <2>2 DEF Types, Waiting, Content
  <2> QED BY <2>1, <2>2 DEF SaveFails
<1>6. Frame
  BY <1>1, <1>5 DEF Frame
<1>7. Settled(e)'
  BY <1>1, <1>3, <1>5 DEF Settled, Known
<1>8. Retracing' /\ WellFormed(journal)' /\ at' \in 0..(Len(Order) + 1) /\ step' \in Steps
  BY <1>1, <1>3, <1>6, <1>7, RetraceNext
<1> QED BY <1>1, <1>2, <1>5, <1>8, RolledBack DEF Types

LEMMA TracedDiscardFails == ASSUME Traced, DiscardFails PROVE Traced'
<1> DEFINE t == Undone.target
<1>1. /\ phase = "rollback" /\ phase' = "rollback" /\ at > 0 /\ NextEntry /\ step = "discard"
      /\ trouble' = trouble \cup {"failed"} /\ reported \subseteq reported'
      /\ Undone.backed => <<t, "recovery">> \in reported'
      /\ UNCHANGED <<others, staging, backup, recovery, taken, seen, journal, broken, buried, changes>>
  BY DEF DiscardFails, Rolling, Failing, Report
<1>2. Types /\ t \in Targets /\ InHand(Undone)
  BY <1>1, AtUndone
<1>3. PICK e : e = Undone
  OBVIOUS
<1>4. IF e.backed THEN recovery[e.target] = taken[e.target] ELSE taken[e.target] = "none"
  BY <1>1, <1>2, <1>3 DEF InHand
<1>5. disk' \in [Targets -> Content] /\ \A u \in Targets \ {t} : disk'[u] = disk[u]
  <2>1. UNCHANGED disk \/ disk' = [disk EXCEPT ![t] = "torn"]
    BY DEF DiscardFails
  <2> QED BY <1>2, <2>1 DEF Types, Content
<1>6. Frame
  BY <1>1, <1>5 DEF Frame
<1>7. Settled(e)'
  BY <1>1, <1>3, <1>4 DEF Settled, Known, Away
<1>8. Retracing' /\ WellFormed(journal)' /\ at' \in 0..(Len(Order) + 1) /\ step' \in Steps
  BY <1>1, <1>3, <1>6, <1>7, RetraceNext
<1> QED BY <1>1, <1>2, <1>5, <1>8, RolledBack DEF Types

LEMMA TracedReturnFails == ASSUME Traced, ReturnFails PROVE Traced'
<1> DEFINE t == Undone.target
<1>1. /\ phase = "rollback" /\ phase' = "rollback" /\ at > 0 /\ NextEntry /\ step = "return"
      /\ trouble' = trouble \cup {"failed"} /\ reported' = reported \cup {<<t, Copy>>}
      /\ UNCHANGED <<others, staging, recovery, seen, journal, broken, buried, changes>>
  BY DEF ReturnFails, Rolling, Failing, Report
<1>2. Types /\ t \in Targets /\ InHand(Undone)
  BY <1>1, AtUndone
<1>3. PICK e : e = Undone
  OBVIOUS
<1>4. \/ Copy = "recovery" /\ recovery[t] = taken[t]
      \/ Copy = "backup" /\ backup[t] = taken[t]
  BY <1>1, <1>2 DEF InHand, Waiting, Copy
<1>5. /\ disk' \in [Targets -> Content] /\ backup' \in [Targets -> Content]
      /\ taken' \in [Targets -> Content]
      /\ \A u \in Targets \ {t} : disk'[u] = disk[u] /\ backup'[u] = backup[u] /\ taken'[u] = taken[u]
      /\ taken'[t] = "none" \/ (taken'[t] = taken[t] /\ backup'[t] = backup[t])
  <2>1. CASE UNCHANGED <<disk, backup, taken>>
    BY <1>2, <2>1 DEF Types
  <2>2. CASE disk' = [disk EXCEPT ![t] = "torn"] /\ UNCHANGED <<backup, taken>>
    BY <1>2, <2>2 DEF Types, Content
  <2>3. CASE /\ disk' = [disk EXCEPT ![t] = backup[t]] /\ backup' = [backup EXCEPT ![t] = "torn"]
             /\ taken' = [taken EXCEPT ![t] = "none"]
    BY <1>2, <2>3 DEF Types, Content
  <2> QED BY <2>1, <2>2, <2>3 DEF ReturnFails
<1>6. Frame
  BY <1>1, <1>5 DEF Frame
<1>7. Known(e.target)' \/ taken'[e.target] = "none"
  BY <1>1, <1>3, <1>4, <1>5 DEF Known
<1>8. Settled(e)'
  BY <1>1, <1>3, <1>7 DEF Settled, Known, Away
<1>9. Retracing' /\ WellFormed(journal)' /\ at' \in 0..(Len(Order) + 1) /\ step' \in Steps
  BY <1>1, <1>3, <1>6, <1>8, RetraceNext
<1> QED BY <1>1, <1>2, <1>5, <1>9, RolledBack DEF Types

LEMMA TracedConclude == ASSUME Traced, Conclude PROVE Traced'
<1>1. /\ phase = "rollback" /\ at = 0
      /\ UNCHANGED <<disk, others, seen, journal, step, at, trouble, reported, taken, broken, buried, changes>>
  BY DEF Conclude
<1>2. Retracing /\ Types /\ WellFormed(journal)
  BY <1>1 DEF Traced, Shape
<1>3. journal \in Seq(Entries) /\ DOMAIN journal = 1..Len(journal) /\ Len(journal) \in Nat
  <2>1. journal \in Seq(Entries)
    BY <1>2 DEF WellFormed
  <2> QED BY <2>1
<1>4. \A i \in DOMAIN journal : Settled(journal[i])
  BY <1>1, <1>2, <1>3 DEF Retracing
<1>5. ASSUME NEW t \in Targets, Away(t)
      PROVE  /\ Known(t)
             /\ "failed" \notin trouble =>
                  "external" \in trouble /\ <<t, "backup">> \in reported /\ backup[t] = taken[t]
  <2>1. PICK i \in DOMAIN journal : journal[i].target = t
    BY <1>2, <1>5 DEF Away, Retracing, Journals
  <2> QED BY <1>4, <1>5, <2>1 DEF Away, Settled
<1>6. ASSUME NEW t \in Targets, Ours(t), "failed" \notin trouble
      PROVE  /\ "external" \in trouble /\ t \in Skills
             /\ \/ Root[t] \in others
                \/ \E s \in Skills \ {t} : Root[s] = Root[t] /\ s \in {e.target : e \in Range(journal)}
  <2>1. PICK i \in DOMAIN journal : /\ journal[i].target = t /\ journal[i].installed
                                    /\ journal[i].backed => Away(t)
    BY <1>6 DEF Ours, Range
  <2>2. "external" \in trouble /\ t \in Skills /\ (Root[t] \in others \/ Sibling(t))
    BY <1>4, <1>6, <2>1 DEF Settled, Ours, Away
  <2>3. ASSUME Sibling(t)
        PROVE  \E s \in Skills \ {t} : Root[s] = Root[t] /\ s \in {e.target : e \in Range(journal)}
    <3>1. PICK k \in DOMAIN journal : journal[k].target # t /\ Root[journal[k].target] = Root[t]
      BY <2>3 DEF Sibling
    <3>2. journal[k] \in Entries /\ journal[k] \in Range(journal)
      BY <1>3 DEF Range
    <3>3. journal[k].target \in Targets
      BY <3>2 DEF Entries
    <3>4. journal[k].target \in Skills
      BY <2>2, <3>1, <3>3, AssetsAssumption DEF AssetsAssumption, Targets
    <3> QED BY <3>1, <3>2, <3>4
  <2> QED BY <2>2, <2>3
<1>7. CASE "failed" \in trouble /\ phase' = "failed" /\ UNCHANGED <<staging, backup, recovery>>
  <2>1. Types' /\ WellFormed(journal)'
    BY <1>1, <1>2, <1>7 DEF Types, WellFormed, Phases, Ended
  <2>2. OriginalsKept'
    BY <1>1, <1>5, <1>7 DEF OriginalsKept, Away, Known
  <2>3. RollbackTruthful'
    BY <1>1, <1>5, <1>7 DEF RollbackTruthful, Away, Known
  <2> QED BY <1>7, <2>1, <2>2, <2>3 DEF Traced, Shape, Ended
<1>8. CASE /\ "failed" \notin trouble /\ "external" \in trouble /\ phase' = "kept" /\ staging' = {}
           /\ recovery' = [t \in Targets |-> "none"] /\ UNCHANGED backup
  <2>1. Types' /\ WellFormed(journal)'
    BY <1>1, <1>2, <1>8 DEF Types, WellFormed, Phases, Ended, Content
  <2>2. OriginalsKept'
    BY <1>1, <1>5, <1>8 DEF OriginalsKept, Away
  <2>3. RollbackTruthful'
    <3>1. \A t \in Targets : /\ Away(t)' => Away(t)
                             /\ Ours(t)' => Ours(t)
      BY <1>1 DEF Away, Ours
    <3> QED BY <1>1, <1>5, <1>6, <1>8, <3>1 DEF RollbackTruthful
  <2> QED BY <1>8, <2>1, <2>2, <2>3 DEF Traced, Shape, Ended
<1>9. CASE /\ "failed" \notin trouble /\ "external" \notin trouble /\ phase' = "restored" /\ staging' = {}
           /\ recovery' = [t \in Targets |-> "none"] /\ backup' = [t \in Targets |-> "none"]
  <2>1. Types' /\ WellFormed(journal)'
    BY <1>1, <1>2, <1>9 DEF Types, WellFormed, Phases, Ended, Content
  <2>2. OriginalsKept'
    BY <1>1, <1>5, <1>9 DEF OriginalsKept, Away
  <2>3. RollbackTruthful'
    <3>1. \A t \in Targets : /\ Away(t)' => Away(t)
                             /\ Ours(t)' => Ours(t)
      BY <1>1 DEF Away, Ours
    <3> QED BY <1>1, <1>5, <1>6, <1>9, <3>1 DEF RollbackTruthful
  <2> QED BY <1>9, <2>1, <2>2, <2>3 DEF Traced, Shape, Ended
<1> QED BY <1>7, <1>8, <1>9 DEF Conclude

-----------------------------------------------------------------------------
(* Others, and the end of the process.                                     *)

LEMMA TracedTouch == ASSUME Traced, NEW t \in Targets, Touch(t) PROVE Traced'
<1>1. /\ phase \notin Ended /\ changes < MaxChanges /\ changes' = changes + 1
      /\ UNCHANGED <<others, staging, backup, recovery, seen, journal, phase, step, at, trouble,
                     reported, taken, broken, buried>>
  BY DEF Touch
<1>2. PICK c \in {"none", "foreign"} : disk' = [disk EXCEPT ![t] = c]
  BY DEF Touch
<1>3. /\ Types /\ WellFormed(journal)
      /\ phase \in {"plan", "validate", "apply", "verify"} => Early
      /\ phase = "rollback" => Retracing
  BY DEF Traced, Shape
<1>4. /\ disk' \in [Targets -> Content]
      /\ \A u \in Targets : disk'[u] = "new" => disk[u] = "new"
  BY <1>2, <1>3 DEF Types, Content
<1>5. Types' /\ WellFormed(journal)'
  <2>1. changes' \in 0..MaxChanges
    BY <1>1, <1>3, AssetsAssumption DEF Types, AssetsAssumption
  <2> QED BY <1>1, <1>3, <1>4, <2>1 DEF Types, WellFormed
<1>6. Early => Early'
  <2>1. ASSUME Early PROVE \A u \in Targets : Recorded(u)'
    BY <1>1, <1>4, <2>1 DEF Early, Recorded, Backed
  <2>2. Placed => Placed'
    BY <1>1 DEF Placed, Handles, Current
  <2> QED BY <1>1, <2>1, <2>2 DEF Early
<1>7. Retracing => Retracing'
  <2>1. \A i \in DOMAIN journal : Waiting(journal[i]) => Waiting(journal[i])'
    BY <1>1 DEF Waiting
  <2>2. \A i \in DOMAIN journal : InHand(journal[i]) => InHand(journal[i])'
    BY <1>1, <2>1 DEF InHand, Waiting
  <2>3. ASSUME NEW i \in DOMAIN journal, Settled(journal[i]) PROVE Settled(journal[i])'
    <3>1. journal[i].target \in Targets
      <4>1. journal[i] \in Entries
        BY <1>3 DEF WellFormed
      <4> QED BY <4>1 DEF Entries
    <3>2. disk'[journal[i].target] = "new" => disk[journal[i].target] = "new"
      BY <1>4, <3>1
    <3>3. Sibling(journal[i].target)' <=> Sibling(journal[i].target)
      BY <1>1 DEF Sibling
    <3>4. Known(journal[i].target)' <=> Known(journal[i].target)
      BY <1>1 DEF Known
    <3> QED BY <1>1, <2>3, <3>2, <3>3, <3>4 DEF Settled, Away
  <2>4. ASSUME Retracing, at > 0 PROVE InHand(journal[at])'
    <3>1. InHand(journal[at])
      BY <2>4 DEF Retracing
    <3> QED BY <1>1, <3>1 DEF InHand, Waiting
  <2> QED BY <1>1, <2>1, <2>3, <2>4 DEF Retracing, Journals
<1> QED BY <1>1, <1>3, <1>5, <1>6, <1>7 DEF Traced, Shape

LEMMA TracedMeddle == ASSUME Traced, NEW s \in Skills, Meddle(Root[s]) PROVE Traced'
<1>1. /\ phase \notin Ended /\ changes < MaxChanges /\ changes' = changes + 1
      /\ others' = others \cup {Root[s]}
      /\ UNCHANGED <<disk, staging, backup, recovery, seen, journal, phase, step, at, trouble,
                     reported, taken, broken, buried>>
  BY DEF Meddle, fileVars
<1>2. /\ Types /\ WellFormed(journal)
      /\ phase \in {"plan", "validate", "apply", "verify"} => Early
      /\ phase = "rollback" => Retracing
  BY DEF Traced, Shape
<1>3. Types' /\ WellFormed(journal)'
  <2>1. changes' \in 0..MaxChanges /\ Root[s] \in Range(Root)
    BY <1>1, <1>2, AssetsAssumption, RootOfTarget DEF Types, AssetsAssumption, Targets
  <2> QED BY <1>1, <1>2, <2>1 DEF Types, WellFormed
<1>4. Early => Early'
  <2>1. Placed => Placed'
    BY <1>1 DEF Placed, Handles, Current
  <2> QED BY <1>1, <2>1 DEF Early, Recorded, Backed
<1>5. Retracing => Retracing'
  <2>1. \A i \in DOMAIN journal : Waiting(journal[i]) => Waiting(journal[i])'
    BY <1>1 DEF Waiting
  <2>2. ASSUME NEW i \in DOMAIN journal, Settled(journal[i]) PROVE Settled(journal[i])'
    <3>1. Sibling(journal[i].target)' <=> Sibling(journal[i].target)
      BY <1>1 DEF Sibling
    <3>2. Known(journal[i].target)' <=> Known(journal[i].target)
      BY <1>1 DEF Known
    <3> QED BY <1>1, <2>2, <3>1, <3>2 DEF Settled, Away
  <2>3. ASSUME Retracing, at > 0 PROVE InHand(journal[at])'
    <3>1. InHand(journal[at])
      BY <2>3 DEF Retracing
    <3> QED BY <1>1, <3>1 DEF InHand, Waiting
  <2> QED BY <1>1, <2>1, <2>2, <2>3 DEF Retracing, Journals
<1> QED BY <1>1, <1>2, <1>3, <1>4, <1>5 DEF Traced, Shape

\* Before the end, what was moved away is the backup, or the copy the rollback
\* has made of it, or what it has reported.
LEMMA KeptBefore ==
  ASSUME Traced, phase \notin Ended
  PROVE  \A t \in Targets : Away(t) => taken[t] \in {disk[t], backup[t], recovery[t]}
<1>1. CASE Early
  BY <1>1 DEF Early, Recorded, Away
<1>2. CASE Retracing
  <2>1. Types /\ journal \in Seq(Entries)
    BY DEF Traced, Shape, WellFormed
  <2> SUFFICES ASSUME NEW t \in Targets, Away(t), taken[t] # "none", t \notin broken
               PROVE  taken[t] \in {disk[t], backup[t], recovery[t]}
    BY DEF Away
  <2>2. PICK i \in DOMAIN journal : journal[i].target = t
    BY <1>2 DEF Retracing, Journals
  <2>3. i \in Nat /\ i > 0 /\ at \in Nat
    BY <2>1, OrderType DEF Types
  <2>4. CASE i < at
    BY <1>2, <2>2, <2>4 DEF Retracing, Waiting
  <2>5. CASE i = at
    BY <1>2, <2>2, <2>3, <2>5 DEF Retracing, InHand, Waiting
  <2>6. CASE i > at
    BY <1>2, <2>2, <2>6 DEF Retracing, Settled, Known
  <2> QED BY <2>3, <2>4, <2>5, <2>6
<1> QED BY <1>1, <1>2 DEF Traced, Shape, Types, Phases

LEMMA TracedKilled == ASSUME Traced, Killed PROVE Traced'
<1>1. /\ phase \notin Ended /\ phase' = "killed"
      /\ UNCHANGED <<disk, backup, recovery, taken, others, staging, seen, journal, step, at,
                     trouble, reported, broken, buried, changes>>
  BY DEF Killed, fileVars
<1>2. Types /\ WellFormed(journal)
  BY DEF Traced, Shape
<1>3. Types' /\ WellFormed(journal)'
  BY <1>1, <1>2 DEF Types, WellFormed, Phases, Ended
<1>4. OriginalsKept'
  BY <1>1, KeptBefore DEF OriginalsKept, Away
<1>5. RollbackTruthful'
  BY <1>1 DEF RollbackTruthful
<1> QED BY <1>1, <1>3, <1>4, <1>5 DEF Traced, Shape, Ended

-----------------------------------------------------------------------------
(* The theorems.                                                           *)

LEMMA TracedInit == ASSUME Init PROVE Traced
<1>1. Types
  BY OrderType, AssetsAssumption DEF Init, Types, Content, Phases, Steps, AssetsAssumption
<1>2. WellFormed(journal)
  <2>1. journal = <<>> /\ Len(journal) = 0 /\ DOMAIN journal = {}
    BY DEF Init
  <2> QED BY <2>1, OrderType DEF WellFormed
<1>3. Early
  BY DEF Init, Early, Recorded, Backed
<1> QED BY <1>1, <1>2, <1>3 DEF Init, Traced, Shape, Ended

LEMMA TracedStep == ASSUME Traced, Next PROVE Traced'
BY TracedPreflight, TracedValidate, TracedStage, TracedApplyFails, TracedMoveAway, TracedPut,
   TracedPutFails, TracedApplied, TracedVerify, TracedLook, TracedSave, TracedDiscard, TracedReturn,
   TracedSaveFails, TracedDiscardFails, TracedReturnFails, TracedConclude, TracedTouch,
   TracedMeddle, TracedKilled
   DEF Next

LEMMA TracedStutter == ASSUME Traced, UNCHANGED vars PROVE Traced'
<1>1. UNCHANGED <<disk, backup, recovery, taken, others, staging, seen, journal, phase, step, at,
                  trouble, reported, broken, buried, changes>>
  BY DEF vars
<1>2. Shape' <=> Shape
  BY <1>1 DEF Shape, Types, WellFormed
<1>3. Early' <=> Early
  BY <1>1 DEF Early, Recorded, Backed, Placed, Handles, Current
<1>4. Retracing' <=> Retracing
  BY <1>1 DEF Retracing, Waiting, InHand, Settled, Known, Sibling, Journals, Away
<1>5. (OriginalsKept' <=> OriginalsKept) /\ (RollbackTruthful' <=> RollbackTruthful)
  BY <1>1 DEF OriginalsKept, RollbackTruthful, Away, Ours
<1> QED BY <1>1, <1>2, <1>3, <1>4, <1>5 DEF Traced

LEMMA TracedAlways == Spec => []Traced
<1>1. Init => Traced
  BY TracedInit
<1>2. Traced /\ [Next]_vars => Traced'
  BY TracedStep, TracedStutter
<1> QED BY <1>1, <1>2, PTL DEF Spec

\* Every variable keeps to its values, the journal names every target once and
\* only its last entry may be without the new file, and no staging directory
\* outlives a synchronization that did not fail.
THEOREM AssetsTyped == Spec => []TypeOK
<1>1. ASSUME Traced PROVE TypeOK
  <2>1. Types /\ WellFormed(journal)
    BY <1>1 DEF Traced, Shape
  <2> QED BY <2>1 DEF TypeOK, Types, WellFormed
<1> QED BY <1>1, TracedAlways, PTL

\* Until the commit, and wherever the process is killed, what was moved away is
\* whole in one of its three places, but for a Skill whose move broke off
\* before the journal knew of it.
THEOREM OriginalsAreKept == Spec => []OriginalsKept
<1>1. ASSUME Traced PROVE OriginalsKept
  BY <1>1, KeptBefore DEF Traced, OriginalsKept
<1> QED BY <1>1, TracedAlways, PTL

\* The result of a rollback is true: what it calls restored is restored, and
\* what it could not bring back is where the report says.
THEOREM RollbacksAreTruthful == Spec => []RollbackTruthful
<1>1. ASSUME Traced PROVE RollbackTruthful
  <2>1. CASE phase \in Ended
    BY <1>1, <2>1 DEF Traced
  <2>2. CASE phase \notin Ended
    BY <2>2 DEF RollbackTruthful, Ended
  <2> QED BY <2>1, <2>2
<1> QED BY <1>1, TracedAlways, PTL
=============================================================================
