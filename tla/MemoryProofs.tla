---------------------------- MODULE MemoryProofs ----------------------------
(***************************************************************************)
(* Proofs about IncidentMemory, for any texts, bounds and failures.  Told  *)
(* is inductive: what a message shows was found, and is found again.       *)
(* Counted is inductive: a record of a recovery was to come before it was  *)
(* saved, however many recoveries overlap.                                 *)
(***************************************************************************)
EXTENDS IncidentMemory, FiniteSetTheorems, SequenceTheorems, TLAPS

(* Types.                                                                  *)

\* The texts the code writes itself are texts.
LEMMA PlainType == ASSUME NEW h \in Words
                   PROVE  Plain(h) \in Text
<1> DEFINE Part == [key : Words, value : Words]
<1>1. << >> \in Seq(Part)
  OBVIOUS
<1>2. QED
  BY <1>1 DEF Plain, Text

\* A measured time is a string a record may hold.
LEMMA MeasuredWords == \A timed : Measured(timed) \subseteq Words
BY TimeTextsAssumption, WordsAssumption DEF Measured

\* So is what the code makes when there is nothing.
LEMMA EmptyTypes == /\ NoEntry \in Entry /\ NoStats \in Stats /\ FailedStats \in Stats
                    /\ NoText \in Text /\ Unknown \in Text
<1>1. NoText \in Text /\ Unknown \in Text
  <2>1. "" \in Words /\ "Unknown" \in Words
    BY WordsAssumption
  <2>2. Plain("") \in Text /\ Plain("Unknown") \in Text
    BY <2>1, PlainType
  <2>3. QED
    BY <2>2 DEF NoText, Unknown
<1>2. NoStats \in Stats /\ FailedStats \in Stats
  BY DEF NoStats, FailedStats, Stats
<1>3. QED
  BY <1>1, <1>2 DEF NoEntry, Entry

\* So is what a look at the table gives, and what a change of the entry leaves.
LEMMA LookedTypes == ASSUME TypeOK, NEW e \in Looked PROVE e \in Entry
BY EmptyTypes DEF Looked, TypeOK

LEMMA BecomesTypes == ASSUME TypeOK, NEW e \in Entry, Becomes(e)
                      PROVE  entry' \in Entry /\ old' \in Entry
BY DEF Becomes, TypeOK

\* What is searchable is finite, and a retrieval gives that many or fewer.
LEMMA SearchableFinite == TypeOK => IsFiniteSet(searchable) /\ Cardinality(searchable) \in Nat
<1> SUFFICES ASSUME TypeOK
             PROVE  IsFiniteSet(searchable) /\ Cardinality(searchable) \in Nat
  OBVIOUS
<1>1. DOMAIN records = 1..Len(records) /\ Len(records) \in Nat
  BY DEF TypeOK
<1>2. IsFiniteSet(1..Len(records))
  BY <1>1, FS_Interval
<1>3. IsFiniteSet(searchable)
  BY <1>1, <1>2, FS_Subset DEF TypeOK
<1>4. QED
  BY <1>3, FS_CardinalityType

\* The statistics of a lookup count all that can be found, up to TopK.
LEMMA StatsCount ==
  ASSUME TypeOK, NEW st \in GetStats
  PROVE  /\ st \in Stats
         /\ st.failed \/ st.count = Fewer(TopK, Cardinality(searchable))
         /\ st.count <= Fewer(TopK, Cardinality(searchable))
<1>1. Cardinality(searchable) \in Nat
  BY SearchableFinite
<1>2. Fewer(TopK, Cardinality(searchable)) \in Nat
  BY <1>1, LookupAssumption DEF Fewer
<1>3. CASE st = FailedStats
  BY <1>2, <1>3, EmptyTypes DEF FailedStats
<1>4. CASE st # FailedStats
  <2>1. PICK S \in Retrieved(TopK) : st = [failed |-> FALSE, count |-> Cardinality(S)]
    BY <1>4 DEF GetStats
  <2>2. Cardinality(S) = Fewer(TopK, Cardinality(searchable))
    BY DEF Retrieved
  <2>3. QED
    BY <1>2, <2>1, <2>2 DEF Stats
<1>5. QED
  BY <1>3, <1>4

\* A save leaves a sequence of records.
LEMMA SaveType ==
  ASSUME TypeOK, NEW r \in Record, Save(r)
  PROVE  records' \in Seq(Record) /\ searchable \subseteq DOMAIN records'
<1>1. CASE records' = records
  BY <1>1 DEF TypeOK
<1>2. CASE records' = Append(records, r)
  BY <1>2 DEF TypeOK
<1>3. QED
  BY <1>1, <1>2 DEF Save

\* What a recovery saves is a record by a recovery, of the incident it read.
LEMMA RecoveredType ==
  ASSUME NEW p \in Recoverers, RecoverySaves(p),
         recovery[p].entry \in Entry, recovery[p].entry.incident \in Incidents
  PROVE  \E r \in Record :
           Save(r) /\ r.by = "auto" /\ r.incident = recovery[p].entry.incident
<1> DEFINE e == recovery[p].entry
<1>1. PICK t \in Measured(e.timed) :
        Save([incident |-> e.incident, by |-> "auto", cause |-> e.cause,
              resolution |-> Plain("auto"), minutes |-> t, errors |-> e.errors])
  BY DEF RecoverySaves
<1> DEFINE r == [incident |-> e.incident, by |-> "auto", cause |-> e.cause,
                 resolution |-> Plain("auto"), minutes |-> t, errors |-> e.errors]
<1>2. r \in Record
  <2>1. e.cause \in Text /\ e.errors \in Text
    BY DEF Entry
  <2>2. t \in Words /\ "auto" \in Words
    BY MeasuredWords, WordsAssumption
  <2>3. Plain("auto") \in Text
    BY <2>2, PlainType
  <2>4. QED
    BY <2>1, <2>2, <2>3 DEF Record
<1>3. QED
  BY <1>1, <1>2

\* What a human saves is a record by a human.
LEMMA ResolvedType ==
  ASSUME TypeOK, ResolutionSaves
  PROVE  \E r \in Record : Save(r) /\ r.by = "human"
<1>1. dialog \in [pc : {"typing"}, incident : Incidents, timed : BOOLEAN]
  BY DEF ResolutionSaves, TypeOK, Idle
<1>2. PICK typed \in Typed, t \in Measured(dialog.timed), e \in Looked :
        Save([incident |-> dialog.incident, by |-> "human",
              cause |-> IF e.incident # 0 THEN e.cause ELSE Unknown,
              resolution |-> typed, minutes |-> t, errors |-> NoText])
  BY DEF ResolutionSaves
<1> DEFINE r == [incident |-> dialog.incident, by |-> "human",
                 cause |-> IF e.incident # 0 THEN e.cause ELSE Unknown,
                 resolution |-> typed, minutes |-> t, errors |-> NoText]
<1>3. r \in Record
  <2>1. (IF e.incident # 0 THEN e.cause ELSE Unknown) \in Text
    BY LookedTypes, EmptyTypes DEF Entry
  <2>2. dialog.incident \in Incidents /\ typed \in Text /\ NoText \in Text
    BY <1>1, EmptyTypes, TextsAssumption
  <2>3. t \in Words
    BY MeasuredWords
  <2>4. QED
    BY <2>1, <2>2, <2>3 DEF Record
<1>4. QED
  BY <1>2, <1>3

\* The first state is well typed.
LEMMA MemoryInit == Init => TypeOK
<1> SUFFICES ASSUME Init
             PROVE  TypeOK
  OBVIOUS
<1>1. /\ recovery \in [Recoverers -> {Idle}
           \union [pc : {"save", "delete"}, entry : Entry, repeats : BOOLEAN]]
      /\ \A p \in Recoverers :
           recovery[p].pc # "idle" => recovery[p].entry.incident \in Incidents
  BY DEF Init, Idle
<1>2. QED
  BY <1>1, EmptyTypes, BoundsAssumption DEF Init, TypeOK, Incidents, Idle

\* A step keeps the types.
LEMMA MemoryStep == TypeOK /\ [Next]_vars => TypeOK'
<1> SUFFICES ASSUME TypeOK, [Next]_vars
             PROVE  TypeOK'
  OBVIOUS
<1> USE BoundsAssumption, LookupAssumption DEF Incidents
<1>1. CASE UNCHANGED vars
  BY <1>1 DEF vars, TypeOK
<1>2. CASE NoticePosts
  <2>1. PICK st \in GetStats, S \in Similar : \E near \in SUBSET S :
          LET case == st.count > 0 /\ \E i \in near : Useful(i)
          IN /\ shown' = [shown EXCEPT ![last'] = IF case THEN st.count ELSE 0]
             /\ notice' = [pc |-> "put", stats |-> IF case THEN st ELSE NoStats]
    BY <1>2 DEF NoticePosts
  <2>2. st \in Stats
    BY StatsCount
  <2>3. notice' \in [pc : {"put"}, stats : Stats] /\ notice'.pc = "put"
    BY <2>1, <2>2, EmptyTypes
  <2>4. shown' \in [Incidents -> Nat]
    <3>1. PICK n \in {st.count, 0} : shown' = [shown EXCEPT ![last'] = n]
      BY <2>1
    <3>2. n \in Nat
      BY <2>2 DEF Stats
    <3>3. QED
      BY <3>1, <3>2 DEF TypeOK
  <2>5. last' \in 0..MaxIncidents /\ last' > 0 /\ 1..last \subseteq 1..last'
    BY <1>2 DEF NoticePosts, TypeOK
  <2>6. QED
    BY <1>2, <2>3, <2>4, <2>5 DEF NoticePosts, TypeOK
<1>3. CASE NoticePuts
  <2>1. last \in Incidents
    BY <1>3 DEF NoticePuts, TypeOK
  <2>2. entry' \in Entry /\ old' \in Entry
    <3>1. Registered(last, notice.stats) \in Entry
      BY <2>1, EmptyTypes DEF Registered, Entry
    <3>2. QED
      BY <1>3, <3>1, BecomesTypes DEF NoticePuts
  <2>3. chances' \in [Incidents -> Nat]
    <3>1. chances' = [chances EXCEPT ![last] = @ + 1]
      BY <1>3 DEF NoticePuts
    <3>2. QED
      BY <2>1, <3>1 DEF TypeOK
  <2>4. notice' = Idle /\ Idle.pc = "idle"
    BY <1>3 DEF NoticePuts, Idle
  <2>5. QED
    BY <1>3, <2>2, <2>3, <2>4 DEF NoticePuts, TypeOK
<1>4. ASSUME NEW i \in Incidents, Click(i)
      PROVE  TypeOK'
  <2>1. analysis' \in [pc : {"lookup", "rca"}, incident : Incidents, stats : Stats]
    <3>1. PICK e \in Looked : analysis' = [pc |-> "lookup", incident |-> i, stats |-> e.stats]
      BY <1>4 DEF Click
    <3>2. e.stats \in Stats
      BY LookedTypes DEF Entry
    <3>3. QED
      BY <1>4, <3>1, <3>2
  <2>2. clicked' \subseteq 1..last
    BY <1>4 DEF Click, TypeOK
  <2>3. QED
    BY <1>4, <2>1, <2>2 DEF Click, TypeOK
<1>5. ASSUME NEW i \in Incidents, OpenModal(i)
      PROVE  TypeOK'
  <2>1. dialog' \in [pc : {"typing"}, incident : Incidents, timed : BOOLEAN]
    <3>1. PICK e \in Looked : dialog' = [pc |-> "typing", incident |-> i, timed |-> e.timed]
      BY <1>5 DEF OpenModal
    <3>2. e.timed \in BOOLEAN
      BY LookedTypes DEF Entry
    <3>3. QED
      BY <1>5, <3>1, <3>2
  <2>2. QED
    BY <1>5, <2>1 DEF OpenModal, TypeOK
<1>6. CASE MemoryNode
  <2>1. analysis \in [pc : {"lookup", "rca"}, incident : Incidents, stats : Stats]
    BY <1>6 DEF MemoryNode, TypeOK, Idle
  <2>2. PICK st \in (IF analysis.stats # NoStats THEN {analysis.stats} ELSE GetStats) :
          analysis' = [analysis EXCEPT !.pc = "rca", !.stats = st]
    BY <1>6 DEF MemoryNode
  <2>3. st \in Stats
    BY <2>1, <2>2, StatsCount
  <2>4. analysis' \in [pc : {"lookup", "rca"}, incident : Incidents, stats : Stats]
    BY <2>1, <2>2, <2>3
  <2>5. QED
    BY <1>6, <2>4 DEF MemoryNode, TypeOK
<1>7. CASE Analyzed
  <2>1. analysis.incident \in Incidents
    BY <1>7 DEF Analyzed, TypeOK, Idle
  <2>2. analysis' \in [pc : {"save", "report"}, incident : Incidents, cause : Text,
                       errors : Text]
    BY <1>7, <2>1, TextsAssumption DEF Analyzed
  <2>3. QED
    BY <1>7, <2>2 DEF Analyzed, TypeOK
<1>8. CASE SaveNodePuts
  <2>1. analysis \in [pc : {"save", "report"}, incident : Incidents, cause : Text,
                      errors : Text]
    BY <1>8 DEF SaveNodePuts, TypeOK, Idle
  <2>2. analysis' \in [pc : {"save", "report"}, incident : Incidents, cause : Text,
                       errors : Text]
    BY <1>8, <2>1 DEF SaveNodePuts
  <2>3. entry' \in Entry /\ old' \in Entry
    <3>1. [NoEntry EXCEPT !.incident = analysis.incident, !.timed = TRUE,
                          !.cause = analysis.cause, !.errors = analysis.errors] \in Entry
      BY <2>1, EmptyTypes DEF Entry
    <3>2. QED
      BY <1>8, <3>1, BecomesTypes DEF SaveNodePuts
  <2>4. chances' \in [Incidents -> Nat]
    BY <1>8, <2>1 DEF SaveNodePuts, TypeOK
  <2>5. QED
    BY <1>8, <2>2, <2>3, <2>4 DEF SaveNodePuts, TypeOK
<1>9. CASE Reports
  <2>1. analysis \in [pc : {"save", "report"}, incident : Incidents, cause : Text,
                      errors : Text]
    BY <1>9 DEF Reports, TypeOK, Idle
  <2> DEFINE i == IF Ongoing THEN entry.incident ELSE analysis.incident
  <2>2. i \in Incidents
    BY <2>1 DEF Ongoing, TypeOK, Entry
  <2>3. \/ UNCHANGED <<entry, old, chances>>
        \/ /\ Becomes([entry EXCEPT !.incident = i, !.cause = analysis.cause])
           /\ chances' = IF Ongoing THEN chances ELSE [chances EXCEPT ![i] = @ + 1]
    BY <1>9 DEF Reports
  <2> HIDE DEF i
  <2>4. entry' \in Entry /\ old' \in Entry
    <3>1. [entry EXCEPT !.incident = i, !.cause = analysis.cause] \in Entry
      BY <2>1, <2>2 DEF TypeOK, Entry
    <3>2. QED
      BY <2>3, <3>1, BecomesTypes DEF TypeOK
  <2>5. chances' \in [Incidents -> Nat]
    BY <2>2, <2>3 DEF TypeOK
  <2>6. QED
    BY <1>9, <2>4, <2>5 DEF Reports, TypeOK
<1>10. ASSUME NEW p \in Recoverers, RecoveryGets(p)
       PROVE  TypeOK'
  <2>1. PICK e \in Looked : e.incident # 0 /\ Took(p, e)
    BY <1>10 DEF RecoveryGets
  <2>2. e \in Entry /\ e.incident \in Incidents
    BY <2>1, LookedTypes DEF Entry
  <2>3. PICK again \in BOOLEAN :
          recovery' = [recovery EXCEPT ![p] = [pc |-> "save", entry |-> e, repeats |-> again]]
    BY <2>1 DEF Took
  <2>4. /\ recovery' \in [Recoverers -> {Idle}
             \union [pc : {"save", "delete"}, entry : Entry, repeats : BOOLEAN]]
        /\ \A q \in Recoverers :
             recovery'[q].pc # "idle" => recovery'[q].entry.incident \in Incidents
    BY <2>2, <2>3 DEF TypeOK
  <2>5. QED
    BY <1>10, <2>4 DEF RecoveryGets, TypeOK
<1>11. ASSUME NEW p \in Recoverers, RecoverySaves(p)
       PROVE  TypeOK'
  <2>1. /\ recovery[p] \in [pc : {"save", "delete"}, entry : Entry, repeats : BOOLEAN]
        /\ recovery[p].entry.incident \in Incidents
    BY <1>11 DEF RecoverySaves, TypeOK, Idle
  <2>2. PICK r \in Record : Save(r)
    BY <1>11, <2>1, RecoveredType
  <2>3. records' \in Seq(Record) /\ searchable \subseteq DOMAIN records'
    BY <2>2, SaveType
  <2>4. /\ recovery' \in [Recoverers -> {Idle}
             \union [pc : {"save", "delete"}, entry : Entry, repeats : BOOLEAN]]
        /\ \A q \in Recoverers :
             recovery'[q].pc # "idle" => recovery'[q].entry.incident \in Incidents
    BY <1>11, <2>1 DEF RecoverySaves, TypeOK
  <2>5. chances' \in [Incidents -> Nat]
    BY <1>11, <2>1 DEF RecoverySaves, TypeOK
  <2>6. QED
    BY <1>11, <2>3, <2>4, <2>5 DEF RecoverySaves, TypeOK
<1>12. ASSUME NEW i \in Incidents \union {0}, Deleted(i)
       PROVE  entry' \in Entry /\ old' \in Entry /\ chances' \in [Incidents -> Nat]
  <2>1. CASE Becomes(NoEntry) /\ UNCHANGED chances
    BY <2>1, EmptyTypes, BecomesTypes DEF TypeOK
  <2>2. CASE /\ UNCHANGED <<entry, old>>
             /\ chances' = IF i = 0 THEN chances ELSE [chances EXCEPT ![i] = @ + 1]
    <3>1. CASE i = 0
      BY <2>2, <3>1 DEF TypeOK
    <3>2. CASE i # 0
      BY <2>2, <3>2 DEF TypeOK
    <3>3. QED
      BY <3>1, <3>2
  <2>3. QED
    BY <1>12, <2>1, <2>2 DEF Deleted
<1>13. ASSUME NEW p \in Recoverers, RecoveryDeletes(p)
       PROVE  TypeOK'
  <2>1. recovery[p].entry.incident \in Incidents
    BY <1>13 DEF RecoveryDeletes, TypeOK
  <2>2. entry' \in Entry /\ old' \in Entry /\ chances' \in [Incidents -> Nat]
    BY <1>12, <1>13, <2>1 DEF RecoveryDeletes
  <2>3. /\ recovery' \in [Recoverers -> {Idle}
             \union [pc : {"save", "delete"}, entry : Entry, repeats : BOOLEAN]]
        /\ \A q \in Recoverers :
             recovery'[q].pc # "idle" => recovery'[q].entry.incident \in Incidents
    BY <1>13 DEF RecoveryDeletes, TypeOK, Idle
  <2>4. QED
    BY <1>13, <2>2, <2>3 DEF RecoveryDeletes, TypeOK
<1>14. CASE ResolutionSaves
  <2>1. PICK r \in Record : Save(r)
    BY <1>14, ResolvedType
  <2>2. records' \in Seq(Record) /\ searchable \subseteq DOMAIN records'
    BY <2>1, SaveType
  <2>3. dialog' \in [pc : {"delete"}]
    BY <1>14 DEF ResolutionSaves
  <2>4. QED
    BY <1>14, <2>2, <2>3 DEF ResolutionSaves, TypeOK
<1>15. CASE ResolutionDeletes
  <2>1. entry' \in Entry /\ old' \in Entry /\ chances' \in [Incidents -> Nat]
    BY <1>12, <1>15 DEF ResolutionDeletes
  <2>2. QED
    BY <1>15, <2>1 DEF ResolutionDeletes, TypeOK
<1>16. CASE Indexed
  BY <1>16 DEF Indexed, TypeOK
<1>17. CASE Expire
  BY <1>17, EmptyTypes, BecomesTypes DEF Expire, TypeOK
<1>18. CASE Killed
  <2>1. Idle.pc = "idle"
    BY DEF Idle
  <2>2. CASE UNCHANGED <<recovery, chances>>
    BY <1>18, <2>1, <2>2 DEF Killed, TypeOK
  <2>3. ASSUME NEW p \in Recoverers, recovery' = [recovery EXCEPT ![p] = Idle],
               chances' = IF recovery[p].pc = "delete"
                          THEN [chances EXCEPT ![recovery[p].entry.incident] = @ + 1]
                          ELSE chances,
               UNCHANGED <<notice, analysis, dialog>>
        PROVE  TypeOK'
    <3>1. /\ recovery' \in [Recoverers -> {Idle}
               \union [pc : {"save", "delete"}, entry : Entry, repeats : BOOLEAN]]
          /\ \A q \in Recoverers :
               recovery'[q].pc # "idle" => recovery'[q].entry.incident \in Incidents
      BY <2>1, <2>3 DEF TypeOK
    <3>2. chances' \in [Incidents -> Nat]
      <4>1. CASE recovery[p].pc = "delete"
        <5>1. recovery[p].entry.incident \in Incidents
          BY <4>1 DEF TypeOK
        <5>2. chances' = [chances EXCEPT ![recovery[p].entry.incident] = @ + 1]
          BY <2>3, <4>1
        <5>3. QED
          BY <5>1, <5>2 DEF TypeOK
      <4>2. CASE recovery[p].pc # "delete"
        BY <2>3, <4>2 DEF TypeOK
      <4>3. QED
        BY <4>1, <4>2
    <3>3. QED
      BY <1>18, <2>3, <3>1, <3>2 DEF Killed, TypeOK
  <2>4. QED
    BY <1>18, <2>2, <2>3 DEF Killed
<1>19. QED
  BY <1>1, <1>2, <1>3, <1>4, <1>5, <1>6, <1>7, <1>8, <1>9, <1>10, <1>11, <1>13, <1>14,
     <1>15, <1>16, <1>17, <1>18 DEF Next

\* The history and the handlers' data are well typed, whatever fails.
THEOREM MemoryTypes == Spec => []TypeOK
BY MemoryInit, MemoryStep, PTL DEF Spec

-----------------------------------------------------------------------------
(* Reading a record back.                                                  *)

\* The parts of a record: a field's own, or one that its text brings along.
LEMMA Parts ==
  ASSUME NEW r, NEW q \in Content(r)
  PROVE  \E f \in 1..4 :
           LET w == Written(r)[f]
           IN \/ q = [field |-> f, no |-> 0, key |-> w.key, value |-> w.text.head]
              \/ \E n \in DOMAIN w.text.rest :
                   q = [field |-> f, no |-> n, key |-> w.text.rest[n].key,
                        value |-> w.text.rest[n].value]
BY DEF Content

\* The four fields, one by one.
LEMMA Fields ==
  ASSUME NEW r
  PROVE  /\ Written(r)[1].key = "Root Cause" /\ Written(r)[1].text = r.cause
         /\ Written(r)[2].key = "Resolution" /\ Written(r)[2].text = r.resolution
         /\ Written(r)[3].key = "Resolution Time" /\ Written(r)[3].text = Plain(r.minutes)
         /\ Written(r)[4].key = "Errors" /\ Written(r)[4].text = r.errors
         /\ \A f \in 1..4 : f = 1 \/ f = 2 \/ f = 3 \/ f = 4
<1>1. /\ Written(r)[1].key = "Root Cause" /\ Written(r)[1].text = r.cause
  BY DEF Written
<1>2. /\ Written(r)[2].key = "Resolution" /\ Written(r)[2].text = r.resolution
  BY DEF Written
<1>3. /\ Written(r)[3].key = "Resolution Time" /\ Written(r)[3].text = Plain(r.minutes)
  BY DEF Written
<1>4. /\ Written(r)[4].key = "Errors" /\ Written(r)[4].text = r.errors
  BY DEF Written
<1>5. \A f \in 1..4 : f = 1 \/ f = 2 \/ f = 3 \/ f = 4
  OBVIOUS
<1>6. QED
  BY <1>1, <1>2, <1>3, <1>4, <1>5

\* Every field has a name of its own.
LEMMA FieldNames ==
  ASSUME NEW r, NEW f \in 1..4, NEW g \in 1..4, Written(r)[f].key = Written(r)[g].key
  PROVE  f = g
<1>1. f = 1 \/ f = 2 \/ f = 3 \/ f = 4
  BY Fields
<1>2. g = 1 \/ g = 2 \/ g = 3 \/ g = 4
  BY Fields
<1>3. /\ Written(r)[1].key = "Root Cause" /\ Written(r)[2].key = "Resolution"
      /\ Written(r)[3].key = "Resolution Time" /\ Written(r)[4].key = "Errors"
  BY Fields
<1>4. CASE f = 1
  BY <1>2, <1>3, <1>4
<1>5. CASE f = 2
  BY <1>2, <1>3, <1>5
<1>6. CASE f = 3
  BY <1>2, <1>3, <1>6
<1>7. CASE f = 4
  BY <1>2, <1>3, <1>7
<1>8. QED
  BY <1>1, <1>4, <1>5, <1>6, <1>7

\* A field's text is a text.
LEMMA FieldTexts ==
  ASSUME NEW r \in Record, NEW f \in 1..4
  PROVE  Written(r)[f].text \in Text
<1>1. Plain(r.minutes) \in Text
  BY PlainType DEF Record
<1>2. r.cause \in Text /\ r.resolution \in Text /\ r.errors \in Text
  BY DEF Record
<1>3. f = 1 \/ f = 2 \/ f = 3 \/ f = 4
  BY Fields
<1>4. /\ Written(r)[1].text = r.cause /\ Written(r)[2].text = r.resolution
      /\ Written(r)[3].text = Plain(r.minutes) /\ Written(r)[4].text = r.errors
  BY Fields
<1>5. QED
  BY <1>1, <1>2, <1>3, <1>4

\* A field reads back if no text from its own on brings a part of its name.
LEMMA ReadField ==
  ASSUME NEW r \in Record, NEW f \in 1..4, NEW key, key = Written(r)[f].key,
         \A g \in 1..4 : g >= f => ~Carries(Written(r)[g].text, key)
  PROVE  Read(r, key) = Written(r)[f].text.head
<1> DEFINE own == [field |-> f, no |-> 0, key |-> key, value |-> Written(r)[f].text.head]
           Latest(p) == p.key = key /\ \A q \in Content(r) : q.key = key => ~After(q, p)
<1>1. own \in Content(r)
  BY DEF Content
<1>2. ASSUME NEW q \in Content(r), q.key = key
      PROVE  /\ q.field \in 1..4 /\ q.no \in Nat
             /\ q.field < f \/ q = own
  <2>1. PICK g \in 1..4 :
          \/ q = [field |-> g, no |-> 0, key |-> Written(r)[g].key,
                  value |-> Written(r)[g].text.head]
          \/ \E n \in DOMAIN Written(r)[g].text.rest :
               q = [field |-> g, no |-> n, key |-> Written(r)[g].text.rest[n].key,
                    value |-> Written(r)[g].text.rest[n].value]
    BY Parts
  <2>2. CASE q = [field |-> g, no |-> 0, key |-> Written(r)[g].key,
                  value |-> Written(r)[g].text.head]
    <3>1. g = f
      BY <1>2, <2>2, FieldNames
    <3>2. QED
      BY <1>2, <2>2, <3>1
  <2>3. ASSUME NEW n \in DOMAIN Written(r)[g].text.rest,
               q = [field |-> g, no |-> n, key |-> Written(r)[g].text.rest[n].key,
                    value |-> Written(r)[g].text.rest[n].value]
        PROVE  q.field \in 1..4 /\ q.no \in Nat /\ q.field < f
    <3>1. Carries(Written(r)[g].text, key)
      BY <1>2, <2>3 DEF Carries
    <3>2. g < f
      BY <3>1
    <3>3. Written(r)[g].text.rest \in Seq([key : Words, value : Words])
      BY FieldTexts DEF Text
    <3>4. n \in Nat
      BY <2>3, <3>3
    <3>5. QED
      BY <2>3, <3>2, <3>4
  <2>4. QED
    BY <2>1, <2>2, <2>3
<1>3. Latest(own)
  BY <1>2 DEF After
<1>4. ASSUME NEW p \in Content(r), Latest(p)
      PROVE  p = own
  <2>1. ~After(own, p)
    BY <1>1, <1>4
  <2>2. CASE p.field < f
    <3>1. After(own, p)
      BY <2>2 DEF After
    <3>2. QED
      BY <2>1, <3>1
  <2>3. QED
    BY <1>2, <1>4, <2>2
<1>5. (CHOOSE p \in Content(r) : Latest(p)) = own
  BY <1>1, <1>3, <1>4
<1>6. Read(r, key) = own.value
  BY <1>5, Zenon DEF Read
<1>7. QED
  BY <1>6

\* A measured time is never changed by a cause or by what a human types.
THEOREM MemoryReads == Spec => []ReadsBack
<1>1. TypeOK => ReadsBack
  <2> SUFFICES ASSUME TypeOK, NEW k \in DOMAIN records
               PROVE  LET r == records[k]
                      IN /\ ~Carries(r.errors, "Resolution Time")
                              => Read(r, "Resolution Time") = r.minutes
                         /\ ~Carries(r.errors, "Resolution")
                              /\ ~Carries(r.resolution, "Resolution")
                              => Read(r, "Resolution") = r.resolution.head
                         /\ (\A x \in {r.errors, r.resolution, r.cause} :
                               ~Carries(x, "Root Cause"))
                              => Read(r, "Root Cause") = r.cause.head
    BY DEF ReadsBack
  <2> DEFINE r == records[k]
  <2>1. r \in Record
    BY DEF TypeOK
  <2>2. /\ Written(r)[1].key = "Root Cause" /\ Written(r)[1].text = r.cause
        /\ Written(r)[2].key = "Resolution" /\ Written(r)[2].text = r.resolution
        /\ Written(r)[3].key = "Resolution Time" /\ Written(r)[3].text = Plain(r.minutes)
        /\ Written(r)[4].key = "Errors" /\ Written(r)[4].text = r.errors
        /\ \A f \in 1..4 : f = 1 \/ f = 2 \/ f = 3 \/ f = 4
    BY Fields
  <2>3. \A key : ~Carries(Plain(r.minutes), key)
    BY DEF Carries, Plain
  <2> HIDE DEF r
  <2>4. ASSUME ~Carries(r.errors, "Resolution Time")
        PROVE  Read(r, "Resolution Time") = r.minutes
    <3>1. ASSUME NEW g \in 1..4, g >= 3
          PROVE  ~Carries(Written(r)[g].text, "Resolution Time")
      <4>1. g = 3 \/ g = 4
        BY <3>1
      <4>2. QED
        BY <2>2, <2>3, <2>4, <4>1
    <3>2. 3 \in 1..4
      OBVIOUS
    <3>3. Read(r, "Resolution Time") = Written(r)[3].text.head
      BY <2>1, <2>2, <3>1, <3>2, ReadField
    <3>4. Written(r)[3].text = Plain(r.minutes)
      BY <2>2
    <3>5. Plain(r.minutes).head = r.minutes
      BY DEF Plain
    <3>6. Read(r, "Resolution Time") = Plain(r.minutes).head
      BY <3>3, <3>4, Zenon
    <3>7. QED
      BY <3>5, <3>6, Zenon
  <2>5. ASSUME ~Carries(r.errors, "Resolution"), ~Carries(r.resolution, "Resolution")
        PROVE  Read(r, "Resolution") = r.resolution.head
    <3>1. ASSUME NEW g \in 1..4, g >= 2
          PROVE  ~Carries(Written(r)[g].text, "Resolution")
      <4>1. g = 2 \/ g = 3 \/ g = 4
        BY <3>1
      <4>2. QED
        BY <2>2, <2>3, <2>5, <4>1
    <3>2. 2 \in 1..4
      OBVIOUS
    <3>3. Read(r, "Resolution") = Written(r)[2].text.head
      BY <2>1, <2>2, <3>1, <3>2, ReadField
    <3>4. QED
      BY <2>2, <3>3
  <2>6. ASSUME \A x \in {r.errors, r.resolution, r.cause} : ~Carries(x, "Root Cause")
        PROVE  Read(r, "Root Cause") = r.cause.head
    <3>1. ASSUME NEW g \in 1..4, g >= 1
          PROVE  ~Carries(Written(r)[g].text, "Root Cause")
      <4>1. g = 1 \/ g = 2 \/ g = 3 \/ g = 4
        BY <2>2, <3>1
      <4>2. QED
        BY <2>2, <2>3, <2>6, <4>1
    <3>2. 1 \in 1..4
      OBVIOUS
    <3>3. Read(r, "Root Cause") = Written(r)[1].text.head
      BY <2>1, <2>2, <3>1, <3>2, ReadField
    <3>4. QED
      BY <2>2, <3>3
  <2>7. QED
    BY <2>4, <2>5, <2>6 DEF r
<1>2. QED
  BY <1>1, MemoryTypes, PTL

-----------------------------------------------------------------------------
(* What an analysis is told.                                               *)

\* What a lookup that does not fail counts.
Found == Fewer(TopK, Cardinality(searchable))

\* No message shows more than can be found, and no entry holds a lookup.
Told == /\ TypeOK /\ ToldNoLess
        /\ entry.stats = NoStats /\ old.stats = NoStats
        /\ \A i \in Incidents : shown[i] <= Found
        /\ analysis.pc = "lookup" => analysis.stats = NoStats
        /\ analysis.pc \in {"lookup", "rca"} => analysis.incident <= last

\* What can be found can be found from then on.
LEMMA FoundGrows ==
  ASSUME TypeOK, searchable' = searchable \/ Indexed
  PROVE  Found \in Nat /\ Found' \in Nat /\ Found <= Found'
<1>1. IsFiniteSet(searchable) /\ Cardinality(searchable) \in Nat
  BY SearchableFinite
<1>2. CASE searchable' = searchable
  BY <1>1, <1>2, LookupAssumption DEF Found, Fewer
<1>3. CASE Indexed
  <2>1. PICK k \in DOMAIN records \ searchable : searchable' = searchable \union {k}
    BY <1>3 DEF Indexed
  <2>2. Cardinality(searchable') = Cardinality(searchable) + 1
    BY <1>1, <2>1, FS_AddElement
  <2>3. QED
    BY <1>1, <2>2, LookupAssumption DEF Found, Fewer
<1>4. QED
  BY <1>2, <1>3

\* Nothing is shown at first.
LEMMA ToldInit == Init => Told
<1> SUFFICES ASSUME Init
             PROVE  Told
  OBVIOUS
<1>1. TypeOK
  BY MemoryInit
<1>2. Found \in Nat
  BY <1>1, SearchableFinite, LookupAssumption DEF Found, Fewer
<1>3. QED
  BY <1>1, <1>2 DEF Init, Told, ToldNoLess, NoEntry, Idle

\* A step keeps it.
LEMMA ToldStep == Told /\ [Next]_vars => Told'
<1> SUFFICES ASSUME Told, [Next]_vars
             PROVE  Told'
  OBVIOUS
<1>1. TypeOK /\ TypeOK'
  BY MemoryStep DEF Told
<1>2. searchable' = searchable \/ Indexed
  BY DEF Next, vars, NoticePosts, NoticePuts, Click, OpenModal, MemoryNode, Analyzed,
         SaveNodePuts, Reports, RecoveryGets, RecoverySaves, RecoveryDeletes,
         ResolutionSaves, ResolutionDeletes, Expire, Killed
<1>3. Found \in Nat /\ Found' \in Nat /\ Found <= Found'
  BY <1>1, <1>2, FoundGrows
<1>4. /\ last \in Nat /\ shown \in [Incidents -> Nat]
      /\ analysis.pc \in {"lookup", "rca"} => analysis.incident \in Incidents
  BY <1>1 DEF TypeOK, Idle
<1>5. entry'.stats = NoStats /\ old'.stats = NoStats
  <2>1. entry'.stats = NoStats
    <3>1. entry \in Entry /\ NoEntry.stats = NoStats
      BY <1>1 DEF TypeOK, NoEntry
    <3>2. \A i, st : Registered(i, st).stats = NoStats
      BY DEF Registered, NoEntry
    <3>3. CASE SaveNodePuts
      BY <3>3 DEF SaveNodePuts, Becomes, NoEntry
    <3>4. CASE Reports
      BY <3>1, <3>4 DEF Reports, Becomes, Told, Entry
    <3>5. CASE NoticePuts
      BY <3>2, <3>5 DEF NoticePuts, Becomes
    <3>6. entry' \in {entry, NoEntry} \/ NoticePuts \/ SaveNodePuts \/ Reports
      BY DEF Next, vars, NoticePosts, Click, OpenModal, MemoryNode, Analyzed, RecoveryGets,
             RecoverySaves, RecoveryDeletes, ResolutionSaves, ResolutionDeletes,
             Indexed, Expire, Killed, Deleted, Becomes
    <3>7. QED
      BY <3>1, <3>3, <3>4, <3>5, <3>6 DEF Told
  <2>2. old' \in {old, entry}
    BY DEF Next, vars, NoticePosts, NoticePuts, Click, OpenModal, MemoryNode, Analyzed,
           SaveNodePuts, Reports, RecoveryGets, RecoverySaves, RecoveryDeletes,
           ResolutionSaves, ResolutionDeletes, Indexed, Expire, Killed, Deleted, Becomes
  <2>3. QED
    BY <2>1, <2>2 DEF Told
\* Neither the message of the analysis nor what the analysis was told changes.
<1>6. ASSUME analysis' = analysis \/ analysis' = Idle, last' \in Nat, last <= last',
             \A i \in Incidents : shown'[i] <= Found',
             \A i \in Incidents : i <= last => shown'[i] = shown[i]
      PROVE  Told'
  <2>1. CASE analysis' = Idle
    BY <1>1, <1>5, <1>6, <2>1 DEF Told, ToldNoLess, Idle
  <2>2. CASE analysis' = analysis
    <3>1. /\ analysis'.pc = "lookup" => analysis'.stats = NoStats
          /\ analysis'.pc \in {"lookup", "rca"} => analysis'.incident <= last'
      BY <1>4, <1>6, <2>2 DEF Told, Incidents
    <3>2. ToldNoLess'
      BY <1>4, <1>6, <2>2 DEF Told, ToldNoLess
    <3>3. QED
      BY <1>1, <1>5, <1>6, <3>1, <3>2 DEF Told
  <2>3. QED
    BY <1>6, <2>1, <2>2
<1>7. shown' = shown => \A i \in Incidents : shown'[i] <= Found'
  BY <1>3, <1>4 DEF Told
<1>8. CASE NoticePosts
  <2>1. PICK st \in GetStats : \E n \in {st.count, 0} : shown' = [shown EXCEPT ![last'] = n]
    BY <1>8 DEF NoticePosts
  <2>2. PICK n \in {st.count, 0} : shown' = [shown EXCEPT ![last'] = n]
    BY <2>1
  <2>3. st.count \in Nat /\ st.count <= Found /\ Found' = Found
    BY <1>1, <1>8, StatsCount DEF Found, NoticePosts, Stats
  <2>4. last' = last + 1 /\ analysis' = analysis
    BY <1>8 DEF NoticePosts
  <2>5. \A i \in Incidents : shown'[i] = IF i = last' THEN n ELSE shown[i]
    BY <1>4, <2>2
  <2>6. \A i \in Incidents : shown'[i] <= Found'
    BY <1>3, <1>4, <2>2, <2>3, <2>5 DEF Told
  <2>7. \A i \in Incidents : i <= last => shown'[i] = shown[i]
    BY <1>4, <2>4, <2>5 DEF Incidents
  <2>8. QED
    BY <1>4, <1>6, <2>4, <2>6, <2>7
<1>9. ASSUME NEW i \in Incidents, Click(i)
      PROVE  Told'
  <2>1. PICK e \in Looked : analysis' = [pc |-> "lookup", incident |-> i, stats |-> e.stats]
    BY <1>9 DEF Click
  <2>2. e.stats = NoStats
    BY DEF Looked, Told, NoEntry
  <2>3. i <= last /\ UNCHANGED <<shown, last>>
    BY <1>4, <1>9 DEF Click, Incidents
  <2>4. QED
    BY <1>1, <1>5, <1>7, <2>1, <2>2, <2>3 DEF Told, ToldNoLess
<1>10. CASE MemoryNode
  <2>1. /\ analysis.pc = "lookup" /\ analysis.stats = NoStats
        /\ analysis \in [pc : {"lookup", "rca"}, incident : Incidents, stats : Stats]
        /\ UNCHANGED <<shown, last>>
    BY <1>1, <1>10 DEF MemoryNode, Told, TypeOK, Idle
  <2>2. PICK st \in GetStats : analysis' = [analysis EXCEPT !.pc = "rca", !.stats = st]
    BY <1>10, <2>1 DEF MemoryNode
  <2>3. st.failed \/ st.count = Found
    BY <1>1, StatsCount DEF Found
  <2>4. /\ analysis'.pc = "rca" /\ analysis'.stats = st
        /\ analysis'.incident = analysis.incident
    BY <2>1, <2>2
  <2>5. analysis'.incident \in Incidents /\ analysis'.incident <= last'
    BY <1>4, <2>1, <2>4 DEF Told
  <2>6. shown'[analysis'.incident] <= Found
    BY <2>1, <2>5 DEF Told
  <2>7. QED
    BY <1>1, <1>3, <1>4, <1>5, <1>7, <2>1, <2>3, <2>4, <2>5, <2>6 DEF Told, ToldNoLess
<1>11. CASE Analyzed
  <2>1. analysis'.pc \in {"report", "save"} /\ UNCHANGED <<shown, last>>
    BY <1>11 DEF Analyzed
  <2>2. QED
    BY <1>1, <1>5, <1>7, <2>1 DEF Told, ToldNoLess
<1>12. CASE SaveNodePuts
  <2>1. analysis'.pc = "report" /\ UNCHANGED <<shown, last>>
    BY <1>1, <1>12 DEF SaveNodePuts, TypeOK, Idle
  <2>2. QED
    BY <1>1, <1>5, <1>7, <2>1 DEF Told, ToldNoLess
<1>13. CASE (analysis' = analysis \/ analysis' = Idle) /\ UNCHANGED <<shown, last>>
  BY <1>4, <1>6, <1>7, <1>13
<1>14. QED
  BY <1>8, <1>9, <1>10, <1>11, <1>12, <1>13
     DEF Next, vars, NoticePuts, OpenModal, Reports, RecoveryGets, RecoverySaves,
         RecoveryDeletes, ResolutionSaves, ResolutionDeletes, Indexed, Expire, Killed

\* Whatever fails or is read stale, an analysis whose lookup did not fail is told of no
\* fewer past incidents than its message shows.
THEOREM MemoryTold == Spec => []ToldNoLess
<1>1. Told => ToldNoLess
  BY DEF Told
<1>2. QED
  BY <1>1, ToldInit, ToldStep, PTL DEF Spec

-----------------------------------------------------------------------------
(* How many records an incident has.                                       *)

Recorded(i) == Cardinality(RecoveriesOf(i))

\* The recovery that was the first to read the entry of i, while it is in progress.
First(i) == {p \in Holders(i) : ~recovery[p].repeats}
Alone(i) == \A p, q \in First(i) : p = q

\* A record of i that does not count as a repetition is still to come: of a first
\* recovery that will save, or of an entry that no first recovery has read yet.
Coming(i) == \/ \E p \in First(i) : recovery[p].pc = "save"
             \/ entry.incident = i /\ First(i) = {}
ToCome(i) == IF Coming(i) THEN 1 ELSE 0

Counted == /\ TypeOK
           /\ \A i \in Incidents : Alone(i) /\ Recorded(i) + ToCome(i) <= chances[i]

\* The records of an incident are finitely many.
LEMMA RecordedFinite ==
  ASSUME TypeOK, NEW i
  PROVE  IsFiniteSet(RecoveriesOf(i)) /\ Recorded(i) \in Nat
<1>1. DOMAIN records = 1..Len(records) /\ Len(records) \in Nat
  BY DEF TypeOK
<1>2. IsFiniteSet(1..Len(records))
  BY <1>1, FS_Interval
<1>3. RecoveriesOf(i) \subseteq 1..Len(records)
  BY <1>1 DEF RecoveriesOf
<1>4. QED
  BY <1>2, <1>3, FS_Subset, FS_CardinalityType DEF Recorded

\* A save adds one record at most, and only a recovery of i adds to those of i.
LEMMA SaveCounts ==
  ASSUME TypeOK, NEW r \in Record, Save(r), NEW i
  PROVE  Recorded(i)' <= Recorded(i) + (IF r.by = "auto" /\ r.incident = i THEN 1 ELSE 0)
<1>1. IsFiniteSet(RecoveriesOf(i)) /\ Recorded(i) \in Nat
  BY RecordedFinite
<1>2. CASE records' = records
  <2>1. RecoveriesOf(i)' = RecoveriesOf(i)
    BY <1>2 DEF RecoveriesOf
  <2>2. QED
    BY <1>1, <2>1 DEF Recorded
<1>3. CASE records' = Append(records, r)
  <2>1. /\ DOMAIN records' = 1..(Len(records) + 1) /\ records'[Len(records) + 1] = r
        /\ \A k \in 1..Len(records) : records'[k] = records[k]
        /\ DOMAIN records = 1..Len(records) /\ Len(records) \in Nat
    BY <1>3 DEF TypeOK
  <2>2. CASE r.by = "auto" /\ r.incident = i
    <3>1. RecoveriesOf(i)' = RecoveriesOf(i) \union {Len(records) + 1}
      BY <2>1, <2>2 DEF RecoveriesOf
    <3>2. Len(records) + 1 \notin RecoveriesOf(i)
      BY <2>1 DEF RecoveriesOf
    <3>3. Cardinality(RecoveriesOf(i) \union {Len(records) + 1})
            = Cardinality(RecoveriesOf(i)) + 1
      BY <1>1, <3>2, FS_AddElement
    <3>4. QED
      BY <1>1, <2>2, <3>1, <3>3 DEF Recorded
  <2>3. CASE ~(r.by = "auto" /\ r.incident = i)
    <3>1. RecoveriesOf(i)' = RecoveriesOf(i)
      BY <2>1, <2>3 DEF RecoveriesOf
    <3>2. QED
      BY <1>1, <2>3, <3>1 DEF Recorded
  <2>4. QED
    BY <2>2, <2>3
<1>4. QED
  BY <1>2, <1>3 DEF Save

\* Nothing is recorded at first.
LEMMA CountedInit == Init => Counted
<1> SUFFICES ASSUME Init
             PROVE  Counted
  OBVIOUS
<1>1. TypeOK
  BY MemoryInit
<1>2. ASSUME NEW i \in Incidents
      PROVE  Alone(i) /\ Recorded(i) + ToCome(i) <= chances[i]
  <2>1. RecoveriesOf(i) = {}
    BY DEF Init, RecoveriesOf
  <2>2. Recorded(i) = 0
    BY <2>1, FS_EmptySet DEF Recorded
  <2>3. First(i) = {}
    BY DEF Init, First, Holders, Idle
  <2>4. entry.incident # i
    BY <1>2 DEF Init, NoEntry, Incidents
  <2>5. ToCome(i) = 0
    BY <2>3, <2>4 DEF ToCome, Coming
  <2>6. QED
    BY <1>2, <2>2, <2>3, <2>5 DEF Init, Alone
<1>3. QED
  BY <1>1, <1>2 DEF Counted

\* A step keeps the count.
LEMMA CountedStep == Counted /\ [Next]_vars => Counted'
<1> SUFFICES ASSUME Counted, [Next]_vars, NEW i \in Incidents
             PROVE  Alone(i)' /\ Recorded(i)' + ToCome(i)' <= chances'[i]
  BY MemoryStep DEF Counted
<1>1. TypeOK /\ TypeOK'
  BY MemoryStep DEF Counted
<1>2. /\ Recorded(i) \in Nat /\ Recorded(i)' \in Nat /\ chances[i] \in Nat
      /\ Alone(i) /\ Recorded(i) + ToCome(i) <= chances[i]
      /\ ToCome(i) \in {0, 1} /\ ToCome(i)' \in {0, 1}
  <2>1. Recorded(i)' \in Nat
    <3>1. DOMAIN records' = 1..Len(records') /\ Len(records') \in Nat
      BY <1>1 DEF TypeOK
    <3>2. IsFiniteSet(1..Len(records'))
      BY <3>1, FS_Interval
    <3>3. RecoveriesOf(i)' \subseteq 1..Len(records')
      BY <3>1 DEF RecoveriesOf
    <3>4. QED
      BY <3>2, <3>3, FS_Subset, FS_CardinalityType DEF Recorded
  <2>2. ToCome(i) \in {0, 1} /\ ToCome(i)' \in {0, 1}
    BY DEF ToCome
  <2>3. QED
    BY <1>1, <2>1, <2>2, RecordedFinite DEF Counted, TypeOK
<1>3. records' = records => Recorded(i)' = Recorded(i)
  BY DEF Recorded, RecoveriesOf
<1>4. recovery' = recovery => First(i)' = First(i)
  BY DEF First, Holders
\* Nothing is recorded, and a record is to come only if it was.
<1>5. ASSUME Alone(i)', UNCHANGED <<records, chances>>, Coming(i)' => Coming(i)
      PROVE  Alone(i)' /\ Recorded(i)' + ToCome(i)' <= chances'[i]
  BY <1>2, <1>3, <1>5 DEF ToCome
\* There is one more chance.
<1>6. ASSUME NEW j \in Incidents, Alone(i)', UNCHANGED records,
             chances' = [chances EXCEPT ![j] = @ + 1], i # j => (Coming(i)' => Coming(i))
      PROVE  Alone(i)' /\ Recorded(i)' + ToCome(i)' <= chances'[i]
  <2>1. CASE i = j
    <3>1. chances'[i] = chances[i] + 1
      BY <1>1, <1>6, <2>1 DEF TypeOK
    <3>2. QED
      BY <1>2, <1>3, <1>6, <3>1
  <2>2. CASE i # j
    <3>1. chances'[i] = chances[i]
      BY <1>1, <1>6, <2>2 DEF TypeOK
    <3>2. ToCome(i)' <= ToCome(i)
      BY <1>6, <2>2 DEF ToCome
    <3>3. QED
      BY <1>2, <1>3, <1>6, <3>1, <3>2
  <2>3. QED
    BY <2>1, <2>2
\* No recovery moved, and the entry is gone or of the same incident.
<1>7. ASSUME UNCHANGED <<records, recovery, chances>>,
             entry'.incident \in {0, entry.incident}
      PROVE  Alone(i)' /\ Recorded(i)' + ToCome(i)' <= chances'[i]
  <2>1. Alone(i)' /\ (Coming(i)' => Coming(i))
    BY <1>2, <1>4, <1>7 DEF Alone, Coming, Incidents
  <2>2. QED
    BY <1>5, <1>7, <2>1
\* No recovery moved, and the entry was put.
<1>8. ASSUME NEW j \in Incidents, UNCHANGED <<records, recovery>>, entry'.incident = j,
             chances' = [chances EXCEPT ![j] = @ + 1]
      PROVE  Alone(i)' /\ Recorded(i)' + ToCome(i)' <= chances'[i]
  <2>1. Alone(i)' /\ (i # j => (Coming(i)' => Coming(i)))
    BY <1>2, <1>4, <1>8 DEF Alone, Coming
  <2>2. QED
    BY <1>6, <1>8, <2>1
<1>9. CASE NoticePuts
  <2>1. last \in Incidents
    BY <1>1, <1>9 DEF NoticePuts, TypeOK, Incidents
  <2>2. entry'.incident = last
    BY <1>9 DEF NoticePuts, Becomes, Registered, NoEntry
  <2>3. QED
    BY <1>8, <1>9, <2>1, <2>2 DEF NoticePuts
<1>10. CASE SaveNodePuts
  <2>1. analysis.incident \in Incidents
    BY <1>1, <1>10 DEF SaveNodePuts, TypeOK, Idle
  <2>2. entry'.incident = analysis.incident
    BY <1>10 DEF SaveNodePuts, Becomes, NoEntry
  <2>3. QED
    BY <1>8, <1>10, <2>1, <2>2 DEF SaveNodePuts
<1>11. CASE Reports
  <2>1. entry \in Entry
    BY <1>1 DEF TypeOK
  <2>2. analysis.incident \in Incidents
    BY <1>1, <1>11 DEF Reports, TypeOK, Idle
  <2>3. UNCHANGED <<records, recovery>>
    BY <1>11 DEF Reports
  <2>4. CASE UNCHANGED <<entry, old, chances>>
    BY <1>7, <2>3, <2>4
  <2>5. CASE Ongoing /\ entry'.incident = entry.incident /\ chances' = chances
    BY <1>7, <2>3, <2>5
  <2>6. CASE ~Ongoing /\ entry'.incident = analysis.incident
             /\ chances' = [chances EXCEPT ![analysis.incident] = @ + 1]
    BY <1>8, <2>2, <2>3, <2>6
  <2>7. QED
    BY <1>11, <2>1, <2>4, <2>5, <2>6 DEF Reports, Becomes, Entry
<1>12. ASSUME NEW p \in Recoverers, RecoveryGets(p)
       PROVE  Alone(i)' /\ Recorded(i)' + ToCome(i)' <= chances'[i]
  <2>1. PICK e \in Looked : e.incident # 0 /\ Took(p, e)
    BY <1>12 DEF RecoveryGets
  <2> DEFINE again == entry.incident # e.incident \/ Holders(e.incident) # {}
  <2>2. recovery' = [recovery EXCEPT ![p] = [pc |-> "save", entry |-> e, repeats |-> again]]
    BY <2>1 DEF Took
  <2>3. /\ recovery'[p] = [pc |-> "save", entry |-> e, repeats |-> again]
        /\ \A q \in Recoverers \ {p} : recovery'[q] = recovery[q]
    BY <1>1, <2>2 DEF TypeOK
  <2>4. recovery[p].pc = "idle" /\ UNCHANGED <<entry, records, chances>>
    BY <1>12 DEF RecoveryGets
  <2>5. CASE again \/ e.incident # i
    <3>1. p \notin First(i)' /\ p \notin First(i)
      <4>1. recovery'[p].entry = e /\ recovery'[p].repeats = again
        BY <2>3
      <4> HIDE DEF again
      <4>2. QED
        BY <2>4, <2>5, <4>1 DEF First, Holders
    <3>2. First(i)' = First(i)
      <4>1. \A q \in Recoverers \ {p} : q \in First(i)' <=> q \in First(i)
        <5> HIDE DEF again
        <5>1. QED
          BY <2>3 DEF First, Holders
      <4>2. QED
        BY <3>1, <4>1 DEF First, Holders
    <3>3. \A q \in First(i) : recovery'[q] = recovery[q]
      BY <2>3, <3>1 DEF First, Holders
    <3>4. Alone(i)' /\ (Coming(i)' => Coming(i))
      BY <1>2, <2>4, <3>2, <3>3 DEF Alone, Coming
    <3>5. QED
      BY <1>5, <2>4, <3>4
  <2>6. CASE ~again /\ e.incident = i
    <3>1. entry.incident = i /\ Holders(i) = {}
      BY <2>6
    <3>2. First(i) = {}
      BY <3>1 DEF First
    <3>3. \A q \in First(i)' : q = p
      BY <2>3, <3>1 DEF First, Holders
    <3>4. Alone(i)' /\ Coming(i)
      BY <3>1, <3>2, <3>3 DEF Alone, Coming
    <3>5. QED
      BY <1>5, <2>4, <3>4
  <2>7. QED
    BY <2>5, <2>6
<1>13. ASSUME NEW p \in Recoverers, RecoverySaves(p)
       PROVE  Alone(i)' /\ Recorded(i)' + ToCome(i)' <= chances'[i]
  <2>1. /\ recovery[p] \in [pc : {"save", "delete"}, entry : Entry, repeats : BOOLEAN]
        /\ recovery[p].entry.incident \in Incidents /\ recovery[p].pc = "save"
    BY <1>1, <1>13 DEF RecoverySaves, TypeOK, Idle
  <2> DEFINE j == recovery[p].entry.incident
  <2>2. PICK r \in Record : Save(r) /\ r.by = "auto" /\ r.incident = j
    BY <1>13, <2>1, RecoveredType
  <2>3. Recorded(i)' <= Recorded(i) + (IF j = i THEN 1 ELSE 0)
    BY <1>1, <2>2, SaveCounts
  <2>4. /\ recovery'[p].pc = "delete" /\ recovery'[p].entry = recovery[p].entry
        /\ recovery'[p].repeats = recovery[p].repeats
        /\ \A q \in Recoverers \ {p} : recovery'[q] = recovery[q]
        /\ UNCHANGED entry
    BY <1>1, <1>13, <2>1 DEF RecoverySaves, TypeOK
  <2>5. First(i)' = First(i)
    <3>1. \A q \in Recoverers : q \in First(i)' <=> q \in First(i)
      BY <2>1, <2>4 DEF First, Holders
    <3>2. QED
      BY <3>1 DEF First, Holders
  <2>6. Alone(i)'
    BY <1>2, <2>5 DEF Alone
  <2>7. Coming(i)' => Coming(i)
    BY <2>4, <2>5 DEF Coming, First, Holders
  <2>8. CASE j # i
    <3>1. chances'[i] = chances[i]
      BY <1>1, <1>13, <2>8 DEF RecoverySaves, TypeOK
    <3>2. ToCome(i)' <= ToCome(i)
      BY <2>7 DEF ToCome
    <3>3. QED
      BY <1>2, <2>3, <2>6, <2>8, <3>1, <3>2
  <2>9. CASE j = i /\ recovery[p].repeats
    <3>1. chances'[i] = chances[i] + 1
      BY <1>1, <1>13, <2>9 DEF RecoverySaves, TypeOK
    <3>2. ToCome(i)' <= ToCome(i)
      BY <2>7 DEF ToCome
    <3>3. QED
      BY <1>2, <2>3, <2>6, <2>9, <3>1, <3>2
  <2>10. CASE j = i /\ ~recovery[p].repeats
    <3>1. chances' = chances
      BY <1>13, <2>10 DEF RecoverySaves
    <3>2. p \in First(i)
      BY <2>1, <2>10 DEF First, Holders
    <3>3. Coming(i) /\ ~Coming(i)'
      BY <1>2, <2>1, <2>4, <2>5, <3>2 DEF Coming, Alone
    <3>4. ToCome(i) = 1 /\ ToCome(i)' = 0
      BY <3>3 DEF ToCome
    <3>5. QED
      BY <1>2, <2>3, <2>6, <2>10, <3>1, <3>4
  <2>11. QED
    BY <2>8, <2>9, <2>10
\* A recovery is over, and the entry is gone or as it was.
<1>14. ASSUME NEW p \in Recoverers, recovery[p].pc # "idle", UNCHANGED records,
              recovery' = [recovery EXCEPT ![p] = Idle],
              entry'.incident \in {0, entry.incident},
              \/ recovery[p].pc = "save" /\ chances' = chances
              \/ entry'.incident = 0 /\ chances' = chances
              \/ chances' = [chances EXCEPT ![recovery[p].entry.incident] = @ + 1]
       PROVE  Alone(i)' /\ Recorded(i)' + ToCome(i)' <= chances'[i]
  <2>1. recovery[p].entry.incident \in Incidents
    BY <1>1, <1>14 DEF TypeOK
  <2> DEFINE j == recovery[p].entry.incident
  <2>2. /\ recovery'[p].pc = "idle"
        /\ \A q \in Recoverers \ {p} : recovery'[q] = recovery[q]
    BY <1>1, <1>14 DEF TypeOK, Idle
  <2>3. First(i)' = First(i) \ {p}
    <3>1. \A q \in Recoverers : q \in First(i)' <=> q \in First(i) \ {p}
      BY <2>2 DEF First, Holders
    <3>2. QED
      BY <3>1 DEF First, Holders
  <2>4. Alone(i)'
    BY <1>2, <2>3 DEF Alone
  <2>5. \A q \in First(i)' : recovery'[q] = recovery[q]
    BY <2>2, <2>3 DEF First, Holders
  <2>6. CASE p \notin First(i) \/ recovery[p].pc = "save" \/ entry'.incident = 0
    <3>1. Coming(i)' => Coming(i)
      <4>1. CASE \E q \in First(i)' : recovery'[q].pc = "save"
        BY <2>3, <2>5, <4>1 DEF Coming
      <4>2. CASE entry'.incident = i /\ First(i)' = {}
        <5>1. entry.incident = i
          BY <1>14, <4>2 DEF Incidents
        <5>2. CASE p \in First(i)
          <6>1. recovery[p].pc = "save"
            BY <2>6, <4>2, <5>2 DEF Incidents
          <6>2. QED
            BY <5>2, <6>1 DEF Coming
        <5>3. CASE p \notin First(i)
          BY <2>3, <4>2, <5>1, <5>3 DEF Coming
        <5>4. QED
          BY <5>2, <5>3
      <4>3. QED
        BY <4>1, <4>2 DEF Coming
    <3>2. CASE chances' = chances
      BY <1>5, <1>14, <2>4, <3>1, <3>2
    <3>3. CASE chances' = [chances EXCEPT ![j] = @ + 1]
      BY <1>6, <1>14, <2>1, <2>4, <3>1, <3>3
    <3>4. QED
      BY <1>14, <3>2, <3>3
  <2>7. CASE p \in First(i) /\ ~(recovery[p].pc = "save" \/ entry'.incident = 0)
    <3>1. j = i /\ chances' = [chances EXCEPT ![j] = @ + 1]
      BY <1>14, <2>7 DEF First, Holders
    <3>2. QED
      BY <1>6, <1>14, <2>1, <2>4, <3>1
  <2>8. QED
    BY <2>6, <2>7
<1>15. ASSUME NEW p \in Recoverers, RecoveryDeletes(p)
       PROVE  Alone(i)' /\ Recorded(i)' + ToCome(i)' <= chances'[i]
  <2>1. /\ recovery[p].pc # "idle" /\ UNCHANGED records
        /\ recovery' = [recovery EXCEPT ![p] = Idle]
    BY <1>15 DEF RecoveryDeletes
  <2>2. recovery[p].entry.incident # 0
    BY <1>1, <2>1 DEF TypeOK, Incidents
  <2>3. \/ entry'.incident = 0 /\ chances' = chances
        \/ /\ entry' = entry
           /\ chances' = [chances EXCEPT ![recovery[p].entry.incident] = @ + 1]
    BY <1>15, <2>2 DEF RecoveryDeletes, Deleted, Becomes, NoEntry
  <2>4. QED
    BY <1>14, <2>1, <2>3
<1>16. CASE ResolutionSaves
  <2>1. PICK r \in Record : Save(r) /\ r.by = "human"
    BY <1>1, <1>16, ResolvedType
  <2>2. Recorded(i)' <= Recorded(i)
    BY <1>1, <1>2, <2>1, SaveCounts
  <2>3. UNCHANGED <<entry, recovery, chances>>
    BY <1>16 DEF ResolutionSaves
  <2>4. Alone(i)' /\ (Coming(i)' => Coming(i))
    BY <1>2, <1>4, <2>3 DEF Alone, Coming
  <2>5. ToCome(i)' <= ToCome(i)
    BY <2>4 DEF ToCome
  <2>6. QED
    BY <1>2, <2>2, <2>3, <2>4, <2>5
<1>17. CASE ResolutionDeletes
  <2>1. entry'.incident \in {0, entry.incident} /\ UNCHANGED <<records, recovery, chances>>
    BY <1>17 DEF ResolutionDeletes, Deleted, Becomes, NoEntry
  <2>2. QED
    BY <1>7, <2>1
<1>18. CASE Expire
  <2>1. entry'.incident \in {0, entry.incident} /\ UNCHANGED <<records, recovery, chances>>
    BY <1>18 DEF Expire, Becomes, NoEntry
  <2>2. QED
    BY <1>7, <2>1
<1>19. CASE Killed
  <2>1. UNCHANGED <<entry, records>>
    BY <1>19 DEF Killed
  <2>2. CASE UNCHANGED <<recovery, chances>>
    BY <1>7, <2>1, <2>2
  <2>3. ASSUME NEW p \in Recoverers, recovery' = [recovery EXCEPT ![p] = Idle],
               chances' = IF recovery[p].pc = "delete"
                          THEN [chances EXCEPT ![recovery[p].entry.incident] = @ + 1]
                          ELSE chances
        PROVE  Alone(i)' /\ Recorded(i)' + ToCome(i)' <= chances'[i]
    <3>1. CASE recovery[p].pc = "idle"
      <4>1. recovery[p] = Idle
        BY <1>1, <3>1 DEF TypeOK
      <4>2. recovery' = recovery
        BY <1>1, <2>3, <4>1 DEF TypeOK
      <4>3. QED
        BY <1>7, <2>1, <2>3, <3>1, <4>2
    <3>2. CASE recovery[p].pc = "delete"
      BY <1>14, <2>1, <2>3, <3>2
    <3>3. CASE recovery[p].pc = "save"
      BY <1>14, <2>1, <2>3, <3>3
    <3>4. QED
      <4>1. recovery[p].pc \in {"idle", "save", "delete"}
        BY <1>1 DEF TypeOK, Idle
      <4>2. QED
        BY <3>1, <3>2, <3>3, <4>1
  <2>4. QED
    BY <1>19, <2>2, <2>3 DEF Killed
<1>20. CASE UNCHANGED <<entry, records, recovery, chances>>
  BY <1>7, <1>20
<1>21. QED
  BY <1>9, <1>10, <1>11, <1>12, <1>13, <1>15, <1>16, <1>17, <1>18, <1>19, <1>20
     DEF Next, vars, NoticePosts, Click, OpenModal, MemoryNode, Analyzed, Indexed

\* However many recoveries overlap, an incident has no more records of them than its
\* entry was put, saves repeated a read, and recoveries that saved left the entry.
THEOREM MemoryCounts == Spec => []RecordedOncePerEntry
<1>1. Counted => RecordedOncePerEntry
  <2> SUFFICES ASSUME Counted, NEW i \in Incidents
               PROVE  Cardinality(RecoveriesOf(i)) <= chances[i]
    BY DEF RecordedOncePerEntry
  <2>1. Recorded(i) \in Nat /\ chances[i] \in Nat
    BY RecordedFinite DEF Counted, TypeOK
  <2>2. ToCome(i) \in Nat
    BY DEF ToCome
  <2>3. QED
    BY <2>1, <2>2 DEF Counted, Recorded
<1>2. QED
  BY <1>1, CountedInit, CountedStep, PTL DEF Spec
=============================================================================
