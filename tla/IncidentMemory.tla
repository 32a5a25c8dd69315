--------------------------- MODULE IncidentMemory ---------------------------
(***************************************************************************)
(* What the platform remembers of one alert's past incidents.  A closed    *)
(* incident is written to the long-term memory as one line of text         *)
(* (save_incident) and read back by parsing that line: by a notice, for    *)
(* the message it posts, and by an analysis, for its prompt.  The entry of *)
(* the ongoing table goes between them, with reads that may fail or be     *)
(* stale.  Any number of RESOLVED notices may be in progress, one that was *)
(* delivered twice among them.  IncidentLifecycle has the messages and the *)
(* overlaps of the other handlers: here one FIRING notice, one analysis    *)
(* and one dialog are in progress, as more would only put the entry again  *)
(* or save what humans typed; a write of the entry that fails is like a    *)
(* handler killed before it.                                               *)
(***************************************************************************)
EXTENDS Naturals, Sequences, FiniteSets

CONSTANTS TopK,          \* topK of get_stats (100)
          Limit,         \* limit of search_similar_incidents (3)
          Words,         \* the strings a record may hold
          Typed,         \* texts a human may type as the resolution
          Reported,      \* texts of an analysis's root causes, none among them
          Evidence,      \* texts of an analysis's evidence
          Times,         \* resolution times a closing may measure, as written
          CanFail,       \* what may fail: "lookup", "get", "save", "delete", or be "stale"
          Recoverers,    \* RESOLVED notices that may be in progress together
          MaxIncidents,  \* bound: incidents
          MaxRecords     \* bound: records and closings in progress

ASSUME LookupAssumption == TopK \in Nat \ {0} /\ Limit \in Nat \ {0}
ASSUME BoundsAssumption == MaxIncidents \in Nat \ {0} /\ MaxRecords \in Nat
ASSUME RecoverersAssumption == IsFiniteSet(Recoverers)

\* A text is what stands before its first separator and the parts after it.
Text == [head : Words, rest : Seq([key : Words, value : Words])]

\* Those the code writes itself.
ASSUME WordsAssumption == {"", "Unknown", "auto", "0"} \subseteq Words
ASSUME TextsAssumption == Typed \subseteq Text /\ Reported \subseteq Text /\ Evidence \subseteq Text
ASSUME TimeTextsAssumption == Times \subseteq Words

VARIABLES last,        \* how many incidents were posted
          entry,       \* the ongoing entry
          old,         \* what it was before its last change
          records,     \* what was saved, oldest first
          searchable,  \* the records a lookup can find
          notice,      \* the FIRING notice in progress
          shown,       \* how often the alert fired, as each message shows it
          clicked,     \* messages whose analysis was asked for
          analysis,    \* the analysis in progress
          recovery,    \* the RESOLVED notices in progress
          dialog,      \* the resolution dialog in progress
          chances      \* how often a recovery could record it (for RecordedOncePerEntry)

vars == <<last, entry, old, records, searchable, notice, shown, clicked, analysis,
          recovery, dialog, chances>>

-----------------------------------------------------------------------------
(* A record as text: "key: value" parts between separators.  A text that   *)
(* itself holds separators adds parts of its own.                          *)

Plain(h) == [head |-> h, rest |-> <<>>]
NoText == Plain("")
Unknown == Plain("Unknown")
Carries(text, key) == \E n \in DOMAIN text.rest : text.rest[n].key = key

\* The fields in the order they are written (alert, severity, status and time stamp
\* are not read by anything modelled).
Written(r) == << [key |-> "Root Cause", text |-> r.cause],
                 [key |-> "Resolution", text |-> r.resolution],
                 [key |-> "Resolution Time", text |-> Plain(r.minutes)],
                 [key |-> "Errors", text |-> r.errors] >>

\* _format_incident_content, split at its separators.
Content(r) ==
  UNION { LET w == Written(r)[f]
          IN {[field |-> f, no |-> 0, key |-> w.key, value |-> w.text.head]} \union
             {[field |-> f, no |-> n, key |-> w.text.rest[n].key,
               value |-> w.text.rest[n].value] : n \in DOMAIN w.text.rest}
        : f \in 1..4 }

After(p, q) == p.field > q.field \/ (p.field = q.field /\ p.no > q.no)

\* Mutant of Read: the first part with the key counts.
ReadFirst(r, key) ==
  (CHOOSE p \in Content(r) :
     p.key = key /\ \A q \in Content(r) : q.key = key => ~After(p, q)).value

\* _parse_incident_content: the last part with the key counts.
Read(r, key) ==
  (CHOOSE p \in Content(r) :
     p.key = key /\ \A q \in Content(r) : q.key = key => ~After(q, p)).value

-----------------------------------------------------------------------------
(* Looking up the past.                                                    *)

NoStats == [failed |-> FALSE, count |-> 0]
FailedStats == [failed |-> TRUE, count |-> 0]

Fewer(x, y) == IF x < y THEN x ELSE y

\* What a retrieval of k records can answer: which ones are nearest is not known.
Retrieved(k) == {S \in SUBSET searchable : Cardinality(S) = Fewer(k, Cardinality(searchable))}

\* get_stats: the count of the records it was given, 0 being a new alert; a failure
\* is answered like a new alert.
GetStats == {[failed |-> FALSE, count |-> Cardinality(S)] : S \in Retrieved(TopK)}
            \union (IF "lookup" \in CanFail THEN {FailedStats} ELSE {})

\* search_similar_incidents: records near enough, whose resolution says something.
Useful(i) == Read(records[i], "Resolution") \notin {"", "ongoing", "Unknown"}
Similar == Retrieved(Limit) \union (IF "lookup" \in CanFail THEN {{}} ELSE {})

-----------------------------------------------------------------------------
Incidents == 1..MaxIncidents
\* "timed" is whether there is a time stamp.
NoEntry == [incident |-> 0, cause |-> NoText, errors |-> NoText, timed |-> FALSE,
            stats |-> NoStats]
Idle == [pc |-> "idle"]

Init == /\ last = 0
        /\ entry = NoEntry /\ old = NoEntry
        /\ records = <<>> /\ searchable = {}
        /\ notice = Idle /\ analysis = Idle /\ dialog = Idle
        /\ recovery = [p \in Recoverers |-> Idle]
        /\ shown = [i \in Incidents |-> 0]
        /\ clicked = {}
        /\ chances = [i \in Incidents |-> 0]

Ongoing == entry.incident # 0

\* get_ongoing_incident: a failure is answered like no entry; an eventually
\* consistent read may miss the last change.
Looked == {entry} \union (IF "get" \in CanFail THEN {NoEntry} ELSE {})
                  \union (IF "stale" \in CanFail THEN {old} ELSE {})

Becomes(e) == entry' = e /\ old' = (IF "stale" \in CanFail THEN entry ELSE old)

\* A FIRING notice of an alert that is not ongoing counts its past and searches it,
\* and posts a message with the count and a past case if it found a useful case near
\* enough and the alert is not new.
NoticePosts ==
  /\ notice.pc = "idle"
  /\ \E e \in Looked : e.incident = 0
  /\ last < MaxIncidents
  /\ last' = last + 1
  /\ \E st \in GetStats, S \in Similar : \E near \in SUBSET S :
       LET case == st.count > 0 /\ \E i \in near : Useful(i)
       IN /\ shown' = [shown EXCEPT ![last'] = IF case THEN st.count ELSE 0]
          /\ notice' = [pc |-> "put", stats |-> IF case THEN st ELSE NoStats]
  /\ UNCHANGED <<entry, old, records, searchable, clicked, analysis, recovery, dialog,
                 chances>>

\* put_ongoing_incident is given the statistics and has no column for them.
Registered(i, st) == [NoEntry EXCEPT !.incident = i, !.timed = TRUE]

NoticePuts ==
  /\ notice.pc = "put"
  /\ Becomes(Registered(last, notice.stats))
  /\ chances' = [chances EXCEPT ![last] = @ + 1]
  /\ notice' = Idle
  /\ UNCHANGED <<last, records, searchable, shown, clicked, analysis, recovery, dialog>>

-----------------------------------------------------------------------------
(* An analysis.                                                            *)

\* A click on a message's button, while the alert is ongoing, sends the entry's
\* statistics along.
Click(i) ==
  /\ analysis.pc = "idle"
  /\ i \in 1..last \ clicked
  /\ clicked' = clicked \union {i}
  /\ \E e \in Looked : /\ e.incident # 0
                       /\ analysis' = [pc |-> "lookup", incident |-> i, stats |-> e.stats]
  /\ UNCHANGED <<last, entry, old, records, searchable, notice, shown, recovery, dialog,
                 chances>>

\* Mutant of MemoryNode: it counts among as few records as a search returns.
MemoryNodeFew ==
  /\ analysis.pc = "lookup"
  /\ \E S \in Retrieved(Limit) :
       analysis' = [analysis EXCEPT !.pc = "rca",
                                    !.stats = [failed |-> FALSE, count |-> Cardinality(S)]]
  /\ UNCHANGED <<last, entry, old, records, searchable, notice, shown, clicked, recovery,
                 dialog, chances>>

\* memory_node: statistics that came along are used as they are.
MemoryNode ==
  /\ analysis.pc = "lookup"
  /\ \E st \in (IF analysis.stats # NoStats THEN {analysis.stats} ELSE GetStats) :
       analysis' = [analysis EXCEPT !.pc = "rca", !.stats = st]
  /\ UNCHANGED <<last, entry, old, records, searchable, notice, shown, clicked, recovery,
                 dialog, chances>>

\* rca_node ends, and memory_save_node looks for the entry.
Analyzed ==
  /\ analysis.pc = "rca"
  /\ \E c \in Reported, errors \in Evidence, e \in Looked :
       analysis' = [pc |-> IF e.incident # 0 THEN "report" ELSE "save",
                    incident |-> analysis.incident, cause |-> c, errors |-> errors]
  /\ UNCHANGED <<last, entry, old, records, searchable, notice, shown, clicked, recovery,
                 dialog, chances>>

\* An alert that is not ongoing any more is put back.
SaveNodePuts ==
  /\ analysis.pc = "save"
  /\ Becomes([NoEntry EXCEPT !.incident = analysis.incident, !.timed = TRUE,
                             !.cause = analysis.cause, !.errors = analysis.errors])
  /\ chances' = [chances EXCEPT ![analysis.incident] = @ + 1]
  /\ analysis' = [analysis EXCEPT !.pc = "report"]
  /\ UNCHANGED <<last, records, searchable, notice, shown, clicked, recovery, dialog>>

\* send_to_slack stores the cause, if there is one, on whatever is ongoing; the
\* update makes an entry where there is none, without a time stamp.
Reports ==
  /\ analysis.pc = "report"
  /\ LET i == IF Ongoing THEN entry.incident ELSE analysis.incident
     IN IF analysis.cause = NoText
        THEN UNCHANGED <<entry, old, chances>>
        ELSE /\ Becomes([entry EXCEPT !.incident = i, !.cause = analysis.cause])
             /\ chances' = IF Ongoing THEN chances ELSE [chances EXCEPT ![i] = @ + 1]
  /\ analysis' = Idle
  /\ UNCHANGED <<last, records, searchable, notice, shown, clicked, recovery, dialog>>

-----------------------------------------------------------------------------
(* Closing an incident.                                                    *)

\* Closings in progress count as records: a bound.
Closings == Len(records) + Cardinality({p \in Recoverers : recovery[p].pc = "save"})
                         + (IF dialog.pc = "typing" THEN 1 ELSE 0)

\* save_incident prints a failure and goes on.
Save(r) == \/ records' = Append(records, r)
           \/ "save" \in CanFail /\ records' = records

\* The recoveries in progress that have read an entry of incident i.
Holders(i) == {p \in Recoverers : recovery[p].pc # "idle" /\ recovery[p].entry.incident = i}

\* A recovery goes on with the entry it read.  It repeats unless it is the first to
\* read an entry that is there: another one that is in progress has read it, or the
\* read is stale.
Took(p, e) ==
  recovery' = [recovery EXCEPT ![p] =
    [pc |-> "save", entry |-> e,
     repeats |-> entry.incident # e.incident \/ Holders(e.incident) # {}]]

\* Mutant of RecoveryGets: it goes on without an entry.
RecoveryGetsAny(p) ==
  /\ recovery[p].pc = "idle"
  /\ Closings < MaxRecords
  /\ \E e \in Looked : Took(p, e)
  /\ UNCHANGED <<last, entry, old, records, searchable, notice, shown, clicked, analysis,
                 dialog, chances>>

\* A RESOLVED notice reads the entry, whoever else has read it.
RecoveryGets(p) ==
  /\ recovery[p].pc = "idle"
  /\ Closings < MaxRecords
  /\ \E e \in Looked : e.incident # 0 /\ Took(p, e)
  /\ UNCHANGED <<last, entry, old, records, searchable, notice, shown, clicked, analysis,
                 dialog, chances>>

\* The time since an entry was put; 0 if it has no time stamp.
Measured(timed) == IF timed THEN Times ELSE {"0"}

RecoverySaves(p) ==
  /\ recovery[p].pc = "save"
  /\ LET e == recovery[p].entry
     IN \E t \in Measured(e.timed) :
          Save([incident |-> e.incident, by |-> "auto", cause |-> e.cause,
                resolution |-> Plain("auto"), minutes |-> t, errors |-> e.errors])
  /\ recovery' = [recovery EXCEPT ![p].pc = "delete"]
  /\ chances' = IF recovery[p].repeats
                THEN [chances EXCEPT ![recovery[p].entry.incident] = @ + 1] ELSE chances
  /\ UNCHANGED <<last, entry, old, searchable, notice, shown, clicked, analysis, dialog>>

\* Mutant of Deleted: the entry stays.
DeletedNot(i) == UNCHANGED <<entry, old, chances>>

\* delete_ongoing_incident, by the alert's name; a failure is printed, and after a
\* recovery of incident i another one may record it again.
Deleted(i) ==
  \/ Becomes(NoEntry) /\ UNCHANGED chances
  \/ /\ "delete" \in CanFail /\ UNCHANGED <<entry, old>>
     /\ chances' = IF i = 0 THEN chances ELSE [chances EXCEPT ![i] = @ + 1]

RecoveryDeletes(p) ==
  /\ recovery[p].pc = "delete"
  /\ Deleted(recovery[p].entry.incident)
  /\ recovery' = [recovery EXCEPT ![p] = Idle]
  /\ UNCHANGED <<last, records, searchable, notice, shown, clicked, analysis, dialog>>

\* The dialog of a message takes the time stamp of whatever entry there is.
OpenModal(i) ==
  /\ dialog.pc = "idle"
  /\ i \in 1..last
  /\ Closings < MaxRecords
  /\ \E e \in Looked : dialog' = [pc |-> "typing", incident |-> i, timed |-> e.timed]
  /\ UNCHANGED <<last, entry, old, records, searchable, notice, shown, clicked, analysis,
                 recovery, chances>>

\* save_resolution saves with the cause of whatever entry there is.  Without an
\* entry when the dialog was opened, the time is 0.
ResolutionSaves ==
  /\ dialog.pc = "typing"
  /\ \E typed \in Typed, t \in Measured(dialog.timed), e \in Looked :
       Save([incident |-> dialog.incident, by |-> "human",
             cause |-> IF e.incident # 0 THEN e.cause ELSE Unknown,
             resolution |-> typed, minutes |-> t, errors |-> NoText])
  /\ dialog' = [pc |-> "delete"]
  /\ UNCHANGED <<last, entry, old, searchable, notice, shown, clicked, analysis, recovery,
                 chances>>

ResolutionDeletes ==
  /\ dialog.pc = "delete"
  /\ Deleted(0)
  /\ dialog' = Idle
  /\ UNCHANGED <<last, records, searchable, notice, shown, clicked, analysis, recovery>>

-----------------------------------------------------------------------------
(* What happens around the handlers.                                       *)

\* A saved record can be found some time later.
Indexed ==
  /\ \E k \in DOMAIN records \ searchable : searchable' = searchable \union {k}
  /\ UNCHANGED <<last, entry, old, records, notice, shown, clicked, analysis, recovery,
                 dialog, chances>>

\* The entry's time to live ends.
Expire ==
  /\ Ongoing
  /\ Becomes(NoEntry)
  /\ UNCHANGED <<last, records, searchable, notice, shown, clicked, analysis, recovery,
                 dialog, chances>>

\* A handler is killed; a recovery that has saved may be followed by another.
Killed ==
  /\ \/ notice' = Idle /\ UNCHANGED <<analysis, recovery, dialog, chances>>
     \/ analysis' = Idle /\ UNCHANGED <<notice, recovery, dialog, chances>>
     \/ dialog' = Idle /\ UNCHANGED <<notice, analysis, recovery, chances>>
     \/ /\ \E p \in Recoverers :
             /\ recovery' = [recovery EXCEPT ![p] = Idle]
             /\ chances' = IF recovery[p].pc = "delete"
                           THEN [chances EXCEPT ![recovery[p].entry.incident] = @ + 1]
                           ELSE chances
        /\ UNCHANGED <<notice, analysis, dialog>>
  /\ UNCHANGED <<last, entry, old, records, searchable, shown, clicked>>

Next == \/ NoticePosts \/ NoticePuts
        \/ \E i \in Incidents : Click(i) \/ OpenModal(i)
        \/ MemoryNode \/ Analyzed \/ SaveNodePuts \/ Reports
        \/ \E p \in Recoverers : RecoveryGets(p) \/ RecoverySaves(p) \/ RecoveryDeletes(p)
        \/ ResolutionSaves \/ ResolutionDeletes
        \/ Indexed \/ Expire \/ Killed

Spec == Init /\ [][Next]_vars

-----------------------------------------------------------------------------
Stats == [failed : BOOLEAN, count : Nat]
Entry == [incident : Incidents \union {0}, cause : Text, errors : Text, timed : BOOLEAN,
          stats : Stats]
Record == [incident : Incidents, by : {"auto", "human"}, cause : Text,
           resolution : Text, minutes : Words, errors : Text]

TypeOK ==
  /\ last \in 0..MaxIncidents
  /\ entry \in Entry /\ old \in Entry
  /\ records \in Seq(Record)
  /\ searchable \subseteq DOMAIN records
  /\ notice \in {Idle} \union [pc : {"put"}, stats : Stats]
  /\ notice.pc = "put" => last > 0
  /\ shown \in [Incidents -> Nat]
  /\ clicked \subseteq 1..last
  /\ analysis \in {Idle}
       \union [pc : {"lookup", "rca"}, incident : Incidents, stats : Stats]
       \union [pc : {"save", "report"}, incident : Incidents, cause : Text, errors : Text]
  /\ recovery \in [Recoverers -> {Idle}
       \union [pc : {"save", "delete"}, entry : Entry, repeats : BOOLEAN]]
  /\ \A p \in Recoverers :
       recovery[p].pc # "idle" => recovery[p].entry.incident \in Incidents
  /\ dialog \in {Idle}
       \union [pc : {"typing"}, incident : Incidents, timed : BOOLEAN]
       \union [pc : {"delete"}]
  /\ chances \in [Incidents -> Nat]

\* Every record reads back as it was saved, except where a text that is written
\* later brings a part of that name along.  So neither a cause nor what a human
\* types can change a measured time; what a human types can change the cause, and
\* evidence, which is written last, can change anything.
ReadsBack ==
  \A k \in DOMAIN records :
    LET r == records[k]
    IN /\ ~Carries(r.errors, "Resolution Time") => Read(r, "Resolution Time") = r.minutes
       /\ ~Carries(r.errors, "Resolution") /\ ~Carries(r.resolution, "Resolution")
            => Read(r, "Resolution") = r.resolution.head
       /\ (\A x \in {r.errors, r.resolution, r.cause} : ~Carries(x, "Root Cause"))
            => Read(r, "Root Cause") = r.cause.head

\* An analysis is told of no fewer past incidents than the message it was asked for
\* shows, though the entry does not keep the notice's lookup and a second one is
\* made: what was found is found again, unless that lookup fails.
ToldNoLess ==
  analysis.pc = "rca" /\ ~analysis.stats.failed
    => analysis.stats.count >= shown[analysis.incident]

RecoveriesOf(i) == {k \in DOMAIN records : records[k].incident = i /\ records[k].by = "auto"}

\* An incident has one record by a recovery for each time its entry was put, and
\* beside that at most one for each save by a notice that read the entry stale or
\* while another one that had read it was in progress, for each deletion that
\* failed, and for each recovery killed between its save and its deletion.
RecordedOncePerEntry == \A i \in Incidents : Cardinality(RecoveriesOf(i)) <= chances[i]
=============================================================================
