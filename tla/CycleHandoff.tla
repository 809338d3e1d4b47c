----------------------------- MODULE CycleHandoff -----------------------------
(***************************************************************************)
(* The reviewer's evidence (cycle_handoff.py and its commands): one cycle  *)
(* of the Mainline session, from the task through the user's decisions and *)
(* Codex's report to the manual review, is captured from an export of the  *)
(* sessions into an immutable packet, from which a candidate for a paid    *)
(* review is built.  The manual review is what the paid one is compared    *)
(* with and should not reach it.                                           *)
(*                                                                         *)
(* Sessions go on and exports are repeated, so a cycle may be captured     *)
(* again as the next revision; packets are plain files that a user may     *)
(* edit, and a write may stop half-way.  SHA-256 is taken to be injective: *)
(* a hash is the value it was computed of.                                 *)
(***************************************************************************)
EXTENDS Naturals, Sequences, SequencesExt

CONSTANTS
    Message,    \* the messages the sessions may come to hold
    Content,    \* texts
    OneLine,    \* those without a line break
    Quotes,     \* <<a, b>>: the text of a occurs in b
    Found,      \* <<a, b>>: it is found in the prompt that shows b, or the identifier of
                \* its message is
    Secret,     \* texts a redaction pattern matches
    Path,       \* where packets are written
    MaxDecisions, \* bound: decisions named in a capture
    MaxFaults   \* bound: edits of packet files and writes that stop half-way

ASSUME FaultAssumption == MaxFaults \in Nat /\ MaxDecisions \in Nat
\* _message_index refuses a message without a place in its cycle.
ASSUME MessageAssumption == \A m \in Message : m.seq \in Nat
ASSUME QuotesAssumption ==
    /\ Quotes \subseteq Content \X Content /\ Secret \subseteq Content
    /\ \A c \in Content : <<c, c>> \in Quotes
\* The prompt numbers the lines of what it shows, and the request escapes them: only
\* a text that lies within a line is found wherever it is quoted.
ASSUME FoundAssumption == OneLine \subseteq Content /\ \A q \in Quotes : q[1] \in OneLine => q \in Found

VARIABLES
    export,     \* the messages retrieved so far
    file,       \* file[p]: the packet at p
    candidate,  \* the packets candidates were built for
    equivalent, \* user-assisted packets and the remote messages found equal
    sealed,     \* history: the packets captured, each with the messages it was captured from
    faults

handoffVars == <<export, file, candidate, equivalent, sealed, faults>>

Nothing == [kind |-> "nothing"]
Torn == [kind |-> "torn"]
None == [revision |-> 0]

HandoffInit ==
    /\ export = {} /\ file = [p \in Path |-> Nothing]
    /\ candidate = {} /\ equivalent = {} /\ sealed = {} /\ faults = 0

-----------------------------------------------------------------------------
(* Selecting the messages of a cycle.                                      *)

Earlier(m, n) == m.seq < n.seq
Decision(m) == m.role = "user" /\ m.context \in {"MAINLINE", "CODEX"}
From(m, role, context) == m.role = role /\ m.context = context

\* The user's messages of the cycle while Codex worked on the task.
Between(messages, task, report) ==
    {m \in messages : m.cycle = task.cycle /\ Decision(m)
                      /\ Earlier(task, m) /\ Earlier(m, report)}

Strict(s) == \A i \in 1 .. Len(s) - 1 : Earlier(s[i], s[i + 1])

\* Mutant: a user's message between them may be left out.
SelectableLoosely(messages, task, decisions, report, manual) ==
    LET selected == <<task>> \o decisions \o <<report, manual>> IN
    /\ From(task, "assistant", "MAINLINE") /\ From(report, "assistant", "CODEX")
    /\ From(manual, "assistant", "MAINLINE") /\ task.session = manual.session
    /\ \A d \in Range(decisions) : Decision(d)
    /\ \A m \in Range(selected) :
        m \in messages /\ m.cycle = task.cycle /\ m.content \notin Secret
    /\ Strict(selected)

\* Roles, contexts and cycle are right, every decision is named and the sequence
\* numbers rise.
Selectable(messages, task, decisions, report, manual) ==
    LET selected == <<task>> \o decisions \o <<report, manual>> IN
    /\ From(task, "assistant", "MAINLINE") /\ From(report, "assistant", "CODEX")
    /\ From(manual, "assistant", "MAINLINE") /\ task.session = manual.session
    /\ \A d \in Range(decisions) : Decision(d)
    /\ \A m \in Range(selected) :
        m \in messages /\ m.cycle = task.cycle /\ m.content \notin Secret
    /\ Between(messages, task, report) \subseteq Range(decisions)
    /\ Strict(selected)

KindAt(i, n) ==
    CASE i = 1 -> "task"
      [] i = n - 1 -> "report"
      [] i = n -> "manual_review"
      [] OTHER -> "intermediate_user_decision"

\* A captured message is for the reviewer or for the comparison.
Records(selected) ==
    [i \in DOMAIN selected |->
        LET kind == KindAt(i, Len(selected)) IN
        [kind |-> kind, message |-> selected[i],
         input |-> kind # "manual_review", local |-> kind = "manual_review"]]

Body(version, revision, records, supersedes) ==
    [version |-> version, revision |-> revision, cycle |-> records[1].message.cycle,
     records |-> records, supersedes |-> supersedes]
Packet(body) == [kind |-> "packet", body |-> body, hash |-> body]

\* The places of what the reviewer is shown.
Inputs(body) == {i \in DOMAIN body.records : body.records[i].input}
Manual(body) == Last(body.records).message
Fingerprint(records) ==
    [i \in DOMAIN records |-> <<records[i].message.id, records[i].message.content>>]

\* verify_cycle_handoff_packet.
Verifies(packet) ==
    /\ packet.kind = "packet" /\ packet.hash = packet.body
    /\ LET records == packet.body.records
           n == Len(records)
       IN /\ packet.body.revision >= 1 /\ n >= 3
          /\ \A i \in 1 .. n : records[i].kind = KindAt(i, n)
          /\ \A i \in 1 .. n - 1 : ~Earlier(records[i + 1].message, records[i].message)
          /\ \A i \in 1 .. n : records[i].message.context # "FUTURE_DESIGN"
          /\ \A i \in 1 .. n : records[i].local <=> i = n
          /\ ~records[n].input
          /\ packet.body.version = "2" =>
                 records[n].message.id = <<"user-assisted", records[n].message.content>>

-----------------------------------------------------------------------------
(* The commands.  One that refuses changes nothing.                        *)

\* The sessions go on; a message may become known after later ones.
Retrieve(m) ==
    /\ m \in Message \ export /\ export' = export \cup {m}
    /\ UNCHANGED <<file, candidate, equivalent, sealed, faults>>

\* write_cycle_handoff_packet opens a new file and may stop in the middle of it.
Seal(p, messages, body) ==
    /\ file[p] = Nothing
    /\ \/ file' = [file EXCEPT ![p] = Packet(body)] /\ UNCHANGED faults
       \/ /\ faults < MaxFaults /\ faults' = faults + 1
          /\ file' = [file EXCEPT ![p] = Torn]
    /\ sealed' = sealed \cup {[body |-> body, messages |-> messages]}
    /\ UNCHANGED <<export, candidate, equivalent>>

\* The command names messages of the user, in whatever order.
Decisions(messages) == SeqOf({m \in messages : m.role = "user"}, MaxDecisions)

\* cycle-capture of a first packet, or of the next revision of one.
CaptureCycle(p) ==
    \E task, report, manual \in export, decisions \in Decisions(export) :
        /\ Selectable(export, task, decisions, report, manual)
        /\ LET records == Records(<<task>> \o decisions \o <<report, manual>>) IN
            \/ Seal(p, export, Body("1", 1, records, None))
            \/ \E q \in Path :
                /\ Verifies(file[q]) /\ file[q].body.cycle = task.cycle
                /\ Fingerprint(file[q].body.records) # Fingerprint(records)
                /\ Seal(p, export, Body("1", file[q].body.revision + 1, records, file[q].hash))

\* cycle-capture-user-assisted: the review could not be retrieved and its text is
\* given by the user, with its session and its place.
Assisted(text, session, cycle, seq) ==
    [id |-> <<"user-assisted", text>>, session |-> session, role |-> "assistant",
     context |-> "MAINLINE", cycle |-> cycle, seq |-> seq, content |-> text]
CaptureAssisted(p) ==
    \E task, report \in export, decisions \in Decisions(export), text \in Content, m \in Message :
        LET manual == Assisted(text, m.session, task.cycle, m.seq)
            messages == export \cup {manual} IN
        /\ Selectable(messages, task, decisions, report, manual)
        /\ Seal(p, messages, Body("2", 1, Records(<<task>> \o decisions \o <<report, manual>>), None))

\* cycle-capture-legacy: three files stand for the messages.
Legacy(kind, session, context, seq, text) ==
    [id |-> <<kind, text>>, session |-> session, role |-> "assistant",
     context |-> context, cycle |-> "legacy", seq |-> seq, content |-> text]
CaptureLegacy(p) ==
    \E t, r, c \in Content \ Secret :
        LET task == Legacy("legacy-task", <<"mainline", t>>, "MAINLINE", 10, t)
            report == Legacy("legacy-report", <<"codex", r>>, "CODEX", 20, r)
            manual == Legacy("legacy-review", <<"mainline", t>>, "MAINLINE", 30, c) IN
        Seal(p, {task, report, manual}, Body("1", 1, Records(<<task, report, manual>>), None))

\* cycle-candidate.  The prompt is searched for the manual review.
BuildCandidate(p) ==
    /\ Verifies(file[p])
    /\ \A i \in Inputs(file[p].body) :
        <<Manual(file[p].body).content, file[p].body.records[i].message.content>> \notin Found
    /\ candidate' = candidate \cup {file[p]}
    /\ UNCHANGED <<export, file, equivalent, sealed, faults>>

\* verify_user_assisted_remote_equivalence.
\* Mutant: where the remote message stands is not looked at.
CompareAnywhere(p, m) ==
    /\ Verifies(file[p]) /\ file[p].body.version = "2"
    /\ From(m, "assistant", "MAINLINE") /\ m.cycle = file[p].body.cycle
    /\ m.session = Head(file[p].body.records).message.session
    /\ m.content = Manual(file[p].body).content
    /\ equivalent' = equivalent \cup {[body |-> file[p].body, remote |-> m]}
    /\ UNCHANGED <<export, file, candidate, sealed, faults>>
Compare(p, m) ==
    /\ Verifies(file[p]) /\ file[p].body.version = "2"
    /\ From(m, "assistant", "MAINLINE") /\ m.cycle = file[p].body.cycle
    /\ LET records == file[p].body.records IN
        /\ m.session = Head(records).message.session
        /\ Earlier(records[Len(records) - 1].message, m)
        /\ m.content = Manual(file[p].body).content
    /\ equivalent' = equivalent \cup {[body |-> file[p].body, remote |-> m]}
    /\ UNCHANGED <<export, file, candidate, sealed, faults>>

\* A packet file is edited and its hash left as it was: the review is shown, or a
\* decision withheld.
Edit(p) ==
    /\ file[p].kind = "packet" /\ faults < MaxFaults
    /\ LET records == file[p].body.records IN
        \/ file' = [file EXCEPT ![p].body.records =
                        [records EXCEPT ![Len(records)].input = TRUE]]
        \/ Len(records) > 3 /\ file' = [file EXCEPT ![p].body.records = RemoveAt(records, 2)]
    /\ faults' = faults + 1
    /\ UNCHANGED <<export, candidate, equivalent, sealed>>

HandoffNext ==
    \/ \E m \in Message : Retrieve(m)
    \/ \E p \in Path :
        \/ CaptureCycle(p) \/ CaptureAssisted(p) \/ CaptureLegacy(p)
        \/ BuildCandidate(p) \/ Edit(p)
        \/ \E m \in Message : Compare(p, m)

-----------------------------------------------------------------------------
(* Properties.                                                             *)

\* The revision before it was captured too, of the same cycle, with other content.
Lineage(body) ==
    IF body.revision = 1 THEN body.supersedes = None
    ELSE \E s \in sealed :
        /\ s.body = body.supersedes /\ s.body.revision + 1 = body.revision
        /\ s.body.cycle = body.cycle
        /\ Fingerprint(s.body.records) # Fingerprint(body.records)

\* Whatever becomes of the files, the reviewer of a candidate is shown a whole
\* cycle: the task, everything the user said while it was worked on as far as it
\* was known at the capture, and the report, in order; in none of it the manual
\* review, if that is one line (a report that quotes a longer one is not noticed);
\* and the packet's revision counts captures that were really made.
ReviewedIsWhole ==
    \A packet \in candidate : \E s \in sealed :
        /\ s.body = packet.body
        /\ LET records == s.body.records
               shown == Inputs(s.body)
               task == records[1].message
               report == records[Len(records) - 1].message
           IN /\ {records[i].message : i \in shown} = {task, report} \cup Between(s.messages, task, report)
              /\ \A i, j \in shown : i < j => Earlier(records[i].message, records[j].message)
              /\ Manual(s.body).content \in OneLine =>
                     \A i \in shown : <<Manual(s.body).content, records[i].message.content>> \notin Quotes
        /\ Lineage(s.body)

\* A user-assisted packet found equal to a remote message is the packet a direct
\* capture with that message as the review would have sealed.
EquivalentIsCapturable ==
    \A e \in equivalent : \E s \in sealed :
        /\ s.body = e.body
        /\ LET selected == [i \in DOMAIN e.body.records |-> e.body.records[i].message]
               n == Len(selected)
           IN Selectable(s.messages \cup {e.remote}, selected[1], SubSeq(selected, 2, n - 2),
                         selected[n - 1], e.remote)
=============================================================================
